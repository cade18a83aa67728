----------------------------- MODULE ProcessTree -----------------------------
(***************************************************************************)
(* The processes of one provider: LinuxProcessTree                         *)
(* (infrastructure/execution/linux-process-tree.ts) against an operating   *)
(* system that forks, ends and reparents processes and hands out their     *)
(* numbers again between any two system calls: two reads of /proc, or the  *)
(* read and the signal that follows it.  An identity is a number with the  *)
(* start time of the process.  Left out: the process group that is         *)
(* signalled besides the tree, and a SIGCONT from somebody else.           *)
(***************************************************************************)
EXTENDS Integers, FiniteSets

CONSTANTS Pids,       \* process numbers
          Root,       \* the number of the provider
          OwnedLimit, \* identities kept (4096 in the code)
          JiffyLimit  \* bound: processes that start and calls that fail, together

ASSUME TreeAssumption == Root \in Pids /\ Pids \subseteq Nat \ {0} /\ IsFiniteSet(Pids) /\ JiffyLimit \in Nat \ {0}

VARIABLES
  proc,      \* pid -> its process, or NoProcess
  jiffies,   \* the kernel's clock of start times
  identity,  \* pid -> start time of the owned process, 0 for none
  walk,      \* "idle", why collect() runs: "observe" or "kill", or "signal" for the SIGKILLs
  queue,     \* owned identities this walk has before it
  parent,    \* the one it is at, or 0
  step,      \* and what it does there: "look", "send" the signal, "list", or "adopt"
  visited,   \* pid -> start time it was visited with, 0 for not visited
  children,  \* the children listed,
  candidate, \* and the one looked at: its number and start time
  failed,    \* an inspection of this walk failed
  spared     \* identities this kill could not signal

treeVars == <<proc, jiffies, identity, walk, queue, parent, step, visited, children, candidate,
              failed, spared>>
walkVars == <<walk, queue, parent, step, visited, children, candidate, failed, spared>>
systemVars == <<proc, jiffies>>

(* ours, lost and raced are history: a descendant of the root; one that no *)
(* walk could find (Orphaned, Slips); one whose number was handed out      *)
(* between the look at its predecessor and a signal.  A process that was   *)
(* sent SIGSTOP stops some time later.                                     *)
Processes == [start: 1..JiffyLimit, parent: Pids \cup {0}, stop: {"no", "sent", "yes"},
              ours: BOOLEAN, lost: BOOLEAN, raced: BOOLEAN]
NoProcess == [start |-> 0, parent |-> 0, stop |-> "no", ours |-> FALSE, lost |-> FALSE, raced |-> FALSE]
NoCandidate == [pid |-> 0, start |-> 0]
Alive(p)  == proc[p] # NoProcess
Owned     == {p \in Pids : identity[p] # 0}
Current(p) == Alive(p) /\ proc[p].start = identity[p]
Frozen(p) == proc[p].stop # "no"

TreeInit ==
  /\ jiffies = 1
  /\ proc = [p \in Pids |-> IF p = Root
               THEN [start |-> 1, parent |-> 0, stop |-> "no", ours |-> TRUE, lost |-> FALSE, raced |-> FALSE]
               ELSE NoProcess]
  /\ identity = [p \in Pids |-> IF p = Root THEN 1 ELSE 0]
  /\ walk = "idle" /\ queue = {} /\ parent = 0 /\ step = "look" /\ visited = [p \in Pids |-> 0]
  /\ children = {} /\ candidate = NoCandidate /\ failed = FALSE /\ spared = {}

----------------------------------------------------------------------------
(* The operating system.                                                   *)

(* A process that was sent SIGSTOP still forks after its children were     *)
(* listed: "to narrow concurrent-fork races".                              *)
Listed(p) == /\ walk \in {"kill", "signal"} /\ visited[p] # 0
             /\ walk = "kill" /\ parent = p => step = "adopt"
Slips(p) == Listed(p) /\ proc[p].stop = "sent"

(* A process forks, or an unrelated one starts.                             *)
Fork(p, c) ==
  /\ ~Alive(c) /\ jiffies < JiffyLimit
  /\ p # 0 => Alive(p) /\ proc[p].stop # "yes"
  /\ jiffies' = jiffies + 1
  /\ proc' = [proc EXCEPT ![c] = [start |-> jiffies', parent |-> p, stop |-> "no",
                ours |-> p # 0 /\ proc[p].ours, lost |-> p # 0 /\ proc[p].ours /\ Slips(p),
                raced |-> parent = c /\ step = "send"]]
  /\ UNCHANGED identity /\ UNCHANGED walkVars

Halts(p) ==
  /\ proc[p].stop = "sent"
  /\ proc' = [proc EXCEPT ![p].stop = "yes"]
  /\ UNCHANGED <<jiffies, identity>> /\ UNCHANGED walkVars

(* A process ends; its children become those of init.  One that is not     *)
(* owned yet cannot be found any more.                                     *)
Orphaned(q, unseen) ==
  [proc[q] EXCEPT !.parent = 0, !.lost = @ \/ (unseen /\ proc[q].ours /\ ~Current(q))]
Without(p, unseen) ==
  [q \in Pids |-> IF q = p THEN NoProcess
                  ELSE IF Alive(q) /\ proc[q].parent = p THEN Orphaned(q, unseen)
                  ELSE proc[q]]
Exit(p) ==
  /\ Alive(p)
  /\ proc' = Without(p, TRUE)
  /\ UNCHANGED <<jiffies, identity>> /\ UNCHANGED walkVars

----------------------------------------------------------------------------
(* collect(), one system call after the other.                             *)

(* observe(), snapshot() and kill(): identities that are gone are dropped, *)
(* but for those that cannot be read.                                      *)
Walk(why) ==
  /\ walk = "idle" /\ walk' = why
  /\ \E unread \in SUBSET Owned :
       /\ identity' = [p \in Pids |-> IF Current(p) \/ p \in unread THEN identity[p] ELSE 0]
       /\ failed' = (unread # {})
       /\ jiffies' = jiffies + Cardinality(unread) /\ jiffies' <= JiffyLimit
  /\ queue' = {p \in Pids : identity'[p] # 0}
  /\ UNCHANGED <<proc, parent, step, visited, children, candidate, spared>>

(* What collect() and kill() kept for themselves ends with them.           *)
Returns ==
  /\ walk' = "idle" /\ visited' = [p \in Pids |-> 0] /\ failed' = FALSE /\ spared' = {}
  /\ UNCHANGED <<systemVars, identity, queue, parent, step, children, candidate>>
GoesOnToKill ==
  /\ walk' = "signal" /\ queue' = Owned
  /\ UNCHANGED <<systemVars, identity, parent, step, visited, children, candidate, failed, spared>>

CallFails == jiffies < JiffyLimit /\ jiffies' = jiffies + 1 /\ UNCHANGED proc

Walking == walk \in {"observe", "kill"}
AtParent(what) == parent # 0 /\ step = what

(* Mutant: the children are listed while the parent runs.                  *)
VisitRunning(p) ==
  /\ Walking /\ parent = 0 /\ p \in queue /\ queue' = queue \ {p}
  /\ IF Current(p) /\ visited[p] = 0
     THEN parent' = p /\ visited' = [visited EXCEPT ![p] = identity[p]] /\ step' = "list"
     ELSE UNCHANGED <<parent, visited, step>>
  /\ UNCHANGED <<systemVars, identity, walk, children, candidate, failed, spared>>

(* An identity is visited once, by its number; when it is to be killed, it *)
(* is stopped before its children are listed.                              *)
Visit(p) ==
  /\ Walking /\ parent = 0 /\ p \in queue /\ queue' = queue \ {p}
  /\ IF Current(p) /\ visited[p] = 0
     THEN /\ parent' = p /\ visited' = [visited EXCEPT ![p] = identity[p]]
          /\ step' = IF walk = "kill" THEN "look" ELSE "list"
     ELSE UNCHANGED <<parent, visited, step>>
  /\ UNCHANGED <<systemVars, identity, walk, children, candidate, failed, spared>>

(* One that cannot be read is passed over.                                 *)
VisitFails(p) ==
  /\ CallFails /\ failed' = TRUE
  /\ Walking /\ parent = 0 /\ p \in queue /\ queue' = queue \ {p}
  /\ UNCHANGED <<identity, walk, parent, step, visited, children, candidate, spared>>

(* Mutant: the number is signalled without another look.                   *)
AnyoneThere(p) == TRUE
(* signal() looks at the identity once more,                               *)
StillThere(p) == Current(p)
LooksOnce ==
  /\ AtParent("look")
  /\ IF StillThere(parent) THEN step' = "send" /\ UNCHANGED parent
     ELSE IF walk = "kill" THEN step' = "list" /\ UNCHANGED parent
     ELSE parent' = 0 /\ UNCHANGED step
  /\ UNCHANGED <<systemVars, identity, walk, queue, visited, children, candidate, failed, spared>>

(* and sends what by then may reach another process, or nobody.            *)
SendsStop ==
  /\ walk = "kill" /\ AtParent("send") /\ step' = "list"
  /\ proc' = IF Alive(parent) /\ ~Frozen(parent) THEN [proc EXCEPT ![parent].stop = "sent"] ELSE proc
  /\ UNCHANGED <<jiffies, identity, walk, queue, parent, visited, children, candidate, failed, spared>>

StopFails ==
  /\ CallFails /\ failed' = TRUE
  /\ walk = "kill" /\ parent # 0 /\ step \in {"look", "send"} /\ step' = "list"
  /\ UNCHANGED <<identity, walk, queue, parent, visited, children, candidate, spared>>

ListsChildren ==
  /\ AtParent("list") /\ step' = "adopt"
  /\ children' = {c \in Pids : Alive(c) /\ proc[c].parent = parent}
  /\ UNCHANGED <<systemVars, identity, walk, queue, parent, visited, candidate, failed, spared>>

(* The number of a child may name another process by now.                  *)
LooksAtChild(c) ==
  /\ AtParent("adopt") /\ candidate = NoCandidate /\ c \in children
  /\ children' = children \ {c}
  /\ candidate' = IF Alive(c) /\ proc[c].parent = parent
                  THEN [pid |-> c, start |-> proc[c].start] ELSE NoCandidate
  /\ UNCHANGED <<systemVars, identity, walk, queue, parent, step, visited, failed, spared>>

(* Mutant: whoever has the number of the parent vouches for the child.     *)
IsChildByNumber(c) == identity[c] # candidate.start
(* And so may that of the parent.                                          *)
IsChild(c) == Current(parent) /\ identity[c] # candidate.start

Adopt(c) ==
  /\ candidate # NoCandidate /\ c = candidate.pid
  /\ candidate' = NoCandidate
  /\ IF ~IsChild(c) THEN UNCHANGED <<identity, queue, children, failed>>
     ELSE IF Cardinality(Owned) >= OwnedLimit     \* process_tree_limit ends the walk
     THEN failed' = TRUE /\ children' = {} /\ queue' = {} /\ UNCHANGED identity
     ELSE /\ identity' = [identity EXCEPT ![c] = candidate.start]
          /\ queue' = queue \cup {c}
          /\ UNCHANGED <<children, failed>>
  /\ UNCHANGED <<systemVars, walk, parent, step, visited, spared>>

(* A read of children, of one or of the parent fails: this is remembered,  *)
(* and the walk goes on, unless there are too many of them.                *)
ReadFails ==
  /\ CallFails /\ failed' = TRUE
  /\ AtParent("adopt")
  /\ \/ /\ candidate # NoCandidate /\ candidate' = NoCandidate /\ UNCHANGED <<children, queue>>
     \/ /\ candidate = NoCandidate /\ UNCHANGED <<candidate, queue>>
        /\ \E c \in children : children' = children \ {c}
     \/ candidate = NoCandidate /\ children' = {} /\ queue' = {} /\ UNCHANGED candidate
  /\ UNCHANGED <<identity, walk, parent, step, visited, spared>>

Visited ==
  /\ AtParent("adopt") /\ children = {} /\ candidate = NoCandidate
  /\ parent' = 0 /\ step' = "look"
  /\ UNCHANGED <<systemVars, identity, walk, queue, visited, children, candidate, failed, spared>>

(* Mutant: a failed inspection leaves the frozen processes as they are.    *)
WalkEndsFailing ==
  /\ Walking /\ parent = 0 /\ queue = {}
  /\ IF walk = "kill" /\ ~failed THEN GoesOnToKill ELSE Returns

(* kill(): whether or not the inspection failed, what is owned is killed.  *)
WalkEnds ==
  /\ Walking /\ parent = 0 /\ queue = {}
  /\ IF walk = "kill" THEN GoesOnToKill ELSE Returns

(* signal(), for one identity after the other: here in any order.          *)
Turns(p) ==
  /\ walk = "signal" /\ parent = 0 /\ p \in queue
  /\ parent' = p /\ queue' = queue \ {p}
  /\ UNCHANGED <<systemVars, identity, walk, step, visited, children, candidate, failed, spared>>

(* Its children were found, unless the inspection failed, the number was   *)
(* visited under another identity before or names another process by now.  *)
SendsKill ==
  /\ walk = "signal" /\ AtParent("send")
  /\ proc' = IF ~Alive(parent) THEN proc
             ELSE Without(parent, failed \/ ~Current(parent) \/ visited[parent] \notin {0, identity[parent]})
  /\ parent' = 0 /\ step' = "look"
  /\ UNCHANGED <<jiffies, identity, walk, queue, visited, children, candidate, failed, spared>>

KillFails ==
  /\ CallFails
  /\ walk = "signal" /\ parent # 0
  /\ spared' = spared \cup {parent} /\ parent' = 0 /\ step' = "look"
  /\ UNCHANGED <<identity, walk, queue, visited, children, candidate, failed>>

KillEnds == walk = "signal" /\ parent = 0 /\ queue = {} /\ Returns

TreeNext ==
  \/ \E p \in Pids \cup {0}, c \in Pids : Fork(p, c)
  \/ \E p \in Pids : \/ Halts(p) \/ Exit(p) \/ Visit(p) \/ VisitFails(p)
                     \/ LooksAtChild(p) \/ Adopt(p) \/ Turns(p)
  \/ Walk("observe") \/ Walk("kill") \/ LooksOnce \/ SendsStop \/ StopFails \/ ListsChildren
  \/ ReadFails \/ Visited \/ WalkEnds \/ SendsKill \/ KillFails \/ KillEnds

TreeSpec == TreeInit /\ [][TreeNext]_treeVars

----------------------------------------------------------------------------
TreeTypeOK ==
  /\ proc \in [Pids -> Processes \cup {NoProcess}]
  /\ jiffies \in 1..JiffyLimit
  /\ identity \in [Pids -> 0..JiffyLimit]
  /\ walk \in {"idle", "observe", "kill", "signal"}
  /\ queue \in SUBSET Pids /\ parent \in Pids \cup {0}
  /\ step \in {"look", "send", "list", "adopt"}
  /\ visited \in [Pids -> 0..JiffyLimit] /\ children \in SUBSET Pids
  /\ candidate.pid \in Pids \cup {0} /\ candidate.start \in 0..JiffyLimit
  /\ failed \in BOOLEAN /\ spared \in SUBSET Pids

(* A signal reaches only descendants of the provider, although numbers are *)
(* handed out again between a listing and the look at the child ("kernel   *)
(* start times, never a recycled PID alone"): a stranger is hit only if it *)
(* got its number between the last look at the identity and the very next  *)
(* call, the signal.  And of all that was frozen a kill leaves only such a *)
(* late comer alive, or one it could not signal, even when the inspection  *)
(* failed.                                                                 *)
StopsOnlyItsOwn ==
  [][/\ step = "send" /\ step' # "send" /\ Alive(parent) => proc[parent].ours \/ proc[parent].raced
     /\ walk \in {"kill", "signal"} /\ walk' = "idle" =>
          \A p \in Pids : Frozen(p) => proc[p].raced \/ p \in spared]_treeVars

(* A kill that did not fail leaves no descendant alive that was there to   *)
(* be found.  A survivor has a parent that survives, or it was lost: the   *)
(* parent ended before the survivor was observed; or forked it after its   *)
(* children were listed, with a SIGSTOP on the way; or was killed unlisted *)
(* because another process with its number had been, or by a signal meant  *)
(* for that one, or by a kill that reported its failure.                   *)
KillIsComplete ==
  [][walk = "signal" /\ walk' = "idle" /\ ~failed /\ spared = {} =>
       \A p \in Pids : proc[p].ours => proc[p].lost \/ proc[p].parent # 0]_treeVars

=============================================================================
