------------------------- MODULE InteractiveProcess -------------------------
(***************************************************************************)
(* One invocation of an interactive provider: runInteractiveProcess        *)
(* (infrastructure/execution/interactive-process.ts) between the child     *)
(* process, its pipe, the protocol that reads its frames, the observation  *)
(* of its process tree (domain/process-observation.ts), the timeout and    *)
(* Stop.  The tree itself is ProcessTree; here a kill ends the child, or   *)
(* reports that it failed.                                                 *)
(***************************************************************************)
EXTENDS Integers

CONSTANTS Chunks,        \* bound: chunks of output the child writes
          FailureLimit,  \* transient failures of the observation in a row (50)
          FailureBudget  \* and in all (600)

ASSUME InvocationAssumption == Chunks \in Nat /\ FailureLimit \in Nat /\ FailureBudget \in Nat

VARIABLES
  completion,  \* "provider-exit" (Claude) or "result" (Codex)
  child,       \* "running", "killed", "exited" or "closed"
  exitCode,    \* 0 or 1, once exited
  toWrite,     \* chunks the child has still to write
  inPipe,      \* chunks written and not read
  pipe,        \* "flowing", "paused" or "destroyed"
  receiver,    \* "idle", "busy" with a chunk, or "stuck" in an await
  result,      \* the terminal result, "none" until there is one
  provided,    \* providerResult is set, stdin ended
  observation, \* [streak, failed] of the observation, or Stopped
  resolved     \* what the promise resolved to, "none" until then

invocationVars == <<completion, child, exitCode, toWrite, inPipe, pipe, receiver, result,
                    provided, observation, resolved>>
processVars == <<completion, child, exitCode, toWrite, inPipe>>

Results == {"none", "ok", "cancelled", "execution_timeout", "provider_reported_failure",
            "provider_protocol_failed", "output_persistence_failed", "provider_result_missing",
            "process_cleanup_failed"}
Stopped == [streak |-> 0, failed |-> 0 - 1]

InvocationInit ==
  /\ completion \in {"provider-exit", "result"}
  /\ child = "running" /\ exitCode = 0 /\ toWrite = Chunks /\ inPipe = 0
  /\ pipe = "flowing" /\ receiver = "idle" /\ result = "none" /\ provided = FALSE
  /\ observation = [streak |-> 0, failed |-> 0] /\ resolved = "none"

----------------------------------------------------------------------------
(* kill(): SIGKILL to the tree and the group; or it throws, which replaces *)
(* whatever result there is.                                               *)
Kill(then) ==
  \/ result' = then /\ child' = IF child = "running" THEN "killed" ELSE child
  \/ result' = "process_cleanup_failed" /\ child' \in {child, IF child = "running" THEN "killed" ELSE child}

(* Mutant: the streams are left to close by themselves.                    *)
FinishLeavesPipes(value) ==
  IF result # "none" \/ resolved # "none" THEN UNCHANGED <<result, child, pipe>>
  ELSE Kill(value) /\ UNCHANGED pipe

(* Mutant: a later result replaces an earlier one.                         *)
FinishAgain(value) ==
  IF resolved # "none" THEN UNCHANGED <<result, child, pipe>>
  ELSE Kill(value) /\ pipe' = "destroyed"

(* finish(): the first value stands; the pipes are destroyed, since a      *)
(* paused one would keep the child from closing.                           *)
Finish(value) ==
  IF result # "none" \/ resolved # "none" THEN UNCHANGED <<result, child, pipe>>
  ELSE Kill(value) /\ pipe' = "destroyed"

(* The child writes and exits, the latter after a kill in any case.        *)
Write ==
  /\ child = "running" /\ toWrite > 0
  /\ toWrite' = toWrite - 1 /\ inPipe' = inPipe + 1
  /\ UNCHANGED <<completion, child, exitCode, pipe, receiver, result, provided, observation, resolved>>

(* once('exit', kill): descendants must not outlive their parent.          *)
Exits ==
  /\ child \in {"running", "killed"}
  /\ child' = "exited" /\ toWrite' = 0
  /\ exitCode' \in IF child = "killed" THEN {1} ELSE {0, 1}
  /\ result' \in {result, "process_cleanup_failed"}
  /\ pipe' = IF pipe = "paused" THEN "flowing" ELSE pipe   \* Node flushes the pipes of an exited child
  /\ UNCHANGED <<completion, inPipe, receiver, provided, observation, resolved>>

----------------------------------------------------------------------------
(* A chunk is read: the pipe pauses until the protocol has taken every     *)
(* frame of it, which may wait for the storage, or for ever.  Of two       *)
(* receivers that overlap after the exit the later one is kept.            *)
Read ==
  /\ pipe = "flowing" /\ inPipe > 0 /\ child # "closed"
  /\ inPipe' = inPipe - 1 /\ pipe' = "paused"
  /\ receiver' \in {"busy", "stuck"}
  /\ UNCHANGED <<completion, child, exitCode, toWrite, result, provided, observation, resolved>>

Resumed == IF pipe = "paused" /\ result = "none" /\ resolved = "none" THEN "flowing" ELSE pipe

(* No result yet, a success that waits for the child's own exit, another   *)
(* terminal result, or an error.  After a result nothing is looked at.     *)
Received ==
  /\ receiver = "busy" /\ receiver' = "idle"
  /\ \/ UNCHANGED <<result, child, provided>> /\ pipe' = Resumed
     \/ /\ result = "none" /\ resolved = "none" /\ completion = "provider-exit"
        /\ provided' = TRUE /\ pipe' = Resumed
        /\ UNCHANGED <<result, child>>
     \/ /\ result = "none" /\ completion = "result"
        /\ Finish("ok") /\ UNCHANGED provided
     \/ \E error \in {"provider_reported_failure", "provider_protocol_failed"} :
          Finish(error) /\ UNCHANGED provided
  /\ UNCHANGED <<completion, exitCode, toWrite, inPipe, observation, resolved>>

(* Stop and the deadline of the invocation.                                *)
Interrupted ==
  /\ resolved = "none" /\ result = "none"
  /\ \E error \in {"cancelled", "execution_timeout"} : Finish(error)
  /\ UNCHANGED <<completion, exitCode, toWrite, inPipe, receiver, provided, observation, resolved>>

(* trackObservation: every 100 ms until the child closes; transient        *)
(* failures are tolerated up to a limit in a row and a budget in all, any  *)
(* other one is fatal.                                                     *)
Tolerated(o) == o.streak < FailureLimit /\ o.failed < FailureBudget
Observe ==
  /\ child # "closed" /\ observation # Stopped
  /\ \/ observation' = [observation EXCEPT !.streak = 0] /\ UNCHANGED <<result, child, pipe>>
     \/ LET next == [streak |-> observation.streak + 1, failed |-> observation.failed + 1] IN
          \E transient \in BOOLEAN :
            IF transient /\ Tolerated(next)
            THEN observation' = next /\ UNCHANGED <<result, child, pipe>>
            ELSE observation' = Stopped /\ Finish("process_cleanup_failed")
  /\ UNCHANGED <<completion, exitCode, toWrite, inPipe, receiver, provided, resolved>>

----------------------------------------------------------------------------
(* 'close' comes when the child has exited and its pipe is at its end.     *)
Closes ==
  /\ child = "exited"
  /\ pipe = "destroyed" \/ (pipe = "flowing" /\ inPipe = 0)
  /\ child' = "closed"
  /\ result' \in {result, "process_cleanup_failed"}
  /\ UNCHANGED <<completion, exitCode, toWrite, inPipe, pipe, receiver, provided, observation, resolved>>

Outcome ==
  IF result # "none" THEN result
  ELSE IF ~provided THEN "provider_result_missing"
  ELSE IF exitCode = 0 THEN "ok" ELSE "provider_reported_failure"

(* What was accepted is drained, for a second at most.                     *)
Resolve ==
  /\ child = "closed" /\ resolved = "none"
  /\ \/ receiver = "idle" /\ resolved' = Outcome
     \/ /\ receiver # "idle"
        /\ resolved' = IF result = "none" THEN "output_persistence_failed" ELSE result
  /\ UNCHANGED <<processVars, pipe, receiver, result, provided, observation>>

InvocationNext ==
  \/ Write \/ Exits \/ Read \/ Received \/ Interrupted \/ Observe \/ Closes \/ Resolve

(* A killed process exits, an exited one closes when its pipe lets it, the *)
(* deadline and the drain timer fire.  A receiver need not return.         *)
InvocationFairness ==
  /\ WF_invocationVars(child = "killed" /\ Exits)
  /\ WF_invocationVars(Read) /\ WF_invocationVars(Closes)
  /\ WF_invocationVars(Interrupted) /\ WF_invocationVars(Resolve)
InvocationSpec == InvocationInit /\ [][InvocationNext]_invocationVars /\ InvocationFairness

----------------------------------------------------------------------------
InvocationTypeOK ==
  /\ child \in {"running", "killed", "exited", "closed"} /\ exitCode \in {0, 1}
  /\ toWrite \in 0..Chunks /\ inPipe \in 0..Chunks
  /\ pipe \in {"flowing", "paused", "destroyed"} /\ receiver \in {"idle", "busy", "stuck"}
  /\ result \in Results /\ resolved \in Results /\ provided \in BOOLEAN

(* What the promise resolves to was decided once: the first terminal       *)
(* result stands against every later frame, Stop, timeout and exit, and    *)
(* only a failed cleanup replaces it; a success needs the provider's word  *)
(* and, for Claude, its own clean exit.                                    *)
FirstResultStands ==
  [][/\ result # "none" => result' \in {result, "process_cleanup_failed"}
     /\ resolved' # resolved => /\ resolved = "none"
                                /\ resolved' = "ok" => result = "ok" \/ (provided /\ exitCode = 0)
    ]_invocationVars

(* An invocation comes to an end although a receiver may wait for ever,    *)
(* unless the processes could not be killed.                               *)
InvocationEnds == <>(resolved # "none" \/ result = "process_cleanup_failed")
=============================================================================
