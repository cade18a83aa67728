----------------------------- MODULE McpLogins ------------------------------
(***************************************************************************)
(* Logins of MCP servers: McpServerManagementService                       *)
(* (application/mcp-server-management-service.ts) over the provider        *)
(* processes of infrastructure/execution/mcp-server-management.ts.  A new  *)
(* login replaces the one before, waits until that has settled, and then   *)
(* starts its own process; a login that waits for a callback is retained   *)
(* for its client to ask about.                                            *)
(***************************************************************************)
EXTENDS Integers, FiniteSets

CONSTANTS Logins,         \* login sessions, in the order they begin
          RetainedLogins  \* policy.retainedLogins

ASSUME LoginAssumption == Logins \subseteq Nat \ {0} /\ RetainedLogins \in Nat \ {0}

VARIABLES
  loginPhase,    \* session -> where begin() is, or the phase of a retained one
  loginAborted,  \* session -> its signal
  loginSettled,  \* session -> its settled promise is resolved
  loginProcess,  \* session -> "none", "running" or "closed"
  previous,      \* session -> the active one it replaced, or 0
  activeLogin,   \* this.active, 0 for undefined
  sessions,      \* keys of the map of retained sessions
  delivering,    \* sessions with a callback on its way
  mcpClosing     \* "open", "closing" or "closed"

loginVars == <<loginPhase, loginAborted, loginSettled, loginProcess, previous,
               activeLogin, sessions, delivering, mcpClosing>>

LoginInit ==
  /\ loginPhase = [s \in Logins |-> "none"] /\ loginAborted = [s \in Logins |-> FALSE]
  /\ loginSettled = [s \in Logins |-> FALSE] /\ loginProcess = [s \in Logins |-> "none"]
  /\ previous = [s \in Logins |-> 0]
  /\ activeLogin = 0 /\ sessions = {} /\ delivering = {} /\ mcpClosing = "open"

Retained(s) == s \in sessions
OtherLogins(s) == sessions \ {s}
Phase(s, p) == loginPhase' = [loginPhase EXCEPT ![s] = p]
AbortAll(S) == loginAborted' = [s \in Logins |-> loginAborted[s] \/ s \in S]
Release(s) ==
  /\ activeLogin' = IF activeLogin = s THEN 0 ELSE activeLogin
  /\ loginSettled' = [loginSettled EXCEPT ![s] = TRUE]

(* begin: the session is the active one at once, and the one before it is  *)
(* aborted.                                                                *)
Begin(s) ==
  /\ mcpClosing = "open" /\ loginPhase[s] = "none"
  /\ \A t \in Logins : t < s => loginPhase[t] # "none"
  /\ previous' = [previous EXCEPT ![s] = activeLogin] /\ activeLogin' = s
  /\ AbortAll({activeLogin}) /\ Phase(s, "queued")
  /\ UNCHANGED <<loginSettled, loginProcess, sessions, delivering, mcpClosing>>

(* Mutant: the session before is aborted, and not waited for.              *)
AttemptAtOnce(s) ==
  /\ loginPhase[s] = "queued"
  /\ \/ /\ ~loginAborted[s] /\ Phase(s, "attempting")
        /\ loginProcess' = [loginProcess EXCEPT ![s] = "running"]
        /\ UNCHANGED <<activeLogin, loginSettled>>
     \/ Phase(s, "over") /\ Release(s) /\ UNCHANGED loginProcess
  /\ UNCHANGED <<loginAborted, previous, sessions, delivering, mcpClosing>>

(* attempt: once that has settled.  An aborted session, or one whose       *)
(* checkout fails, is released.                                            *)
Attempt(s) ==
  /\ loginPhase[s] = "queued" /\ (previous[s] # 0 => loginSettled[previous[s]])
  /\ \/ /\ ~loginAborted[s] /\ Phase(s, "attempting")
        /\ loginProcess' = [loginProcess EXCEPT ![s] = "running"]
        /\ UNCHANGED <<activeLogin, loginSettled>>
     \/ Phase(s, "over") /\ Release(s) /\ UNCHANGED loginProcess
  /\ UNCHANGED <<loginAborted, previous, sessions, delivering, mcpClosing>>

(* The process exits, of itself or aborted.                                *)
LoginExits(s) ==
  /\ loginProcess[s] = "running"
  /\ loginProcess' = [loginProcess EXCEPT ![s] = "closed"]
  /\ UNCHANGED <<loginPhase, loginAborted, loginSettled, previous, activeLogin, sessions, delivering, mcpClosing>>

(* LoginConversation.attempt: the process waits for a callback, or ends    *)
(* without one (completed, finished in the browser, failed).               *)
AttemptEnds(s) ==
  /\ loginPhase[s] = "attempting"
  /\ \/ loginProcess[s] = "closed" /\ Phase(s, "over") /\ Release(s) /\ UNCHANGED sessions
     \/ /\ loginProcess[s] = "running" /\ UNCHANGED <<activeLogin, loginSettled>>
        /\ IF loginAborted[s] THEN Phase(s, "discarding") /\ UNCHANGED sessions
           ELSE Phase(s, "pending") /\ sessions' = sessions \cup {s}
  /\ UNCHANGED <<loginAborted, loginProcess, previous, delivering, mcpClosing>>
Discarded(s) ==
  /\ loginPhase[s] = "discarding" /\ loginProcess[s] = "closed"
  /\ Phase(s, "over") /\ Release(s)
  /\ UNCHANGED <<loginAborted, loginProcess, previous, sessions, delivering, mcpClosing>>

(* evict: the oldest finished sessions above the limit.  A session is put  *)
(* in the map when all before it have settled, so that the order of the    *)
(* map is the order in which they began.                                   *)
Evicted(phase) ==
  LET oldest(s) == {t \in sessions : t <= s /\ phase[t] = "finished"} IN
    {s \in sessions : \/ phase[s] # "finished"
                     \/ Cardinality(oldest(s)) > Cardinality(sessions) - RetainedLogins}

(* finish: when the process of a retained session has closed.              *)
FinishLogin(s) ==
  /\ loginPhase[s] = "pending" /\ loginProcess[s] = "closed"
  /\ Phase(s, "finished") /\ Release(s)
  /\ sessions' = IF Retained(s) /\ mcpClosing = "open" THEN Evicted([loginPhase EXCEPT ![s] = "finished"])
                 ELSE sessions
  /\ UNCHANGED <<loginAborted, loginProcess, previous, delivering, mcpClosing>>

(* The retention of a finished session ends; a deadline, a client that     *)
(* went away, or cancelLogin aborts.                                       *)
ForgetLogin(s) ==
  /\ loginPhase[s] = "finished" /\ Retained(s) /\ mcpClosing = "open" /\ sessions' = OtherLogins(s)
  /\ UNCHANGED <<loginPhase, loginAborted, loginSettled, loginProcess, previous, activeLogin, delivering, mcpClosing>>
AbortLogin(s) ==
  /\ loginPhase[s] \in {"queued", "attempting", "pending"} /\ AbortAll({s})
  /\ sessions' \in {sessions, OtherLogins(s)}
  /\ UNCHANGED <<loginPhase, loginSettled, loginProcess, previous, activeLogin, delivering, mcpClosing>>

(* submitLoginCallback: one at a time, to a session that is pending.       *)
DeliverCallback(s) ==
  /\ Retained(s) /\ loginPhase[s] = "pending" /\ ~loginAborted[s] /\ loginProcess[s] = "running"
  /\ mcpClosing = "open" /\ s \notin delivering /\ delivering' = delivering \cup {s}
  /\ UNCHANGED <<loginPhase, loginAborted, loginSettled, loginProcess, previous, activeLogin, sessions, mcpClosing>>
CallbackDelivered(s) ==
  /\ s \in delivering /\ delivering' = delivering \ {s}
  /\ UNCHANGED <<loginPhase, loginAborted, loginSettled, loginProcess, previous, activeLogin, sessions, mcpClosing>>

(* close: everything known is aborted, then waited for.                    *)
Unsettled == {s \in Logins : loginPhase[s] # "none" /\ ~loginSettled[s]}
CloseLogins ==
  /\ mcpClosing = "open" /\ mcpClosing' = "closing"
  /\ AbortAll(sessions \cup {activeLogin})
  /\ UNCHANGED <<loginPhase, loginSettled, loginProcess, previous, activeLogin, sessions, delivering>>
LoginsClosed ==
  /\ mcpClosing = "closing" /\ Unsettled = {} /\ delivering = {}
  /\ mcpClosing' = "closed" /\ sessions' = {}
  /\ UNCHANGED <<loginPhase, loginAborted, loginSettled, loginProcess, previous, activeLogin, delivering>>

LoginNext ==
  \/ \E s \in Logins :
       \/ Begin(s) \/ Attempt(s) \/ LoginExits(s) \/ AttemptEnds(s) \/ Discarded(s)
       \/ FinishLogin(s) \/ ForgetLogin(s) \/ AbortLogin(s) \/ DeliverCallback(s) \/ CallbackDelivered(s)
  \/ CloseLogins \/ LoginsClosed

LoginSpec == LoginInit /\ [][LoginNext]_loginVars

----------------------------------------------------------------------------
LoginTypeOK ==
  /\ loginPhase \in [Logins -> {"none", "queued", "attempting", "discarding", "pending", "finished", "over"}]
  /\ loginProcess \in [Logins -> {"none", "running", "closed"}]
  /\ activeLogin \in Logins \cup {0} /\ sessions \subseteq Logins /\ delivering \subseteq Logins

(* Two logins never talk to a provider at the same time, however often one *)
(* replaces another, and none is left when the service has closed: they    *)
(* would rewrite the same credentials.                                     *)
OneLoginProcess ==
  LET alive == {s \in Logins : loginProcess[s] = "running"} IN
  /\ \A s, t \in alive : s = t
  /\ mcpClosing = "closed" => alive = {}
=============================================================================
