-------------------------- MODULE McpLoginProtocol --------------------------
(***************************************************************************)
(* The conversations that log in to an MCP server, sign out of it or add   *)
(* it: the machines of domain/mcp-server-management-protocol.ts, driven    *)
(* line by line and by ticks (LoginConversation, converse in               *)
(* infrastructure/execution/mcp-server-management.ts).  The provider       *)
(* answers requests in any order; its lines arrive in the order written.   *)
(***************************************************************************)
EXTENDS Integers, Sequences

CONSTANTS MaxAttempts,    \* bound: attempts of one request, until locateMs is over
          MaxPolls,       \* bound: status polls
          MaxSubmissions  \* bound: callbacks submitted

ASSUME ProtocolAssumption == MaxAttempts \in Nat \ {0} /\ MaxPolls \in Nat /\ MaxSubmissions \in Nat

VARIABLES
  mcpMachine,   \* which machine this is
  mcpStage,     \* its stage
  mcpEnd,       \* how it ended: progress() or the failure, "none" before
  attempts,     \* attempts of the request of this stage
  polls,        \* status polls sent
  submissions,  \* callbacks submitted
  callback,     \* "idle", "pending" (before or after it is sent), "accepted" or "rejected"
  acceptedAfterPoll, \* the polls sent when a callback was first accepted, or -1
  asked,        \* requests the provider has not answered: [what, n]
  answers,      \* answers it has worked out and not written
  said,         \* its lines on their way: [what, n, outcome, fresh]
  serverStatus, \* what it knows of the server
  callbackTaken, \* it has accepted a callback of this login
  verdict       \* "none", or the grounds of the end: "own" or "stale"

protocolVars == <<mcpMachine, mcpStage, mcpEnd, attempts, polls, submissions, callback,
                  acceptedAfterPoll, asked, answers, said, serverStatus, callbackTaken, verdict>>

Stages == {"handshake", "clearing", "authenticating", "requesting", "reading", "writing",
           "awaiting", "ended"}
Machines == {"signIn", "signInAgain", "signOut", "codexLogin", "codexAdd"}
IsClaude == mcpMachine \in {"signIn", "signInAgain", "signOut"}
Request(what, n) == [what |-> what, n |-> n]
Line(what, n, outcome) == [what |-> what, n |-> n, outcome |-> outcome, fresh |-> callbackTaken]

ProtocolInit ==
  /\ mcpMachine \in Machines /\ mcpStage = "handshake" /\ mcpEnd = "none"
  /\ attempts = 0 /\ polls = 0 /\ submissions = 0 /\ callback = "idle" /\ acceptedAfterPoll = -1
  /\ asked = {Request("initialize", 1)} /\ said = <<>> /\ answers = {}
  /\ serverStatus = "failed" /\ callbackTaken = FALSE /\ verdict = "none"

----------------------------------------------------------------------------
(* The provider works on any request, and writes its answer later.         *)
(* Accepting a callback starts the server anew, which ends in one status   *)
(* or the other.                                                           *)
ProviderAnswers(r) ==
  /\ r \in asked /\ asked' = asked \ {r}
  /\ \E outcome \in CASE r.what \in {"clear", "auth"} -> {"success", "notFound", "refused"}
                      [] r.what = "poll" -> {serverStatus}
                      [] OTHER -> {"success", "error"} :
       /\ answers' = answers \cup {Line(r.what, r.n, outcome)}
       /\ callbackTaken' = (callbackTaken \/ (r.what = "callback" /\ outcome = "success"))
       /\ serverStatus' = IF r.what = "callback" /\ outcome = "success" THEN "starting" ELSE serverStatus
  /\ UNCHANGED <<mcpMachine, mcpStage, mcpEnd, attempts, polls, submissions, callback, acceptedAfterPoll, said, verdict>>
ProviderWrites(l) ==
  /\ l \in answers /\ answers' = answers \ {l} /\ said' = Append(said, l)
  /\ UNCHANGED <<mcpMachine, mcpStage, mcpEnd, attempts, polls, submissions, callback, acceptedAfterPoll,
                 asked, serverStatus, callbackTaken, verdict>>
ServerSettles ==
  /\ serverStatus = "starting" /\ serverStatus' \in {"connected", "failed"}
  /\ UNCHANGED <<mcpMachine, mcpStage, mcpEnd, attempts, polls, submissions, callback, acceptedAfterPoll,
                 asked, answers, said, callbackTaken, verdict>>
(* Codex tells of every login that completes, its own (1) and others (2).  *)
LoginCompletes ==
  /\ mcpMachine = "codexLogin" /\ mcpStage = "awaiting" /\ Len(said) < 2
  /\ \E own \in {1, 2}, outcome \in {"success", "error"} : said' = Append(said, Line("completed", own, outcome))
  /\ UNCHANGED <<mcpMachine, mcpStage, mcpEnd, attempts, polls, submissions, callback, acceptedAfterPoll,
                 asked, answers, serverStatus, callbackTaken, verdict>>

----------------------------------------------------------------------------
(* The machines.  Every line is followed by a step, which sends what there *)
(* is to send.                                                             *)
Sends(what, n) == asked' = asked \cup {Request(what, n)}
VerdictFalls(how, grounds) == mcpStage' = "ended" /\ mcpEnd' = how /\ verdict' = grounds /\ UNCHANGED <<attempts, asked>>
Continues == UNCHANGED <<mcpStage, mcpEnd, verdict, attempts, asked>>
Enters(stage, what) ==
  mcpStage' = stage /\ attempts' = 1 /\ Sends(what, 1) /\ UNCHANGED <<mcpEnd, verdict>>
UnchangedByStage == UNCHANGED <<polls, submissions, callback, acceptedAfterPoll>>

(* observeInitialize, observeHandshake.                                    *)
Handshaken(l) ==
  /\ mcpStage = "handshake" /\ l.what = "initialize"
  /\ IF l.outcome # "success" THEN VerdictFalls("handshake", "own")
     ELSE CASE mcpMachine = "signIn" -> Enters("authenticating", "auth")
            [] mcpMachine \in {"signInAgain", "signOut"} -> Enters("clearing", "clear")
            [] mcpMachine = "codexLogin" -> Enters("requesting", "login")
            [] mcpMachine = "codexAdd" -> Enters("reading", "read")
  /\ UnchangedByStage

(* ClaudeServerRequest.answer: a server that is not found yet is asked for *)
(* again, under a new id, until the time to locate it is over.             *)
Located(l) ==
  /\ mcpStage \in {"clearing", "authenticating"} /\ l.n = attempts
  /\ l.what = (IF mcpStage = "clearing" THEN "clear" ELSE "auth")
  /\ \/ /\ l.outcome = "notFound" /\ attempts < MaxAttempts
        /\ attempts' = attempts + 1 /\ Sends(l.what, attempts') /\ UNCHANGED <<mcpStage, mcpEnd, verdict>>
     \/ l.outcome = "notFound" /\ VerdictFalls("notFound", "own")
     \/ /\ l.outcome # "notFound" /\ mcpStage = "clearing"
        /\ IF mcpMachine = "signInAgain" THEN Enters("authenticating", "auth")
           ELSE VerdictFalls(IF l.outcome = "success" THEN "done" ELSE "unsupported", "own")
     \/ l.outcome = "refused" /\ mcpStage = "authenticating" /\ VerdictFalls("unsupported", "own")
     \/ /\ l.outcome = "success" /\ mcpStage = "authenticating"
        /\ \/ \E how \in {"completed", "finishInBrowser", "payload"} : VerdictFalls(how, "own")
           \/ mcpStage' = "awaiting" /\ UNCHANGED <<mcpEnd, verdict, attempts, asked>>
  /\ UnchangedByStage

(* Codex: the answers to login, config/read and config/batchWrite.         *)
CodexAnswered(l) ==
  /\ \/ /\ mcpStage = "requesting" /\ l.what = "login"
        /\ \/ l.outcome = "error" /\ \E how \in {"notFound", "unsupported", "payload"} : VerdictFalls(how, "own")
           \/ l.outcome = "success" /\ mcpStage' = "awaiting" /\ UNCHANGED <<mcpEnd, verdict, attempts, asked>>
     \/ /\ mcpStage = "reading" /\ l.what = "read"
        /\ \/ \E how \in {"request", "payload", "exists"} : VerdictFalls(how, "own")
           \/ l.outcome = "success" /\ Enters("writing", "write")
     \/ mcpStage = "writing" /\ l.what = "write" /\ \E how \in {"request", "payload", "done"} : VerdictFalls(how, "own")
  /\ UnchangedByStage

(* observeCompleted: of this very login.                                   *)
Completed(l) ==
  /\ mcpStage = "awaiting" /\ l.what = "completed" /\ l.n = 1
  /\ VerdictFalls(IF l.outcome = "success" THEN "succeeded" ELSE "request", IF l.n = 1 THEN "own" ELSE "stale")
  /\ UnchangedByStage

(* Mutant: a failure counts once a callback has been accepted.             *)
FailedSinceEver(l) == acceptedAfterPoll # -1

(* A failure counts in a poll sent after a callback had been accepted: an  *)
(* earlier one may show the server as it was before.                       *)
FailedSince(l) == acceptedAfterPoll # -1 /\ polls > acceptedAfterPoll

(* observeAwaiting: the answers to a callback and to a poll.               *)
Awaited(l) ==
  /\ mcpStage = "awaiting" /\ l.what \in {"callback", "poll"}
  /\ IF l.what = "callback"
     THEN /\ callback' = IF l.outcome = "success" THEN "accepted" ELSE "rejected"
          /\ acceptedAfterPoll' = IF l.outcome = "success" /\ acceptedAfterPoll = -1 THEN polls
                                  ELSE acceptedAfterPoll
          /\ Continues
     ELSE /\ UNCHANGED <<callback, acceptedAfterPoll>>
          /\ CASE l.outcome = "connected" -> VerdictFalls("succeeded", "own")
               [] l.outcome = "failed" /\ FailedSince(l) -> VerdictFalls("request", IF l.fresh THEN "own" ELSE "stale")
               [] OTHER -> Continues
  /\ UNCHANGED <<polls, submissions>>

ReadsLine ==
  /\ said # <<>> /\ said' = Tail(said)
  /\ LET l == Head(said) IN
       \/ Handshaken(l) \/ Located(l) \/ CodexAnswered(l) \/ Completed(l) \/ Awaited(l)
       \/ /\ mcpStage = "ended" \/ (l.what = "completed" /\ (mcpStage # "awaiting" \/ l.n # 1))
          /\ Continues /\ UnchangedByStage
  /\ UNCHANGED <<mcpMachine, answers, serverStatus, callbackTaken>>

(* Ticks: the start times out; a poll, one at a time, and a callback, once *)
(* the one before is answered, are sent.                                   *)
StartTimesOut ==
  /\ mcpStage \in {"handshake", "clearing", "authenticating", "requesting"} /\ mcpMachine \notin {"signOut", "codexAdd"}
  /\ VerdictFalls("timeout", "own") /\ UnchangedByStage
  /\ UNCHANGED <<mcpMachine, answers, said, serverStatus, callbackTaken>>
PollStatus ==
  /\ mcpStage = "awaiting" /\ IsClaude /\ polls < MaxPolls
  /\ \A r \in asked \cup answers \cup {said[i] : i \in DOMAIN said} : r.what # "poll"
  /\ polls' = polls + 1 /\ Sends("poll", polls')
  /\ UNCHANGED <<mcpMachine, mcpStage, mcpEnd, attempts, submissions, callback, acceptedAfterPoll, answers, said,
                 serverStatus, callbackTaken, verdict>>
SubmitCallback ==
  /\ mcpStage = "awaiting" /\ IsClaude /\ callback # "pending" /\ submissions < MaxSubmissions
  /\ submissions' = submissions + 1 /\ callback' = "pending" /\ Sends("callback", submissions')
  /\ UNCHANGED <<mcpMachine, mcpStage, mcpEnd, attempts, polls, acceptedAfterPoll, answers, said,
                 serverStatus, callbackTaken, verdict>>

ProtocolNext ==
  \/ (\E r \in asked : ProviderAnswers(r)) \/ (\E l \in answers : ProviderWrites(l)) \/ ServerSettles \/ LoginCompletes
  \/ ReadsLine \/ StartTimesOut \/ PollStatus \/ SubmitCallback

ProtocolSpec == ProtocolInit /\ [][ProtocolNext]_protocolVars

----------------------------------------------------------------------------
ProtocolTypeOK ==
  /\ mcpMachine \in Machines /\ attempts \in 0..MaxAttempts
  /\ mcpStage \in Stages
  /\ callback \in {"idle", "pending", "accepted", "rejected"} /\ acceptedAfterPoll \in -1..MaxPolls
  /\ verdict \in {"none", "own", "stale"} /\ (mcpStage = "ended" <=> mcpEnd # "none")

(* A login ends by what is true of itself: not by a status from before its *)
(* callback was accepted, while the poll and the answer to the callback    *)
(* cross each other, nor by another login of the same provider.            *)
VerdictIsOwn == verdict # "stale"
=============================================================================
