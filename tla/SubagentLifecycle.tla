-------------------------- MODULE SubagentLifecycle --------------------------
(***************************************************************************)
(* The record of the subagents of a turn, kept while its output goes by:   *)
(* SubagentLifecycleCollector and retainAgentSubagentLifecycle             *)
(* (domain/subagent-lifecycle.ts).  An agent is known by the tool call     *)
(* that spawned it, its task or its thread, and frames name any of them in *)
(* any order, so that entries are found out to be one and merged.  Each    *)
(* event of a frame is one step.  Texts, metrics, spawn batches and lines  *)
(* that do not parse are left out.                                         *)
(***************************************************************************)
EXTENDS Integers, SequencesExt

CONSTANTS AgentTools, AgentTasks,  \* tool calls and tasks of subagents (Claude)
          Shells,                  \* background tasks that are no agents
          AgentThreads,            \* threads of subagents (Codex)
          RetainedAgents,          \* entries kept (32 in the code)
          CountedLimit,            \* nested spawns remembered beyond them (32)
          ExcludedLimit,           \* aliases of other tasks remembered (512)
          NestedLimit,             \* the cap of a nested count (999)
          Statuses                 \* bound: what the frames of agents' tasks tell

ASSUME LifecycleAssumption ==
  /\ {RetainedAgents, CountedLimit, ExcludedLimit, NestedLimit} \subseteq Nat
  /\ Statuses \subseteq {"running", "completed", "failed", "interrupted"}
  /\ AgentTasks \cap Shells = {}
  /\ "absent" \notin AgentTools \cup AgentTasks \cup Shells \cup AgentThreads

VARIABLES
  stream,     \* "claude" or "codex"
  agents,     \* the entries of the record, in order
  counted,    \* countedNestedToolIds, in order
  truncated,
  excluded,   \* excludedTaskAliases
  exhausted,  \* exclusionsFull
  typed       \* shells whose frames have told what they are

lifecycleVars == <<stream, agents, counted, truncated, excluded, exhausted, typed>>

Absent == "absent"
AgentStates == {"running", "completed", "failed", "interrupted"}
AgentEntries ==
  [id: {"tool", "task", "thread"} \X (AgentTools \cup AgentTasks \cup Shells \cup AgentThreads),
   tool: AgentTools \cup {Absent}, task: AgentTasks \cup Shells \cup {Absent},
   thread: AgentThreads \cup {Absent}, parent: AgentTools \cup {Absent},
   telemetry: AgentStates \cup {Absent}, outcome: {"completed", "failed", Absent},
   nested: 0..NestedLimit]

LifecycleInit ==
  /\ stream \in {"claude", "codex"}
  /\ agents = <<>> /\ counted = <<>> /\ truncated = FALSE
  /\ excluded = {} /\ exhausted = FALSE /\ typed = {}

----------------------------------------------------------------------------
(* An identity names an agent by some of its aliases.                      *)
Identity(tool, task, thread) == [tool |-> tool, task |-> task, thread |-> thread]
Matches(e, who) ==
  \E alias \in {"tool", "task", "thread"} : who[alias] # Absent /\ e[alias] = who[alias]
FirstKey(who) ==
  IF who.tool # Absent THEN <<"tool", who.tool>>
  ELSE IF who.task # Absent THEN <<"task", who.task>> ELSE <<"thread", who.thread>>
NewAgent(key) ==
  [id |-> key, tool |-> Absent, task |-> Absent, thread |-> Absent, parent |-> Absent,
   telemetry |-> Absent, outcome |-> Absent, nested |-> 0]

Or(a, b) == IF a = Absent THEN b ELSE a
Worst(states, order) ==
  IF states \cap {order[i] : i \in DOMAIN order} = {} THEN Absent
  ELSE order[CHOOSE i \in DOMAIN order :
               order[i] \in states /\ \A j \in 1..(i - 1) : order[j] \notin states]

(* mergeAliases: two entries turn out to be one agent.                     *)
Merged(a, b) ==
  [a EXCEPT !.tool = Or(@, b.tool), !.task = Or(@, b.task), !.thread = Or(@, b.thread),
            !.parent = IF a.parent = b.parent THEN @ ELSE Absent,
            !.telemetry = Worst({@, b.telemetry}, <<"failed", "interrupted", "completed", "running">>),
            !.outcome = Worst({@, b.outcome}, <<"failed", "completed">>),
            !.nested = IF @ = 0 THEN b.nested ELSE @]

Hits(seq, who) == {k \in DOMAIN seq : Matches(seq[k], who)}

(* Mutant: the lookup stops at the first entry that matches.               *)
ResolvedFirst(who) == agents

(* resolveAlias: every entry an identity matches is one agent, the first.  *)
Resolved(who) ==
  LET hits == Hits(agents, who) IN
    IF Cardinality(hits) < 2 THEN agents
    ELSE LET i == CHOOSE k \in hits : \A l \in hits : k <= l
             j == CHOOSE k \in hits : k # i
         IN RemoveAt([agents EXCEPT ![i] = Merged(@, agents[j])], j)

(* Map.set: in its place, or at the end.                                   *)
Put(seq, e) ==
  IF \E k \in DOMAIN seq : seq[k].id = e.id
  THEN [k \in DOMAIN seq |-> IF seq[k].id = e.id THEN e ELSE seq[k]]
  ELSE Append(seq, e)

Named(e, who) == [e EXCEPT !.tool = Or(who.tool, @), !.task = Or(who.task, @),
                           !.thread = Or(who.thread, @)]

(* One event of an agent: it is found, or retained while there is room.    *)
WithAgent(who) ==
  LET seq == Resolved(who)  hits == Hits(seq, who) IN
    IF hits # {} THEN [seq EXCEPT ![CHOOSE h \in hits : TRUE] = Named(@, who)]
    ELSE IF Len(seq) >= RetainedAgents THEN seq
    ELSE Put(seq, Named(NewAgent(FirstKey(who)), who))
Retain(who, Change(_)) ==
  LET seq == WithAgent(who) IN
    /\ agents' = [k \in DOMAIN seq |-> IF Matches(seq[k], who) THEN Change(seq[k]) ELSE seq[k]]
    /\ truncated' = (truncated \/ Hits(seq, who) = {})

----------------------------------------------------------------------------
(* Claude: a spawn and its result at the top level.                        *)
Same(e) == e
ToolCall(tool) ==
  /\ stream = "claude"
  /\ Retain(Identity(tool, Absent, Absent), Same)
  /\ UNCHANGED <<stream, counted, excluded, exhausted, typed>>

ToolResult(tool, outcome) ==
  LET Set(e) == [e EXCEPT !.outcome = Or(@, outcome)] IN
  /\ stream = "claude"
  /\ Hits(agents, Identity(tool, Absent, Absent)) # {}
  /\ Retain(Identity(tool, Absent, Absent), Set)
  /\ UNCHANGED <<stream, counted, excluded, exhausted, typed>>

(* A spawn by a subagent: counted once on the agent at the top.            *)
EntryOf(seq, tool) == CHOOSE k \in DOMAIN seq : seq[k].tool = tool
NestedRoot(seq, tool, depth) ==
  LET root[d \in Nat] == [t \in AgentTools |->
        IF d = 0 \/ \A k \in DOMAIN seq : seq[k].tool # t THEN 0
        ELSE IF seq[EntryOf(seq, t)].parent = Absent THEN EntryOf(seq, t)
        ELSE root[d - 1][seq[EntryOf(seq, t)].parent]]
  IN root[depth][tool]

Remember(tool) ==
  LET all == Append(counted, tool) IN IF Len(all) > CountedLimit THEN Tail(all) ELSE all

NestedCall(tool, parent) ==
  LET who  == Identity(tool, Absent, Absent)
      root == NestedRoot(agents, parent, 8)
      now  == [agents EXCEPT ![root].nested = IF @ < NestedLimit THEN @ + 1 ELSE @]
  IN
  /\ stream = "claude"
  /\ Hits(agents, who) # {} =>
       agents[EntryOf(agents, tool)].parent = Absent /\ root # EntryOf(agents, tool)
  /\ tool \notin {counted[k] : k \in DOMAIN counted}
  /\ IF root = 0 THEN truncated' = TRUE /\ UNCHANGED <<agents, counted>>
     ELSE IF Hits(agents, who) # {}
     THEN agents' = [now EXCEPT ![EntryOf(agents, tool)].parent = parent] /\ UNCHANGED <<truncated, counted>>
     ELSE IF Len(agents) >= RetainedAgents
     THEN agents' = now /\ truncated' = TRUE /\ counted' = Remember(tool)
     ELSE /\ agents' = Put(now, [NewAgent(<<"tool", tool>>) EXCEPT !.tool = tool, !.parent = parent])
          /\ UNCHANGED <<truncated, counted>>
  /\ UNCHANGED <<stream, excluded, exhausted, typed>>

(* Mutant: the last frame decides.                                         *)
TelemetryLast(e, status) == status
(* Telemetry of a task; a failure stands, an end is not undone by "running"*)
Telemetry(e, status) ==
  IF e.telemetry = "failed" \/ (e.telemetry \in {"completed", "interrupted"} /\ status = "running")
  THEN e.telemetry ELSE status

(* Mutant: after the limit a frame without a type passes for an agent.     *)
AmbiguousPasses(who) == FALSE
(* After the limit, a frame that does not tell its type counts only for an *)
(* agent that is known.                                                    *)
Ambiguous(who) == exhausted /\ Hits(agents, who) = {}

IsExcluded(who) == \E alias \in {"tool", "task"} : <<alias, who[alias]>> \in excluded

(* A frame of a task: one of an agent may tell its type, one of a shell    *)
(* does not any more when the first has.                                   *)
TaskFrame(tool, task, status) ==
  LET who == Identity(tool, task, Absent)
      Set(e) == [e EXCEPT !.telemetry = Telemetry(e, status)] IN
  /\ stream = "claude" /\ (tool # Absent \/ task # Absent)
  /\ task \in Shells => task \in typed /\ ~IsExcluded(who) /\ ~Ambiguous(who)
  /\ Retain(who, Set)
  /\ UNCHANGED <<stream, counted, excluded, exhausted, typed>>

(* excludeNonAgent: a frame that tells the task is no agent.               *)
ShellFrame(shell) ==
  /\ stream = "claude"
  /\ typed' = typed \cup {shell}
  /\ IF <<"task", shell>> \in excluded THEN UNCHANGED <<excluded, exhausted, truncated>>
     ELSE IF Cardinality(excluded) >= ExcludedLimit
     THEN exhausted' = TRUE /\ truncated' = TRUE /\ UNCHANGED excluded
     ELSE excluded' = excluded \cup {<<"task", shell>>} /\ UNCHANGED <<exhausted, truncated>>
  /\ UNCHANGED <<stream, agents, counted>>

----------------------------------------------------------------------------
(* Codex: activity of a thread, and the end of one of its turns.           *)
Activity(thread, activity) ==
  LET next == IF activity \in {"completed", "interrupted"} THEN activity ELSE "running"
      Set(e) == IF activity = "interacted" \/ e.telemetry \in {Absent, "running"}
                THEN [e EXCEPT !.telemetry = next] ELSE e IN
  /\ stream = "codex"
  /\ Retain(Identity(Absent, Absent, thread), Set)
  /\ UNCHANGED <<stream, counted, excluded, exhausted, typed>>
TurnDone(thread, status) ==
  LET Set(e) == [e EXCEPT !.telemetry = status] IN
  /\ stream = "codex"
  /\ Retain(Identity(Absent, Absent, thread), Set)
  /\ UNCHANGED <<stream, counted, excluded, exhausted, typed>>

LifecycleNext ==
  \/ \E tool \in AgentTools :
       \/ ToolCall(tool)
       \/ \E outcome \in {"completed", "failed"} : ToolResult(tool, outcome)
       \/ \E parent \in AgentTools : NestedCall(tool, parent)
  \/ \E tool \in AgentTools \cup {Absent}, task \in AgentTasks \cup {Absent}, status \in Statuses :
       TaskFrame(tool, task, status)
  \/ \E shell \in Shells : ShellFrame(shell) \/ TaskFrame(Absent, shell, "running")
  \/ \E thread \in AgentThreads :
       \/ \E activity \in {"started", "interacted", "interrupted", "completed"} : Activity(thread, activity)
       \/ \E status \in {"completed", "failed"} : TurnDone(thread, status)

LifecycleSpec == LifecycleInit /\ [][LifecycleNext]_lifecycleVars

----------------------------------------------------------------------------
StateOf(e) ==
  IF "failed" \in {e.outcome, e.telemetry} THEN "failed"
  ELSE IF Or(e.telemetry, e.outcome) = Absent THEN "running" ELSE Or(e.telemetry, e.outcome)

LifecycleTypeOK ==
  /\ \A k \in DOMAIN agents : agents[k] \in AgentEntries
  /\ Len(agents) <= RetainedAgents /\ Len(counted) <= CountedLimit
  /\ truncated \in BOOLEAN /\ exhausted \in BOOLEAN

(* The record can be stored: parseAgentSubagentLifecycle refuses one in    *)
(* which two entries share an alias, in whatever order the frames came.    *)
AliasesUnique ==
  \A j, k \in DOMAIN agents : j # k =>
    \A alias \in {"tool", "task", "thread"} : agents[j][alias] = Absent \/ agents[j][alias] # agents[k][alias]

(* No shell is taken for an agent, also beyond the number of shells the    *)
(* collector remembers.                                                    *)
NoShellInvented == \A k \in DOMAIN agents : agents[k].task \notin Shells

(* An agent that failed stays on record as failed ("terminal entries are   *)
(* tombstones") through merges and late or replayed frames.  Codex may     *)
(* start another turn of it; and the entry must still have the alias that  *)
(* its key is made of, since a replay of that alias alone would take the   *)
(* key for a new agent.                                                    *)
KeyHolds(e) == e.id \in {<<"tool", e.tool>>, <<"task", e.task>>}
Tombstones ==
  [][stream = "claude" => \A k \in DOMAIN agents : LET e == agents[k] IN
       StateOf(e) = "failed" /\ KeyHolds(e) =>
         \E l \in DOMAIN agents' : StateOf(agents'[l]) = "failed" /\
            (agents'[l].id = e.id \/ Matches(e, agents'[l]))]_lifecycleVars

(* Both: the record is one that can be stored, and it is one of agents.    *)
SubagentRecords == AliasesUnique /\ NoShellInvented
=============================================================================
