------------------------------ MODULE Terminals ------------------------------
(***************************************************************************)
(* The shells of a project and its conversations: TerminalService          *)
(* (application/terminal-service.ts).  A call of open() joins the opening  *)
(* of its place, takes the running session or opens one, in steps between  *)
(* which its session may expire, be closed or lose its workspace.  A       *)
(* session is named by the opening that made it; a session that stays in   *)
(* the map is read, written and resized there.                             *)
(***************************************************************************)
EXTENDS Naturals, FiniteSets

CONSTANTS Openings,      \* calls of create()
          Places,        \* projects and tasks a terminal belongs to
          SessionLimit   \* TERMINAL_LIMITS.terminals

ASSUME TerminalAssumption == SessionLimit \in Nat

VARIABLES
  place,        \* opening -> its place
  opening,      \* opening -> "none", "resolving", "validating", "spawning", "revalidating" or "over"
  terminals,     \* the map
  exited,       \* terminals whose shell has exited
  shells,       \* openings whose shell runs
  attached,     \* terminals with their process set
  unclosed,     \* history: shells whose close() failed
  terminalsClosed

terminalVars == <<place, opening, terminals, exited, shells, attached, unclosed, terminalsClosed>>

TerminalInit ==
  /\ place \in [Openings -> Places] /\ opening = [o \in Openings |-> "none"]
  /\ terminals = {} /\ exited = {} /\ shells = {} /\ attached = {} /\ unclosed = {}
  /\ terminalsClosed = FALSE

InProgress == {o \in Openings : opening[o] \notin {"none", "over"}}
Live(p) == {s \in terminals : place[s] = p /\ s \notin exited}
OpeningGoes(o, step) == opening' = [opening EXCEPT ![o] = step]

(* remove(): a process that is not set yet cannot be closed, and where     *)
(* closing fails the session goes nevertheless.                            *)
Removes(gone) ==
  /\ terminals' = terminals \ gone
  /\ \E left \in SUBSET (gone \cap attached \cap shells) :
       shells' = shells \ ((gone \cap attached) \ left) /\ unclosed' = unclosed \cup left

----------------------------------------------------------------------------
(* open() and create() up to the first await: no opening of the place is   *)
(* under way and none of its shells runs.  expire() takes what is idle.    *)
Opens(o, idle) ==
  /\ opening[o] = "none" /\ ~terminalsClosed
  /\ \A other \in InProgress : place[other] # place[o]
  /\ Live(place[o]) = {} /\ idle \subseteq terminals /\ Removes(idle)
  /\ OpeningGoes(o, IF Cardinality(terminals') + Cardinality(InProgress) < SessionLimit
                    THEN "resolving" ELSE "over")
  /\ UNCHANGED <<place, exited, attached, terminalsClosed>>

(* The workspace is resolved and the session enters the map, or not.       *)
Resolves(o) ==
  /\ opening[o] = "resolving"
  /\ \/ ~terminalsClosed /\ terminals' = terminals \cup {o} /\ OpeningGoes(o, "validating")
     \/ OpeningGoes(o, "over") /\ UNCHANGED terminals
  /\ UNCHANGED <<place, exited, shells, attached, unclosed, terminalsClosed>>

Validates(o) ==
  /\ opening[o] = "validating"
  /\ \/ ~terminalsClosed /\ OpeningGoes(o, "spawning") /\ UNCHANGED <<terminals, shells, unclosed>>
     \/ OpeningGoes(o, "over") /\ Removes({o})
  /\ UNCHANGED <<place, exited, attached, terminalsClosed>>

(* factory.open: the shell runs before its process is set.                 *)
Spawns(o) ==
  /\ opening[o] = "spawning" /\ o \notin shells \cup exited /\ shells' = shells \cup {o}
  /\ UNCHANGED <<place, opening, terminals, exited, attached, unclosed, terminalsClosed>>

Attaches(o) ==
  /\ opening[o] = "spawning"
  /\ \/ /\ o \in shells \/ o \in exited
        /\ attached' = attached \cup {o} /\ OpeningGoes(o, "revalidating") /\ UNCHANGED <<terminals, shells, unclosed>>
     \/ o \notin shells /\ o \notin exited /\ OpeningGoes(o, "over") /\ Removes({o}) /\ UNCHANGED attached
  /\ UNCHANGED <<place, exited, terminalsClosed>>

(* Mutant: a session that has gone meanwhile is handed out as it is.       *)
RevalidatesOnly(o) ==
  /\ opening[o] = "revalidating" /\ OpeningGoes(o, "over")
  /\ \/ ~terminalsClosed /\ UNCHANGED <<terminals, shells, unclosed>>
     \/ Removes({o})
  /\ UNCHANGED <<place, exited, attached, terminalsClosed>>

(* A session that has gone meanwhile, or whose workspace has, is closed    *)
(* now that its process is there.                                          *)
Revalidates(o) ==
  /\ opening[o] = "revalidating" /\ OpeningGoes(o, "over")
  /\ \/ ~terminalsClosed /\ o \in terminals /\ UNCHANGED <<terminals, shells, unclosed>>
     \/ Removes({o})
  /\ UNCHANGED <<place, exited, attached, terminalsClosed>>

----------------------------------------------------------------------------
(* closeSession, the expiry timer, or a use whose workspace is no longer   *)
(* valid: authorize() and current() remove the session.                    *)
RemoveSession(s) ==
  /\ s \in terminals /\ Removes({s})
  /\ UNCHANGED <<place, opening, exited, attached, terminalsClosed>>

(* The shell exits by itself: its session stays for its last output.       *)
ShellExits(s) ==
  /\ s \in shells /\ shells' = shells \ {s} /\ exited' = exited \cup {s}
  /\ UNCHANGED <<place, opening, terminals, attached, unclosed, terminalsClosed>>

CloseTerminals ==
  /\ ~terminalsClosed /\ terminalsClosed' = TRUE /\ Removes(terminals)
  /\ UNCHANGED <<place, opening, exited, attached>>

TerminalNext ==
  \/ \E o \in Openings :
       \/ \E idle \in SUBSET terminals : Opens(o, idle)
       \/ Resolves(o) \/ Validates(o) \/ Spawns(o) \/ Attaches(o) \/ Revalidates(o)
       \/ RemoveSession(o) \/ ShellExits(o)
  \/ CloseTerminals

TerminalSpec == TerminalInit /\ [][TerminalNext]_terminalVars

----------------------------------------------------------------------------
TerminalTypeOK ==
  /\ place \in [Openings -> Places] /\ terminalsClosed \in BOOLEAN
  /\ opening \in [Openings -> {"none", "resolving", "validating", "spawning", "revalidating", "over"}]
  /\ terminals \in SUBSET Openings /\ exited \in SUBSET Openings
  /\ shells \in SUBSET Openings /\ attached \in SUBSET Openings /\ unclosed \in SUBSET Openings

(* No shell is left behind by a session that was removed, or a service     *)
(* that was closed, while it was being opened, but one whose close()       *)
(* failed; a place has one running terminal, and those being opened count  *)
(* in the limit.                                                           *)
ShellsOwned ==
  /\ \A o \in shells : o \in terminals \/ o \in InProgress \/ o \in unclosed
  /\ \A p \in Places : Cardinality(Live(p)) <= 1
  /\ Cardinality(terminals \cup InProgress) <= SessionLimit
=============================================================================
