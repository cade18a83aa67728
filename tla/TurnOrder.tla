------------------------------ MODULE TurnOrder ------------------------------
(***************************************************************************)
(* What a user may rely on for the turns of a conversation, whatever pump, *)
(* pool, Stop, shutdown or crash does: turns run one at a time, in the     *)
(* order they were accepted, and none ever runs twice.                     *)
(***************************************************************************)
EXTENDS Naturals

CONSTANT Tasks   \* numbers, handed out in order

VARIABLES
  conversation,  \* accepted turn -> the first turn of its conversation
  live,          \* turns being executed
  begun          \* turns whose execution has ever begun

vars == <<conversation, live, begun>>

Init == conversation = [t \in {} |-> t] /\ live = {} /\ begun = {}

Accepted == DOMAIN conversation

(* A new turn, or a new conversation, is accepted.                         *)
Accept(t) ==
  /\ t \in Tasks \ Accepted
  /\ \E c \in Accepted \cup {t} :
       conversation' = [u \in Accepted \cup {t} |-> IF u = t THEN c ELSE conversation[u]]
  /\ UNCHANGED <<live, begun>>

(* A turn begins when no turn of its conversation is being executed and    *)
(* none accepted after it has begun.                                       *)
Begin(t) ==
  /\ t \in Accepted \ begun
  /\ \A u \in begun : conversation[u] = conversation[t] => u \notin live /\ u < t
  /\ live' = live \cup {t}
  /\ begun' = begun \cup {t}
  /\ UNCHANGED conversation

(* Executions end, all at once when the runner does.                       *)
End ==
  /\ \E ended \in SUBSET live : live' = live \ ended
  /\ UNCHANGED <<conversation, begun>>

Next == (\E t \in Tasks : Accept(t) \/ Begin(t)) \/ End
Spec == Init /\ [][Next]_vars
=============================================================================
