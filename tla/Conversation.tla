---------------------------- MODULE Conversation ----------------------------
(***************************************************************************)
(* Message histories of a conversation, and the questions the agent asks   *)
(* of them: which tool calls the model has requested, which of them are    *)
(* answered, in what order they stand, and which tool each one is for.     *)
(*                                                                         *)
(* A message keeps what the agent branches on: its role, the ids of the    *)
(* tool calls of an assistant turn, and for a tool message the id it       *)
(* answers and whether it carries what the tool returned or the synthetic  *)
(* rejection.  Texts, arguments and tool outputs are left out: no branch   *)
(* of the agent reads them.                                                *)
(***************************************************************************)
EXTENDS Naturals, Sequences, FiniteSets, Functions

CONSTANTS
    Calls,      \* tool-call ids (LlmToolCall.id)
    ToolOf      \* the tool name each call asks for

(* The tools TicketTools registers, with the two flags the loop reads.     *)
Registry ==
    LET tool(mut, app) == [mutating |-> mut, requiresApproval |-> app]
    IN  [ create_ticket |-> tool(TRUE, FALSE),
          list_tickets  |-> tool(FALSE, FALSE),
          get_ticket    |-> tool(FALSE, FALSE),
          update_ticket |-> tool(TRUE, FALSE),
          delete_ticket |-> tool(TRUE, TRUE) ]

(* A model may also name a tool nobody registered.                         *)
ToolNames == DOMAIN Registry \cup {"unregistered"}

ASSUME CallsAssumption == IsFiniteSet(Calls) /\ ToolOf \in [Calls -> ToolNames]

Registered(c) == ToolOf[c] \in DOMAIN Registry

(* The partition of a batch: calls that wait for a human, calls run one    *)
(* after the other, and calls run in parallel (unknown tools among them).  *)
NeedsApproval ==
    { c \in Calls : Registered(c) /\ Registry[ToolOf[c]].requiresApproval }

(* Mutant: requiresApproval does not take precedence over mutating.        *)
MutatingByFlag ==
    { c \in Calls : Registered(c) /\ Registry[ToolOf[c]].mutating }

Mutating ==
    { c \in Calls \ NeedsApproval : Registered(c) /\ Registry[ToolOf[c]].mutating }

ReadOnly == Calls \ (NeedsApproval \cup Mutating)

-----------------------------------------------------------------------------

User == [role |-> "user"]

Assistant(calls) == [role |-> "assistant", toolCalls |-> calls]

(* content is "result" for what registry.execute returned, success or      *)
(* error, and "REJECTED_BY_USER" for the synthetic rejection.              *)
ToolMessage(c, content) ==
    [role |-> "tool", toolCallId |-> c, content |-> content]

Messages ==
    {User}
      \cup [role : {"assistant"}, toolCalls : Seq(Calls)]
      \cup [role : {"tool"}, toolCallId : Calls,
            content : {"result", "REJECTED_BY_USER"}]

Histories == Seq(Messages)

IsAnswer(m, c) == m.role = "tool" /\ m.toolCallId = c

IsRequest(m, c) == m.role = "assistant" /\ c \in Range(m.toolCalls)

Answered(h) == { c \in Calls : \E i \in DOMAIN h : IsAnswer(h[i], c) }

Requested(h) == { c \in Calls : \E i \in DOMAIN h : IsRequest(h[i], c) }

(* Pending = assistant tool calls without an answering tool message.       *)
Pending(h) == Requested(h) \ Answered(h)

(* c is requested before d: in an earlier turn, or earlier in the same.    *)
Precedes(h, c, d) ==
    \E i, j \in DOMAIN h :
        /\ IsRequest(h[i], c) /\ IsRequest(h[j], d)
        /\ \/ i < j
           \/ /\ i = j
              /\ \E k, l \in DOMAIN h[i].toolCalls :
                    k < l /\ h[i].toolCalls[k] = c /\ h[i].toolCalls[l] = d

(* c is the next call of S in the order of the history.                    *)
IsNext(h, c, S) == c \in S /\ \A d \in S \ {c} : Precedes(h, c, d)

(* The sequences that list every call of S in the order of the history:    *)
(* one for each S whose calls the history requests once.                   *)
InOrder(h, S) ==
    { s \in Bijection(1..Cardinality(S), S) :
        \A i, j \in DOMAIN s : i < j => Precedes(h, s[i], s[j]) }

(* Every answer follows the request it answers, and no call is answered    *)
(* twice.                                                                  *)
WellFormed(h) ==
    /\ \A i \in DOMAIN h : h[i].role = "tool" =>
          \E j \in 1..(i-1) : IsRequest(h[j], h[i].toolCallId)
    /\ \A i, j \in DOMAIN h :
          h[i].role = "tool" /\ h[j].role = "tool"
             /\ h[i].toolCallId = h[j].toolCallId => i = j

(* Read-only calls are answered in the order they were requested in.       *)
ReadsInOrder(h) ==
    \A i, j \in DOMAIN h :
        /\ i < j /\ h[i].role = "tool" /\ h[j].role = "tool"
        /\ h[i].toolCallId \in ReadOnly /\ h[j].toolCallId \in ReadOnly
        => Precedes(h, h[i].toolCallId, h[j].toolCallId)

(* No call is requested in two turns, or twice in one.                     *)
RequestedOnce(h) ==
    \A i, j \in DOMAIN h : h[i].role = "assistant" /\ h[j].role = "assistant" =>
        \A k \in DOMAIN h[i].toolCalls, l \in DOMAIN h[j].toolCalls :
            h[i].toolCalls[k] = h[j].toolCalls[l] => i = j /\ k = l
=============================================================================
