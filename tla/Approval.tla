------------------------------ MODULE Approval ------------------------------
(***************************************************************************)
(* What a conversation promises about the calls that need a human, seen    *)
(* from its row alone: a turn either completes or pauses on new calls, a   *)
(* pause is left only by deciding all of them at once, and a decision is   *)
(* final.                                                                  *)
(***************************************************************************)
CONSTANTS Conversations, Calls

VARIABLES
    status,   \* of each conversation, "NONE" before it exists
    open,     \* the calls each conversation is paused on
    outcome   \* what was decided about each call: "none" until it is

vars == <<status, open, outcome>>

Init ==
    /\ status = [c \in Conversations |-> "NONE"]
    /\ open = [c \in Conversations |-> {}]
    /\ outcome = [d \in Calls |-> "none"]

Fresh == { d \in Calls : outcome[d] = "none" /\ \A c \in Conversations : d \notin open[c] }

EndTurn(c, new) ==
    /\ status' = [status EXCEPT ![c] = IF new = {} THEN "COMPLETED" ELSE "PAUSED"]
    /\ open' = [open EXCEPT ![c] = new]

Create(c) ==
    /\ status[c] = "NONE"
    /\ status' = [status EXCEPT ![c] = "ACTIVE"]
    /\ UNCHANGED <<open, outcome>>

Turn(c, new) ==
    /\ status[c] \in {"ACTIVE", "COMPLETED"}
    /\ EndTurn(c, new)
    /\ UNCHANGED outcome

Decide(c, new) ==
    /\ status[c] = "PAUSED"
    /\ \E decided \in [open[c] -> {"executed", "rejected"}] :
          outcome' = [d \in Calls |-> IF d \in open[c] THEN decided[d] ELSE outcome[d]]
    /\ EndTurn(c, new)

Next ==
    \E c \in Conversations :
        \/ Create(c)
        \/ \E new \in SUBSET Fresh : Turn(c, new) \/ Decide(c, new)

Spec == Init /\ [][Next]_vars
=============================================================================
