------------------------------- MODULE Agent -------------------------------
(***************************************************************************)
(* AgentService and ConversationService: POST /chat and POST /chat/approve *)
(* as request handlers of one Node process that interleave at every await, *)
(* over the conversation rows of the database.                             *)
(*                                                                         *)
(* A handler loads the whole history, works on its own copy (calls the     *)
(* model, runs tools, appends messages) and writes the copy back at one of *)
(* its two terminal points.  Nothing else is stored: a failed model call,  *)
(* a failed write or a crash in between loses the copy but not the effects *)
(* of the tools that ran.                                                  *)
(***************************************************************************)
EXTENDS Conversation, SequencesExt

CONSTANTS
    Requests,         \* the HTTP requests of a behaviour, each served once
    Conversations,    \* ids the database may give to conversation rows
    ClientHistories,  \* the conversationHistory values clients send
    MaxIterations,    \* ENV.AGENT_MAX_ITERATIONS
    MaxRetries,       \* ENV.AGENT_LLM_MAX_RETRIES
    TightLimits,      \* environment: may the token or time limit be zero
    MaxCalls,         \* bound: tool calls in one model response
    MaxDecisions,     \* bound: decisions in one approve request
    Overlap,          \* environment: may two requests for one conversation overlap
    ChatOnPaused,     \* environment: may a client chat on a paused conversation
    Faults            \* what may fail: "llm" calls, "db" writes, the process

(* Clients send plain text turns as history, as the published clients do:  *)
(* the DTO does not check it.  The two limits are Number() of a string, of *)
(* which the loops they bound ask only how often they go round: a negative *)
(* number and NaN are like 0, and a fraction is like an integer next to it *)
(* (above it for the iterations, below it for the attempts).               *)
ASSUME AgentAssumption ==
    /\ IsFiniteSet(Requests)
    /\ ClientHistories \subseteq Seq({User, Assistant(<< >>)})
    /\ MaxIterations \in Nat /\ MaxRetries \in Nat /\ TightLimits \in BOOLEAN
    /\ MaxCalls \in Nat /\ MaxDecisions \in Nat
    /\ Overlap \in BOOLEAN /\ ChatOnPaused \in BOOLEAN
    /\ Faults \subseteq {"llm", "db", "crash"}

VARIABLES
    store,    \* the Conversation table: status and messages of each row
    run,      \* the local state of each request's handler
    issued,   \* history: the ids the model has used
    ran,      \* history: how often the tool of each call was executed
    granted   \* history: the requests that approved each call

vars == <<store, run, issued, ran, granted>>

Absent == [status |-> "NONE", messages |-> << >>]

Rows == [status : {"NONE", "ACTIVE", "PAUSED", "COMPLETED"}, messages : Histories]

(* iterations is acc.iterations, response the toolCalls of the current     *)
(* model response, inFlight the read-only calls not yet settled, todo the  *)
(* calls a sequential for loop still has to visit, and approved the        *)
(* pending calls whose decision is approved.                               *)
Runs ==
    [ pc : {"idle", "resolving", "loop", "llm", "reading", "writing",
            "pausing", "finishing", "done", "failed"},
      kind : {"none", "chat", "approve"},
      conv : Conversations \cup {"none"},
      messages : Histories,
      iterations : Nat,
      attempt : Nat,
      response : Seq(Calls),
      inFlight : SUBSET Calls,
      todo : SUBSET Calls,
      approved : SUBSET Calls ]

Start ==
    [ pc |-> "idle", kind |-> "none", conv |-> "none", messages |-> << >>,
      iterations |-> 0, attempt |-> 0, response |-> << >>,
      inFlight |-> {}, todo |-> {}, approved |-> {} ]

Ended(how) == [Start EXCEPT !.pc = how]

Active(r) == run[r].pc \notin {"idle", "done", "failed"}

Exists(c) == store[c].status # "NONE"

Init ==
    /\ store = [c \in Conversations |-> Absent]
    /\ run = [r \in Requests |-> Start]
    /\ issued = {}
    /\ ran = [c \in Calls |-> 0]
    /\ granted = [c \in Calls |-> {}]

-----------------------------------------------------------------------------
(* The two endpoints, up to their first await.                             *)

(* A request for conversation c arrives.  Its client has the id from an    *)
(* answer, so it has been stored by one since it was created ACTIVE.       *)
Admitted(r, c) ==
    /\ run[r].pc = "idle"
    /\ Exists(c) /\ store[c].status # "ACTIVE"
    /\ ~Overlap => \A q \in Requests : Active(q) => run[q].conv # c

(* The handler of r takes a step to local state x.                         *)
Becomes(r, x) == run' = [run EXCEPT ![r] = x]

StartChat(r, c, messages) ==
    Becomes(r, [Start EXCEPT !.pc = "loop", !.kind = "chat", !.conv = c,
                             !.messages = Append(messages, User)])

(* chat without a conversationId: the row is created with the client's     *)
(* history, ACTIVE, before anything else happens.                          *)
ChatNew(r, c, history) ==
    /\ run[r].pc = "idle" /\ ~Exists(c)
    /\ store' = [store EXCEPT ![c] = [status |-> "ACTIVE", messages |-> history]]
    /\ StartChat(r, c, history)
    /\ UNCHANGED <<issued, ran, granted>>

(* Mutant: only what the client sent is used, the stored history is not.   *)
ChatForgets(r, c) ==
    /\ Admitted(r, c)
    /\ ~ChatOnPaused => store[c].status # "PAUSED"
    /\ StartChat(r, c, << >>)
    /\ UNCHANGED <<store, issued, ran, granted>>

(* chat with a conversationId: the stored history is loaded, whatever the  *)
(* status of the row.                                                      *)
ChatExisting(r, c) ==
    /\ Admitted(r, c)
    /\ ~ChatOnPaused => store[c].status # "PAUSED"
    /\ StartChat(r, c, store[c].messages)
    /\ UNCHANGED <<store, issued, ran, granted>>

(* Either endpoint with an id of no row of the tenant: 404.                *)
NotFound(r) ==
    /\ run[r].pc = "idle"
    /\ Becomes(r, Ended("failed"))
    /\ UNCHANGED <<store, issued, ran, granted>>

Decisions == [toolCallId : Calls, approved : BOOLEAN]

(* The three 400s of approve: nothing pending, a decision that is repeated *)
(* or not for a pending call, a pending call outside the approval flow.    *)
Refused(pending, decisions) ==
    \/ pending = {}
    \/ \E i, j \in DOMAIN decisions :
          i # j /\ decisions[i].toolCallId = decisions[j].toolCallId
    \/ \E i \in DOMAIN decisions : decisions[i].toolCallId \notin pending
    \/ ~ pending \subseteq NeedsApproval

ApprovedBy(decisions) ==
    { decisions[i].toolCallId : i \in {j \in DOMAIN decisions : decisions[j].approved} }

ApproveRefused(r, c, decisions) ==
    /\ Admitted(r, c)
    /\ Refused(Pending(store[c].messages), decisions)
    /\ Becomes(r, Ended("failed"))
    /\ UNCHANGED <<store, issued, ran, granted>>

(* Mutant: the paused turn does not count as an iteration.                 *)
AcceptUncounted(r, c, decisions, todo) ==
    /\ Admitted(r, c)
    /\ ~Refused(Pending(store[c].messages), decisions)
    /\ Becomes(r, [Start EXCEPT
         !.pc = "resolving", !.kind = "approve", !.conv = c,
         !.messages = store[c].messages,
         !.todo = todo, !.approved = ApprovedBy(decisions)])
    /\ granted' = [d \in Calls |-> IF d \in ApprovedBy(decisions)
                                   THEN granted[d] \cup {r} ELSE granted[d]]
    /\ UNCHANGED <<store, issued, ran>>

(* The decisions are valid: the calls of todo are resolved before the loop *)
(* goes on.  The paused turn counts as one iteration of the resumed run.   *)
Accept(r, c, decisions, todo) ==
    /\ Admitted(r, c)
    /\ ~Refused(Pending(store[c].messages), decisions)
    /\ Becomes(r, [Start EXCEPT
         !.pc = "resolving", !.kind = "approve", !.conv = c,
         !.messages = store[c].messages, !.iterations = 1,
         !.todo = todo, !.approved = ApprovedBy(decisions)])
    /\ granted' = [d \in Calls |-> IF d \in ApprovedBy(decisions)
                                   THEN granted[d] \cup {r} ELSE granted[d]]
    /\ UNCHANGED <<store, issued, ran>>

(* Mutant: the calls of earlier pauses are resolved again.                 *)
ApproveAgain(r, c, decisions) ==
    Accept(r, c, decisions, Requested(store[c].messages) \cap NeedsApproval)

(* Mutant: a pending call nobody decided is skipped, not rejected.         *)
ApproveDecided(r, c, decisions) ==
    Accept(r, c, decisions, { decisions[i].toolCallId : i \in DOMAIN decisions })

(* Every pending call is resolved, decided or not.                         *)
ApproveAccepted(r, c, decisions) ==
    Accept(r, c, decisions, Pending(store[c].messages))

-----------------------------------------------------------------------------
(* approve's loop over the pending calls, then runLoop.                    *)

Execute(c) == ran' = [ran EXCEPT ![c] = @ + 1]

(* Mutant: the result of an approved call is reported, not recorded.       *)
AnswerDropped(x, c, content) == [x EXCEPT !.todo = @ \ {c}]

(* The tool message of c is pushed, and the for loop moves on.             *)
AfterAnswer(x, c, content) ==
    [x EXCEPT !.messages = Append(@, ToolMessage(c, content)), !.todo = @ \ {c}]

Answer(r, c, content) == Becomes(r, AfterAnswer(run[r], c, content))

(* Mutant: the tool runs whatever was decided about the call.              *)
ResolveUnasked(r, c) ==
    /\ run[r].pc = "resolving"
    /\ IsNext(run[r].messages, c, run[r].todo)
    /\ Execute(c)
    /\ Answer(r, c, IF c \in run[r].approved THEN "result" ELSE "REJECTED_BY_USER")
    /\ UNCHANGED <<store, issued, granted>>

(* One pending call: executed when its decision approves it; rejected when *)
(* the decision denies it or there is none.                                *)
ResolveNext(r, c) ==
    /\ run[r].pc = "resolving"
    /\ IsNext(run[r].messages, c, run[r].todo)
    /\ IF c \in run[r].approved
       THEN Execute(c) /\ Answer(r, c, "result")
       ELSE UNCHANGED ran /\ Answer(r, c, "REJECTED_BY_USER")
    /\ UNCHANGED <<store, issued, granted>>

Resume(r) ==
    /\ run[r].pc = "resolving" /\ run[r].todo = {}
    /\ Becomes(r, [run[r] EXCEPT !.pc = "loop", !.approved = {}])
    /\ UNCHANGED <<store, issued, ran, granted>>

(* The iterations a run starts with.                                       *)
Seed(x) == IF x.kind = "approve" THEN 1 ELSE 0

(* The head of the while loop gives up: the iterations are used up, or the *)
(* tokens or the time, which a run has used none of before its first call  *)
(* of the model.                                                           *)
StopEarly(r) ==
    /\ run[r].pc = "loop"
    /\ \/ run[r].iterations >= MaxIterations
       \/ run[r].iterations > Seed(run[r])
       \/ TightLimits
    /\ Becomes(r, [run[r] EXCEPT !.pc = "finishing"])
    /\ UNCHANGED <<store, issued, ran, granted>>

(* Mutant: a turn of the loop is not counted.                              *)
CallModelUncounted(r) ==
    /\ run[r].pc = "loop" /\ run[r].iterations < MaxIterations
    /\ Becomes(r, [run[r] EXCEPT !.pc = "llm", !.attempt = 1])
    /\ UNCHANGED <<store, issued, ran, granted>>

(* One more turn of the loop: the budgets allow it.                        *)
CallModel(r) ==
    /\ run[r].pc = "loop" /\ run[r].iterations < MaxIterations
    /\ Becomes(r, [run[r] EXCEPT !.pc = "llm", !.iterations = @ + 1,
                                 !.attempt = 1])
    /\ UNCHANGED <<store, issued, ran, granted>>

(* Mutant: the attempts start over when they are exhausted.                *)
ModelFailsForever(r) ==
    /\ run[r].pc = "llm" /\ "llm" \in Faults
    /\ Becomes(r, [run[r] EXCEPT !.attempt = IF @ < MaxRetries THEN @ + 1 ELSE 1])
    /\ UNCHANGED <<store, issued, ran, granted>>

(* An attempt fails: try again, or let the error end the request.  With a  *)
(* limit of zero there is no attempt, and the error is that of no answer.  *)
ModelFails(r) ==
    /\ run[r].pc = "llm"
    /\ "llm" \in Faults \/ run[r].attempt > MaxRetries
    /\ Becomes(r, IF run[r].attempt < MaxRetries
                  THEN [run[r] EXCEPT !.attempt = @ + 1]
                  ELSE Ended("failed"))
    /\ UNCHANGED <<store, issued, ran, granted>>

(* The answer is final: its text is returned and not appended.             *)
ModelFinishes(r) ==
    /\ run[r].pc = "llm" /\ run[r].attempt <= MaxRetries
    /\ Becomes(r, [run[r] EXCEPT !.pc = "finishing", !.attempt = 0])
    /\ UNCHANGED <<store, issued, ran, granted>>

(* The ids a model may use for a batch: distinct, and new.                 *)
Batches == UNION { Injection(1..n, Calls \ issued) : n \in 1..MaxCalls }

ModelRequestsTools(r, batch) ==
    /\ run[r].pc = "llm" /\ run[r].attempt <= MaxRetries
    /\ issued' = issued \cup Range(batch)
    /\ Becomes(r, [run[r] EXCEPT
         !.pc = "reading", !.attempt = 0,
         !.messages = Append(@, Assistant(batch)), !.response = batch,
         !.inFlight = Range(batch) \cap ReadOnly])
    /\ UNCHANGED <<store, ran, granted>>

-----------------------------------------------------------------------------
(* The tools of one batch.                                                 *)

(* Promise.allSettled: the parallel executions end in any order.           *)
ReadOnlySettles(r, c) ==
    /\ run[r].pc = "reading" /\ c \in run[r].inFlight
    /\ Execute(c)
    /\ Becomes(r, [run[r] EXCEPT !.inFlight = @ \ {c}])
    /\ UNCHANGED <<store, issued, granted>>

(* Mutant: a batch that needs approval pauses before its mutating calls.   *)
RecordAndPause(r) ==
    LET batch == Range(run[r].response)
    IN  /\ run[r].pc = "reading" /\ run[r].inFlight = {}
        /\ \E s \in InOrder(run[r].messages, batch \cap ReadOnly) :
              Becomes(r, [run[r] EXCEPT
                !.pc = IF batch \cap NeedsApproval # {} THEN "pausing" ELSE "writing",
                !.messages = @ \o [i \in DOMAIN s |-> ToolMessage(s[i], "result")],
                !.todo = batch \cap Mutating])
        /\ UNCHANGED <<store, issued, ran, granted>>

(* Mutant: results are pushed as they settle.                              *)
RecordAsSettled(r) ==
    LET batch == Range(run[r].response)
        reads == batch \cap ReadOnly
    IN  /\ run[r].pc = "reading" /\ run[r].inFlight = {}
        /\ \E s \in Bijection(1..Cardinality(reads), reads) :
              Becomes(r, [run[r] EXCEPT
                !.pc = "writing",
                !.messages = @ \o [i \in DOMAIN s |-> ToolMessage(s[i], "result")],
                !.todo = batch \cap Mutating])
        /\ UNCHANGED <<store, issued, ran, granted>>

(* All have settled: their results are pushed in the order of the batch.   *)
RecordReadOnly(r) ==
    LET batch == Range(run[r].response)
    IN  /\ run[r].pc = "reading" /\ run[r].inFlight = {}
        /\ \E s \in InOrder(run[r].messages, batch \cap ReadOnly) :
              Becomes(r, [run[r] EXCEPT
                !.pc = "writing",
                !.messages = @ \o [i \in DOMAIN s |-> ToolMessage(s[i], "result")],
                !.todo = batch \cap Mutating])
        /\ UNCHANGED <<store, issued, ran, granted>>

ExecuteMutating(r, c) ==
    /\ run[r].pc = "writing"
    /\ IsNext(run[r].messages, c, run[r].todo)
    /\ Execute(c) /\ Answer(r, c, "result")
    /\ UNCHANGED <<store, issued, granted>>

(* Pause only after the safe tools ran; otherwise back to the model.       *)
EndBatch(r) ==
    /\ run[r].pc = "writing" /\ run[r].todo = {}
    /\ Becomes(r, [run[r] EXCEPT
         !.pc = IF Range(run[r].response) \cap NeedsApproval # {}
                THEN "pausing" ELSE "loop",
         !.response = << >>])
    /\ UNCHANGED <<store, issued, ran, granted>>

-----------------------------------------------------------------------------
(* The terminal points, and what cuts a handler short.                     *)

(* Mutants: the loop's own outcome is stored as the status, and a pause is *)
(* stored as a completed turn.                                             *)
StatusOfOutcome(pc) == pc

StatusCompleted(pc) == "COMPLETED"

StatusOf(pc) == IF pc = "pausing" THEN "PAUSED" ELSE "COMPLETED"

(* Mutant: only the status is written.                                     *)
PersistStatus(r) ==
    /\ run[r].pc \in {"pausing", "finishing"}
    /\ store' = [store EXCEPT ![run[r].conv].status = StatusOf(run[r].pc)]
    /\ Becomes(r, Ended("done"))
    /\ UNCHANGED <<issued, ran, granted>>

(* updateMessages replaces the whole row by id; then the response is sent. *)
Persist(r) ==
    /\ run[r].pc \in {"pausing", "finishing"}
    /\ store' = [store EXCEPT ![run[r].conv] =
                   [status |-> StatusOf(run[r].pc), messages |-> run[r].messages]]
    /\ Becomes(r, Ended("done"))
    /\ UNCHANGED <<issued, ran, granted>>

PersistFails(r) ==
    /\ run[r].pc \in {"pausing", "finishing"} /\ "db" \in Faults
    /\ Becomes(r, Ended("failed"))
    /\ UNCHANGED <<store, issued, ran, granted>>

(* The process stops and starts again: every handler in flight is gone.    *)
Crash ==
    /\ "crash" \in Faults
    /\ \E r \in Requests : Active(r)
    /\ run' = [r \in Requests |-> IF Active(r) THEN Ended("failed") ELSE run[r]]
    /\ UNCHANGED <<store, issued, ran, granted>>

-----------------------------------------------------------------------------

Arrive(r) ==
    \/ NotFound(r)
    \/ \E c \in Conversations :
         \/ \E history \in ClientHistories : ChatNew(r, c, history)
         \/ ChatExisting(r, c)
         \/ \E n \in 1..MaxDecisions : \E decisions \in [1..n -> Decisions] :
               \/ ApproveRefused(r, c, decisions)
               \/ ApproveAccepted(r, c, decisions)

(* What the handler does by itself once it has started.                    *)
Step(r) ==
    \/ \E c \in Calls : ResolveNext(r, c)
    \/ Resume(r) \/ StopEarly(r) \/ CallModel(r)
    \/ ModelFails(r) \/ ModelFinishes(r)
    \/ \E batch \in Batches : ModelRequestsTools(r, batch)
    \/ \E c \in Calls : ReadOnlySettles(r, c)
    \/ RecordReadOnly(r)
    \/ \E c \in Calls : ExecuteMutating(r, c)
    \/ EndBatch(r) \/ Persist(r) \/ PersistFails(r)

(* The server waits for requests that never come.                          *)
Quiet ==
    /\ \A r \in Requests : run[r].pc \in {"done", "failed"}
    /\ UNCHANGED vars

Next == Crash \/ Quiet \/ \E r \in Requests : Arrive(r) \/ Step(r)

Spec == Init /\ [][Next]_vars

(* A handler that has started keeps being scheduled, and a model call or a *)
(* database write ends, with an answer or an error.                        *)
FairSpec == Spec /\ \A r \in Requests : WF_vars(Step(r))

-----------------------------------------------------------------------------
(* Properties of every behaviour, whatever overlaps and whatever fails.    *)

(* Type correctness of the table, the handlers and the history variables.  *)
TypeOK ==
    /\ store \in [Conversations -> Rows]
    /\ run \in [Requests -> Runs]
    /\ issued \subseteq Calls
    /\ ran \in [Calls -> Nat]
    /\ granted \in [Calls -> SUBSET Requests]

Stored(d, content) ==
    \E c \in Conversations : \E i \in DOMAIN store[c].messages :
        store[c].messages[i] = ToolMessage(d, content)

(* A tool that requires approval runs only because a human approved that   *)
(* very call, once at most for each approve request that did; any other    *)
(* call of the model runs once at most (runLoop's partition, approve).     *)
RunsAreGranted ==
    \A d \in Calls :
        ran[d] <= IF d \in NeedsApproval THEN Cardinality(granted[d]) ELSE 1

(* What is stored can be read back as a history: each tool result follows  *)
(* the request it answers, no request is answered twice, the read-only     *)
(* calls of a batch are answered in the order of the batch although they   *)
(* settle in any order, and what is stored as a result was executed,       *)
(* however stale the copy was that a handler wrote back (executeReadOnly,  *)
(* updateMessages after any interleaving).                                 *)
StoredHistoriesWellFormed ==
    /\ \A c \in Conversations :
          WellFormed(store[c].messages) /\ ReadsInOrder(store[c].messages)
    /\ \A d \in Calls : Stored(d, "result") => ran[d] > 0

(* A stored history never waits for a call the human cannot decide, so     *)
(* approve is never refused for good with "not part of the approval flow": *)
(* the safe calls of a mixed batch are answered before it is stored; and a *)
(* conversation marked PAUSED does have a call to decide.                  *)
PauseIsDecidable ==
    \A c \in Conversations :
        LET pending == Pending(store[c].messages)
        IN  /\ pending \subseteq NeedsApproval
            /\ store[c].status = "PAUSED" => pending # {}

(* Every request that has been received is answered, with a response or an *)
(* error: neither the loop nor the retries go on for ever (runLoop,        *)
(* callLlmWithRetry).                                                      *)
EveryRequestEnds ==
    \A r \in Requests : run[r].pc # "idle" ~> run[r].pc \in {"done", "failed"}

(* What a handler has left: turns of the while loop, then stages of the    *)
(* turn, then attempts or calls of the stage.                              *)
Left(used, limit) == IF used < limit THEN limit - used ELSE 0

Stage(x) ==
    CASE x.pc \in {"resolving", "llm"} -> 4
      [] x.pc = "reading" -> 3
      [] x.pc = "writing" -> 2
      [] x.pc = "loop" -> 1
      [] OTHER -> 0

WithinStage(x) ==
    CASE x.pc = "llm" -> Left(x.attempt, MaxRetries)
      [] x.pc = "reading" -> Cardinality(x.inFlight)
      [] x.pc \in {"resolving", "writing"} -> Cardinality(x.todo)
      [] OTHER -> 0

Budget(x) == << <<Left(x.iterations, MaxIterations), Stage(x)>>, WithinStage(x) >>

(* Pairs of naturals in lexicographic order, the second before the first.  *)
Advances(x, y) ==
    LET before == Budget(x)[1]  after == Budget(y)[1]
    IN  \/ after[1] < before[1]
        \/ after[1] = before[1] /\ after[2] < before[2]
        \/ after = before /\ Budget(y)[2] < Budget(x)[2]

(* Whatever a handler does ends it or uses up some of what it has left: no *)
(* retry, no call of a batch and no turn of the loop comes back (runLoop,  *)
(* callLlmWithRetry, approve's loop over the pending calls).               *)
EveryStepAdvances ==
    [][\A r \in Requests : Active(r) =>
          \/ run'[r] = run[r]
          \/ run'[r].pc \in {"done", "failed"}
          \/ Advances(run[r], run'[r])]_vars

(* A handler that has not ended has a step to take, and only one order to  *)
(* take its calls in: the calls it still has to visit or to record are in  *)
(* one order in its history, and nothing it waits for is another handler's *)
(* to give (approve's and runLoop's for loops, Promise.allSettled).        *)
HasStep(x) ==
    CASE x.pc \in {"resolving", "writing"} ->
           x.todo # {} =>
              Cardinality({ c \in Calls : IsNext(x.messages, c, x.todo) }) = 1
      [] x.pc = "reading" ->
           x.inFlight = {} =>
              Cardinality(InOrder(x.messages, Range(x.response) \cap ReadOnly)) = 1
      [] OTHER -> TRUE

NobodyIsStuck == \A r \in Requests : Active(r) => HasStep(run[r])

(* The inductive invariant behind the one order: the ids of a batch are    *)
(* new, so no history requests a call at two places.                       *)
RequestsHaveOnePlace ==
    /\ \A c \in Conversations : RequestedOnce(store[c].messages)
    /\ \A r \in Requests : RequestedOnce(run[r].messages)

(* The inductive invariant behind the order of the answers: results of     *)
(* read-only calls are pushed directly after the turn that asks for them.  *)
ReadsAreOrdered ==
    /\ \A c \in Conversations : ReadsInOrder(store[c].messages)
    /\ \A r \in Requests :
          LET h == run[r].messages
          IN  /\ ReadsInOrder(h)
              /\ run[r].pc = "reading" =>
                    h # << >> /\ h[Len(h)] = Assistant(run[r].response)

-----------------------------------------------------------------------------
(* The inductive invariant behind the safety properties above: what the    *)
(* private copy of a handler is at each program counter.                   *)

(* The calls a handler will still execute without asking anybody.          *)
Ahead(x) ==
    CASE x.pc = "reading" -> x.inFlight \cup (Range(x.response) \cap Mutating)
      [] x.pc = "writing" -> x.todo
      [] OTHER -> {}

SoundHistory(h, ids) == WellFormed(h) /\ Requested(h) \subseteq ids

(* A copy is well formed, and what is pending in it is what needs approval *)
(* plus the part of the current batch that was not reached yet.            *)
SoundCopy(x, ids) ==
    x.pc \notin {"idle", "done", "failed"} =>
       /\ x.conv \in Conversations
       /\ SoundHistory(x.messages, ids)
       /\ x.pc \in {"resolving", "loop", "llm", "pausing", "finishing"} =>
             Pending(x.messages) \subseteq NeedsApproval
       /\ x.pc = "resolving" => x.todo = Pending(x.messages)
       /\ x.pc = "pausing" => Pending(x.messages) # {}
       /\ x.pc = "reading" =>
             /\ x.inFlight \subseteq ReadOnly
             /\ Range(x.response) \subseteq Pending(x.messages)
             /\ Pending(x.messages) \subseteq NeedsApproval \cup Range(x.response)
       /\ x.pc = "writing" =>
             /\ x.todo = Pending(x.messages) \cap Mutating
             /\ Range(x.response) \cap NeedsApproval \subseteq Pending(x.messages)
             /\ Pending(x.messages) \subseteq NeedsApproval \cup Mutating

(* The copies are sound, and so is every row they are written to.          *)
CopiesAreSound ==
    /\ \A r \in Requests : SoundCopy(run[r], issued)
    /\ \A c \in Conversations : SoundHistory(store[c].messages, issued)
    /\ PauseIsDecidable

(* Who may still run a call: a safe call that is ahead of a handler has    *)
(* not run and is ahead of no other; an approved call that a handler is    *)
(* about to resolve is covered by a grant that is not used up.             *)
Unused(d) ==
    { r \in Requests : run[r].pc = "resolving" /\ d \in run[r].todo \cap run[r].approved }

RunsAreAccounted ==
    /\ \A d \in Calls \ NeedsApproval :
          /\ ran[d] <= 1
          /\ d \notin issued => ran[d] = 0
          /\ \A r \in Requests : d \in Ahead(run[r]) =>
                /\ d \in issued /\ ran[d] = 0
                /\ \A q \in Requests \ {r} : d \notin Ahead(run[q])
    /\ \A d \in NeedsApproval :
          /\ \A r \in granted[d] : run[r].pc # "idle"
          /\ Unused(d) \subseteq granted[d]
          /\ ran[d] <= Cardinality(granted[d] \ Unused(d))

(* A result in a copy or in a row comes from an execution.                 *)
Backed(h, count) ==
    \A d \in Calls :
        (\E i \in DOMAIN h : h[i] = ToolMessage(d, "result")) => count[d] > 0

ResultsAreBacked ==
    /\ \A c \in Conversations : Backed(store[c].messages, ran)
    /\ \A r \in Requests :
          /\ Backed(run[r].messages, ran)
          /\ run[r].pc = "reading" =>
                \A d \in (Range(run[r].response) \cap ReadOnly) \ run[r].inFlight :
                   ran[d] > 0

Inv == TypeOK /\ CopiesAreSound /\ RunsAreAccounted /\ ResultsAreBacked

-----------------------------------------------------------------------------
(* Properties that hold when nobody chats on a paused conversation.        *)

(* The model is never sent a history with an unanswered tool call, which   *)
(* the providers refuse, even when handlers overlap and overwrite each     *)
(* other's rows: every path into runLoop answers all calls first.          *)
ModelSeesPairedCalls ==
    \A r \in Requests : run[r].pc = "llm" => Pending(run[r].messages) = {}

(* The stored history is consistent: outside a pause, every call of the    *)
(* assistant is paired with its result.                                    *)
NoOrphanedCalls ==
    \A c \in Conversations :
        store[c].status # "PAUSED" => Pending(store[c].messages) = {}

(* The invariant behind both: what is open in a copy that the model has    *)
(* answered are calls of the current batch that were not reached yet.      *)
OpenInBatch(x) ==
    LET open == Pending(x.messages)
    IN  /\ x.pc = "reading" => open \subseteq Range(x.response)
        /\ x.pc = "writing" =>
              open \subseteq x.todo \cup (Range(x.response) \cap NeedsApproval)
        /\ x.pc = "finishing" => open = {}

CopiesArePaired ==
    /\ NoOrphanedCalls
    /\ \A r \in Requests :
          /\ run[r].pc \in {"loop", "llm"} => Pending(run[r].messages) = {}
          /\ OpenInBatch(run[r])

-----------------------------------------------------------------------------
(* Properties that also need one request per conversation at a time.       *)

(* A stored history is never rewritten: each write extends what is there   *)
(* (chat and approve start from the stored messages, updateMessages).      *)
HistoryOnlyGrows ==
    [][\A c \in Conversations : IsPrefix(store[c].messages, store'[c].messages)]_vars

(* Unless a request that approved it failed half way, an approved call     *)
(* runs once and a call stored as rejected never ran.                      *)
DecisionsAreFinal ==
    \A d \in NeedsApproval :
        (\A r \in granted[d] : run[r].pc # "failed") =>
           /\ ran[d] <= 1
           /\ Stored(d, "REJECTED_BY_USER") => ran[d] = 0

(* What a human approved ends up in the stored history as a result, unless *)
(* the request that approved it fails.                                     *)
GrantsAreRecorded ==
    \A r \in Requests, d \in Calls :
        r \in granted[d] ~> Stored(d, "result") \/ run[r].pc = "failed"

Outcome(d) ==
    CASE Stored(d, "result") -> "executed"
      [] Stored(d, "REJECTED_BY_USER") -> "rejected"
      [] OTHER -> "none"

(* The rows behave as the approval protocol, crashes and errors included.  *)
Protocol == INSTANCE Approval WITH
    Calls <- NeedsApproval,
    status <- [c \in Conversations |-> store[c].status],
    open <- [c \in Conversations |-> Pending(store[c].messages)],
    outcome <- [d \in NeedsApproval |-> Outcome(d)]

(* The refinement itself, as a property of Agent.                          *)
ImplementsApproval == Protocol!Spec

(* The inductive invariant behind these three.  A conversation has one     *)
(* handler at most, whose copy extends the row.                            *)
CopiesExtendRows ==
    /\ \A c \in Conversations : ~Exists(c) => store[c].messages = << >>
    /\ \A r \in Requests : Active(r) =>
          /\ Exists(run[r].conv)
          /\ IsPrefix(store[run[r].conv].messages, run[r].messages)
          /\ \A q \in Requests \ {r} : Active(q) => run[q].conv # run[r].conv

(* A call belongs to one conversation, in its row and in its copy.         *)
Holds(c) ==
    Requested(store[c].messages)
      \cup UNION { Requested(run[r].messages) :
                     r \in { q \in Requests : Active(q) /\ run[q].conv = c } }

CallsHaveAHome ==
    \A c, e \in Conversations : c # e => Holds(c) \cap Holds(e) = {}

(* As long as no request that approved it failed, a call that is open in a *)
(* row or in a copy did not run, unless the copy that answers it is still  *)
(* to be stored, and a rejected call did not run.                          *)
Unspoilt(d) == \A r \in granted[d] : run[r].pc # "failed"

Rejects(h, d) == \E i \in DOMAIN h : h[i] = ToolMessage(d, "REJECTED_BY_USER")

DecidedOnce(d) ==
    /\ ran[d] <= 1
    /\ \A c \in Conversations : d \in Pending(store[c].messages) /\ ran[d] # 0 =>
          \E r \in granted[d] : Active(r) /\ run[r].conv = c
                                  /\ d \in Answered(run[r].messages)
    /\ \A c \in Conversations : Rejects(store[c].messages, d) => ran[d] = 0
    /\ \A r \in Requests : Active(r) =>
          (d \in Pending(run[r].messages) \/ Rejects(run[r].messages, d) => ran[d] = 0)

SerialInv ==
    /\ Inv /\ CopiesExtendRows /\ CallsHaveAHome
    /\ \A d \in NeedsApproval :
          /\ d \notin issued => ran[d] = 0
          /\ Unspoilt(d) => DecidedOnce(d)

(* A chat answers no call that needs approval; a resumed run has answered  *)
(* the calls of its pause that it does not still have to visit.            *)
Follows(x, row) ==
    LET visited == Pending(row.messages) \ (IF x.pc = "resolving" THEN x.todo ELSE {})
    IN  /\ row.status = "PAUSED" <=> x.kind = "approve"
        /\ x.pc = "resolving" => x.kind = "approve" /\ x.todo \subseteq Pending(row.messages)
        /\ Answered(x.messages) \cap NeedsApproval
              = (Answered(row.messages) \cap NeedsApproval)
                   \cup (IF x.kind = "approve" THEN visited ELSE {})

CopiesFollowRows ==
    \A r \in Requests : Active(r) => Follows(run[r], store[run[r].conv])

-----------------------------------------------------------------------------
(* What the repository's documents say and the code does not keep.         *)

(* "Approved: executes once and the loop continues" (README).              *)
ApprovedRunsOnce == \A d \in NeedsApproval : ran[d] <= 1

(* "The pause is persisted on the server: even if you lose the client's    *)
(* state, the conversationId still points to the pending pause"            *)
(* (integration guide): a pending call of a pause stays in the history     *)
(* until it is answered there.                                             *)
PauseSurvives ==
    [][\A c \in Conversations :
          store[c].status = "PAUSED" =>
             Pending(store[c].messages) \subseteq Requested(store'[c].messages)]_vars
=============================================================================
