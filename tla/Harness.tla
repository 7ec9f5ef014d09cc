------------------------------ MODULE Harness ------------------------------
(***************************************************************************)
(* The agent with what surrounds its loop: the provider that answers, the  *)
(* three budgets of the environment, what the fake provider records and    *)
(* what the client is asked to approve.                                    *)
(*                                                                         *)
(* Each action is one of Agent's together with its effect on the variables *)
(* added here, so whatever is proved of Agent holds of this module.  Where *)
(* Agent leaves a choice open (when the loop stops early, whether the      *)
(* model answers, why it stopped) this module decides it.                  *)
(***************************************************************************)
EXTENDS Agent, Providers

CONSTANTS
    Configs,          \* the environments the server may be started in
    MaxAnswerTokens,  \* bound: tokens one model call may use
    MaxElapsed        \* bound: units of time a run lasts

(* Number(process.env.X) is a number or NaN: a limit is the set {n}, or    *)
(* the empty set, which no amount ever reaches.                            *)
Limits == SUBSET Nat

Reached(amount, limit) == \E n \in limit : amount >= n

(* Configs decides how tight the limits are, and vendors fail at times.    *)
ASSUME HarnessAssumption ==
    /\ Configs \subseteq [provider : Providers, tokens : Limits, clock : Limits]
    /\ MaxAnswerTokens \in Nat /\ MaxElapsed \in Nat
    /\ TightLimits /\ "llm" \in Faults

VARIABLES
    config,    \* the provider and the limits of this process, from ENV
    book,      \* what each request's run has used up and asked for
    array,     \* the messages array of each run, while something refers to it
    requests   \* FakeLlmProvider.requests

hvars == <<vars, config, book, array, requests>>

(* usage is the sum of acc.usage, elapsed the time since startTime, sends  *)
(* the calls of complete, asked the ids in awaitingApproval.               *)
Books == [usage : Nat, elapsed : 0..MaxElapsed, sends : Nat, asked : SUBSET Calls]

(* The book of a run that has not started or is over.                      *)
Closed == [usage |-> 0, elapsed |-> 0, sends |-> 0, asked |-> {}]

(* A recorded request: whose array it refers to, and (history) what that   *)
(* array held when the request was made.                                   *)
Recordings == [by : Requests, sent : Histories]

HInit ==
    /\ Init
    /\ config \in Configs
    /\ book = [r \in Requests |-> Closed]
    /\ array = [r \in Requests |-> << >>]
    /\ requests = << >>

-----------------------------------------------------------------------------
(* The budgets.                                                            *)

(* Mutant: a budget may be used up and exceeded by one.                    *)
BudgetExceeded(r) ==
    \/ \E n \in config.tokens : book[r].usage > n
    \/ Reached(book[r].elapsed, config.clock)

(* checkBudget; the iterations it also compares are the loop's condition.  *)
BudgetReached(r) ==
    \/ Reached(book[r].usage, config.tokens)
    \/ Reached(book[r].elapsed, config.clock)

(* Mutant: the clock runs from the arrival of the request.                 *)
StartLateLoop(r) == Resume(r) /\ UNCHANGED <<book, requests>>

(* runLoop is entered: usage is zero, and startTime is now.                *)
StartLoop(r) ==
    /\ Resume(r)
    /\ book' = [book EXCEPT ![r].elapsed = 0]
    /\ UNCHANGED requests

GiveUp(r) ==
    /\ StopEarly(r)
    /\ run[r].iterations >= MaxIterations \/ BudgetReached(r)
    /\ UNCHANGED <<book, requests>>

(* Time passes while a handler awaits.                                     *)
TimePasses(r) ==
    /\ run[r].pc \in {"resolving", "llm", "reading", "writing"}
    /\ book[r].elapsed < MaxElapsed
    /\ book' = [book EXCEPT ![r].elapsed = @ + 1]
    /\ UNCHANGED <<vars, requests>>

-----------------------------------------------------------------------------
(* The model call.                                                         *)

(* Mutant: a request that is sent again is not recorded again.             *)
SendRecordedOnce(r) ==
    /\ book' = [book EXCEPT ![r].sends = @ + 1]
    /\ requests' = IF config.provider = "fake" /\ book[r].sends = 0
                   THEN Append(requests, [by |-> r, sent |-> run[r].messages])
                   ELSE requests

(* llm.complete is called; the fake keeps the request it is given.         *)
Send(r) ==
    /\ book' = [book EXCEPT ![r].sends = @ + 1]
    /\ requests' = IF config.provider = "fake"
                   THEN Append(requests, [by |-> r, sent |-> run[r].messages])
                   ELSE requests

(* Mutant: a call of the model does not count as an iteration.             *)
AskUncounted(r) ==
    /\ run[r].pc = "loop" /\ run[r].iterations < MaxIterations
    /\ ~BudgetReached(r)
    /\ Becomes(r, [run[r] EXCEPT !.pc = "llm", !.attempt = 1])
    /\ Send(r)
    /\ UNCHANGED <<store, issued, ran, granted>>

(* The turn starts with the first attempt, if there is to be any.          *)
Ask(r) ==
    /\ CallModel(r) /\ ~BudgetReached(r)
    /\ IF MaxRetries > 0 THEN Send(r) ELSE UNCHANGED <<book, requests>>

(* An attempt fails: the vendor refuses the history, no cassette matches   *)
(* it, or the call itself goes wrong.  The retry sends the same array.     *)
Retry(r) == ModelFails(r) /\ run[r].attempt < MaxRetries /\ Send(r)

Exhaust(r) ==
    /\ ModelFails(r) /\ run[r].attempt >= MaxRetries
    /\ book' = [book EXCEPT ![r] = Closed]
    /\ UNCHANGED requests

(* Mutant: tokens are counted down.                                        *)
UsesDown(r, tokens) == book' = [book EXCEPT ![r].usage = @ - tokens]

Uses(r, tokens) == book' = [book EXCEPT ![r].usage = @ + tokens]

AnswerFinal(r, reason, calls, tokens) ==
    /\ Accepts(config.provider, run[r].messages)
    /\ ~GoesOn(StopReason(config.provider, reason), calls)
    /\ ModelFinishes(r) /\ Uses(r, tokens)
    /\ UNCHANGED requests

AnswerTools(r, reason, batch, tokens) ==
    /\ Accepts(config.provider, run[r].messages)
    /\ GoesOn(StopReason(config.provider, reason), batch)
    /\ ModelRequestsTools(r, batch) /\ Uses(r, tokens)
    /\ UNCHANGED requests

-----------------------------------------------------------------------------
(* The batch, and the reply.                                               *)

(* Mutant: every call of the batch is shown for approval.                  *)
AskForAll(r) ==
    LET asked == Range(run[r].response)
    IN  /\ EndBatch(r)
        /\ book' = [book EXCEPT ![r].asked = asked]
        /\ UNCHANGED requests

(* A pause asks for the calls of its batch that need approval.             *)
CloseBatch(r) ==
    LET asked == Range(run[r].response) \cap NeedsApproval
    IN  /\ EndBatch(r)
        /\ book' = [book EXCEPT ![r].asked = asked]
        /\ UNCHANGED requests

(* The history is stored, or it is not, and the request is over.           *)
Reply(r) ==
    /\ Persist(r) \/ PersistFails(r)
    /\ book' = [book EXCEPT ![r] = Closed]
    /\ UNCHANGED requests

(* What was recorded is in the memory of the process.                      *)
HCrash ==
    /\ Crash
    /\ book' = [r \in Requests |-> Closed]
    /\ requests' = << >>

-----------------------------------------------------------------------------

HArrive(r) == Arrive(r) /\ UNCHANGED <<book, requests>>

Converse(r) ==
    \/ Ask(r) \/ Retry(r) \/ Exhaust(r)
    \/ \E reason \in Reasons(config.provider), tokens \in 0..MaxAnswerTokens :
          \/ \E calls \in Batches \cup {<< >>} : AnswerFinal(r, reason, calls, tokens)
          \/ \E batch \in Batches : AnswerTools(r, reason, batch, tokens)

(* Agent's steps that neither the provider nor the budgets see: a tool     *)
(* runs, or results are recorded.                                          *)
Inward(r) ==
    /\ Step(r)
    /\ \/ run[r].pc = "reading"
       \/ run[r].pc \in {"resolving", "writing"} /\ run[r].todo # {}
    /\ UNCHANGED <<book, requests>>

HStep(r) ==
    \/ StartLoop(r) \/ GiveUp(r) \/ TimePasses(r)
    \/ Converse(r) \/ Inward(r) \/ CloseBatch(r) \/ Reply(r)

(* A handler pushes onto one array from its start to its end, and a        *)
(* recorded request keeps that array.                                      *)
Alias ==
    array' = [r \in Requests |->
                IF Active(r)' THEN run'[r].messages
                ELSE IF \E k \in DOMAIN requests' : requests'[k].by = r THEN array[r]
                ELSE << >>]

HNext ==
    /\ \/ HCrash
       \/ Quiet /\ UNCHANGED <<book, requests>>
       \/ \E r \in Requests : HArrive(r) \/ HStep(r)
    /\ Alias
    /\ UNCHANGED config

HSpec == HInit /\ [][HNext]_hvars

-----------------------------------------------------------------------------

(* Type correctness of the variables this module adds.                     *)
HarnessTypeOK ==
    /\ config \in Configs
    /\ book \in [Requests -> Books]
    /\ array \in [Requests -> Histories]
    /\ requests \in Seq(Recordings)

(* The harness is an agent: the providers and the budgets add no behaviour *)
(* to the loop and the store that Agent does not have.                     *)
ImplementsAgent == Spec

(* A run uses at most one answer more than its token budget allows, on a   *)
(* resume as on a first turn, and with a budget of zero nothing at all     *)
(* (checkBudget compares before a call what the calls before it used).     *)
TokensOvershootByOneAnswer ==
    \A r \in Requests, n \in config.tokens :
        book[r].usage = 0 \/ (n > 0 /\ book[r].usage < n + MaxAnswerTokens)

(* Retries included, a request never calls the model more often than its   *)
(* iterations allow, and one that decided calls has one iteration less:    *)
(* the paused turn is counted; a limit of zero, on either, means no call   *)
(* at all (approve's seed, callLlmWithRetry).                              *)
SendsAreBounded ==
    \A r \in Requests :
        book[r].sends <= Left(Seed(run[r]), MaxIterations) * MaxRetries

Positive(limit) == \A n \in limit : n > 0

(* No limit is zero, and a resumed run has an iteration left.              *)
Sensible == Positive(config.tokens) /\ Positive(config.clock) /\ MaxIterations > 1

(* A request that is answered has heard the model: its tools' results were *)
(* not stored and reported without the model having seen the request, and  *)
(* an approval is not met by "I stopped early" however long the approved   *)
(* tools took (startTime, approve's seed and checkBudget together).        *)
RepliesHeardTheModel ==
    Sensible => \A r \in Requests : run[r].pc = "finishing" => book[r].sends > 0

(* A vendor takes what the loop sends it exactly when every tool call in   *)
(* it is answered: the results of a batch, of its rejected calls and of a  *)
(* pause that ended many requests ago stand where each vendor wants them.  *)
(* Only a chat on a paused conversation is refused.                        *)
AcceptedIffPaired ==
    config.provider \in Strict /\ Sensible =>
        \A r \in Requests : run[r].pc = "llm" =>
            (Accepts(config.provider, run[r].messages) <=> Pending(run[r].messages) = {})

(* With a vendor that refuses unpaired calls, a chat on a paused           *)
(* conversation fails before it stores anything: the pause outlives it and *)
(* no completed row has an unanswered call, though chat does not look at   *)
(* the status.                                                             *)
StrictVendorsKeepPauses ==
    config.provider \in Strict /\ Sensible => NoOrphanedCalls

(* So under such a vendor the rows keep the approval protocol of Agent's   *)
(* serial runs although clients chat on a pause: a turn is stored only     *)
(* where none is pending, and a pause is left only by deciding all of it   *)
(* (chat's missing status check, against complete's refusal).              *)
StrictVendorsKeepProtocol ==
    [][~Overlap /\ config.provider \in Strict /\ Sensible
         => Protocol!Next \/ UNCHANGED Protocol!vars]_hvars

(* What the human is shown for approval is all that approve will resolve:  *)
(* no call that was not shown is rejected as undecided, and a turn that    *)
(* asks for nothing leaves nothing to decide (awaitingApproval against the *)
(* pending calls of the history that is stored before it is sent).         *)
ShownIsPending ==
    config.provider \in Strict /\ Sensible =>
        \A r \in Requests : run[r].pc \in {"pausing", "finishing"} =>
            Pending(run[r].messages) = book[r].asked

(* What a test reads from the fake's requests although they refer to the   *)
(* live array: it begins with what was sent, every call of complete by a   *)
(* handler is there, and what was added since are turns of the model and   *)
(* results, so the last user message is the one that was sent.             *)
RecordedRequests ==
    /\ \A k \in DOMAIN requests :
          LET live == array[requests[k].by]
              sent == requests[k].sent
          IN  /\ IsPrefix(sent, live)
              /\ \A i \in (Len(sent) + 1)..Len(live) : live[i] # User
    /\ config.provider = "fake" => \A r \in Requests : Active(r) =>
          book[r].sends = Cardinality({ k \in DOMAIN requests : requests[k].by = r })

-----------------------------------------------------------------------------
(* The inductive invariant behind these properties.                        *)

(* What the book of a run holds at each program counter.                   *)
BookIsKept(x, b, tokens) ==
    LET over == x.pc \in {"idle", "done", "failed"}
    IN  /\ over => b = Closed
        /\ ~over => Seed(x) <= x.iterations
        /\ ~over /\ x.iterations > Seed(x) => x.iterations <= MaxIterations
        /\ b.sends = 0 => b.usage = 0
        /\ x.pc = "resolving" => b.sends = 0 /\ x.iterations = Seed(x)
        /\ x.pc = "loop" /\ b.sends = 0 => x.iterations = Seed(x) /\ b.elapsed = 0
        /\ x.pc \in {"reading", "writing", "pausing"} => b.sends > 0
        /\ ~over /\ x.pc # "llm" => b.sends <= (x.iterations - Seed(x)) * MaxRetries
        /\ x.pc = "llm" =>
              /\ x.attempt > 0 /\ x.iterations > Seed(x)
              /\ IF MaxRetries > 0
                 THEN /\ x.attempt <= MaxRetries /\ b.sends > 0
                      /\ b.sends <= (x.iterations - Seed(x) - 1) * MaxRetries + x.attempt
                 ELSE b.sends = 0
              /\ \A n \in tokens : b.usage < n

BooksAreKept == \A r \in Requests : BookIsKept(run[r], book[r], config.tokens)

(* Once a strict vendor has answered a run, nothing in its copy is open    *)
(* but the current batch, and only a pause asks for anything.              *)
OpenIsKept(x, b) ==
    LET open == Pending(x.messages)
    IN  /\ x.pc = "loop" /\ b.sends > 0 => open = {}
        /\ OpenInBatch(x)
        /\ b.asked = IF x.pc = "pausing" THEN open ELSE {}

OnlyTheBatchIsOpen ==
    config.provider \in Strict /\ Sensible =>
        NoOrphanedCalls /\ \A r \in Requests : OpenIsKept(run[r], book[r])

(* A run's array is its copy for as long as the run lives, and a request   *)
(* is recorded only for a run that has started.                            *)
ArraysAreLive ==
    /\ \A r \in Requests : Active(r) => array[r] = run[r].messages
    /\ \A k \in DOMAIN requests : run[requests[k].by].pc # "idle"

(* Nothing but results stands between turn j and place i of a history.     *)
DirectlyAfter(h, j, i) == j < i /\ \A k \in (j+1)..(i-1) : h[k].role = "tool"

(* One turn requests a call, and its result directly follows that turn.    *)
InPlace(h) ==
    /\ \A i, j \in DOMAIN h, c \in Calls :
          IsRequest(h[i], c) /\ IsRequest(h[j], c) => i = j
    /\ \A i \in DOMAIN h : h[i].role = "tool" =>
          \E j \in 1..(i-1) :
             IsRequest(h[j], h[i].toolCallId) /\ DirectlyAfter(h, j, i)

(* A result that is appended now directly follows its turn.                *)
OpenAtEnd(h) ==
    \A c \in Pending(h) : \E j \in DOMAIN h :
        IsRequest(h[j], c) /\ DirectlyAfter(h, j, Len(h) + 1)

(* Where a handler still answers calls, or has left some for a human.      *)
Answering == {"resolving", "reading", "writing", "pausing"}

(* No handler of a strict vendor answers a call once something else has    *)
(* been said since.                                                        *)
PlaceIsKept(x) ==
    x.pc \notin {"idle", "done", "failed"} =>
       /\ InPlace(x.messages)
       /\ x.pc \in Answering => OpenAtEnd(x.messages)

ResultsAreInPlace ==
    config.provider \in Strict /\ Sensible =>
       /\ \A c \in Conversations :
             InPlace(store[c].messages) /\ OpenAtEnd(store[c].messages)
       /\ \A r \in Requests : PlaceIsKept(run[r])

(* A chat on a pause gets no further than the vendor that refuses it; any  *)
(* other handler follows its row.                                          *)
Stuck(x, row) ==
    /\ x.kind = "chat" /\ row.status = "PAUSED"
    /\ x.pc \in {"loop", "llm"} /\ Pending(x.messages) # {}

StrictCopiesFollow ==
    ~Overlap /\ config.provider \in Strict /\ Sensible =>
       \A r \in Requests : Active(r) =>
          LET row == store[run[r].conv]
          IN  Stuck(run[r], row) \/ Follows(run[r], row)

HInv ==
    /\ Inv /\ HarnessTypeOK
    /\ BooksAreKept /\ TokensOvershootByOneAnswer /\ RepliesHeardTheModel
    /\ RecordedRequests /\ ArraysAreLive
    /\ OnlyTheBatchIsOpen /\ ResultsAreInPlace /\ StrictCopiesFollow
=============================================================================
