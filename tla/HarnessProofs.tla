--------------------------- MODULE HarnessProofs ---------------------------
(***************************************************************************)
(* The agent between provider and budgets is an agent: each of its steps   *)
(* is a step of Agent or leaves Agent's variables alone, so that what is   *)
(* proved of Agent carries over.  On top of that: how much of a budget a   *)
(* run can use, when it may give up, and what a vendor that refuses        *)
(* unpaired calls means for what is stored and shown.                      *)
(***************************************************************************)
EXTENDS Harness, SerialProofs

-----------------------------------------------------------------------------
(* The refinement.                                                         *)

(* What each step of a handler is in Agent.                                *)
LEMMA StepRefines ==
  ASSUME NEW r \in Requests, HStep(r)
  PROVE  Step(r) \/ TimePasses(r)
<1>1. CASE StartLoop(r) \/ GiveUp(r) \/ CloseBatch(r)
  BY <1>1 DEF StartLoop, GiveUp, CloseBatch, Step
<1>2. CASE Ask(r) \/ Retry(r) \/ Exhaust(r)
  BY <1>2 DEF Ask, Retry, Exhaust, Step
<1>3. ASSUME NEW reason, NEW calls, NEW tokens, AnswerFinal(r, reason, calls, tokens)
      PROVE  Step(r)
  BY <1>3 DEF AnswerFinal, Step
<1>4. ASSUME NEW reason, NEW batch \in Batches, NEW tokens,
             AnswerTools(r, reason, batch, tokens)
      PROVE  Step(r)
  BY <1>4 DEF AnswerTools, Step
<1>5. CASE Inward(r)
  BY <1>5 DEF Inward
<1>6. CASE Reply(r)
  BY <1>6 DEF Reply, Step
<1> QED
  BY <1>1, <1>2, <1>3, <1>4, <1>5, <1>6 DEF HStep, Converse

LEMMA StepOfAgent ==
  ASSUME NEW r \in Requests, HArrive(r) \/ HStep(r)
  PROVE  Arrive(r) \/ Step(r) \/ UNCHANGED vars
BY StepRefines DEF HArrive, TimePasses

LEMMA NextOfAgent == [HNext]_hvars => [Next]_vars
<1>1. ASSUME HCrash PROVE Next
  BY <1>1 DEF HCrash, Next
<1>2. ASSUME Quiet PROVE Next
  BY <1>2 DEF Next
<1>3. ASSUME NEW r \in Requests, HArrive(r) \/ HStep(r) PROVE [Next]_vars
  BY <1>3, StepOfAgent DEF Next
<1>4. UNCHANGED hvars => UNCHANGED vars
  BY DEF hvars
<1> QED
  BY <1>1, <1>2, <1>3, <1>4 DEF HNext

(* The providers and the budgets add no behaviour to the loop and the      *)
(* store that Agent does not have.                                         *)
THEOREM Refines == HSpec => ImplementsAgent
<1>1. HInit => Init
  BY DEF HInit
<1> QED
  BY <1>1, NextOfAgent, PTL DEF HSpec, ImplementsAgent, Spec

(* So Agent's invariant holds under every provider and every budget.       *)
THEOREM Carries == HSpec => []Inv
BY Refines, Invariance, PTL DEF ImplementsAgent

(* With the choices decided, a pause is still decidable, and no tool runs  *)
(* without its grant.                                                      *)
THEOREM CarriesSafety == HSpec => [](PauseIsDecidable /\ RunsAreGranted)
BY Refines, PauseDecidable, HumanInTheLoop, PTL DEF ImplementsAgent

-----------------------------------------------------------------------------
(* Type correctness.                                                       *)

LEMMA ClosedBook == Closed \in Books
BY HarnessAssumption DEF Closed, Books

(* A handler's step leaves the book of every other as it is, and its own   *)
(* well typed.                                                             *)
LEMMA BookType ==
  ASSUME HarnessTypeOK, TypeOK, NEW r \in Requests, HArrive(r) \/ HStep(r)
  PROVE  \E b \in Books : book' = [book EXCEPT ![r] = b]
<1>1. book[r] \in Books /\ book \in [Requests -> Books] /\ run[r] \in Runs
  BY DEF HarnessTypeOK, TypeOK
<1>2. MaxAnswerTokens \in Nat /\ MaxElapsed \in Nat
  BY HarnessAssumption
<1>3. CASE HArrive(r) \/ Inward(r) \/ GiveUp(r)
  <2>1. book' = [book EXCEPT ![r] = book[r]]
    BY <1>1, <1>3 DEF HArrive, Inward, GiveUp
  <2> QED
    BY <1>1, <2>1
<1>4. CASE StartLoop(r) \/ TimePasses(r)
  <2>1. \E e \in 0..MaxElapsed : book' = [book EXCEPT ![r] = [book[r] EXCEPT !.elapsed = e]]
    BY <1>1, <1>2, <1>4 DEF StartLoop, TimePasses, Books
  <2> QED
    BY <1>1, <2>1 DEF Books
<1>5. CASE Ask(r) \/ Retry(r)
  <2>1. CASE Send(r)
    <3>1. book' = [book EXCEPT ![r] = [book[r] EXCEPT !.sends = book[r].sends + 1]]
      BY <2>1 DEF Send
    <3>2. [book[r] EXCEPT !.sends = book[r].sends + 1] \in Books
      BY <1>1 DEF Books
    <3> QED
      BY <3>1, <3>2
  <2>2. CASE UNCHANGED <<book, requests>>
    <3>1. book' = [book EXCEPT ![r] = book[r]]
      BY <1>1, <2>2
    <3> QED
      BY <1>1, <3>1
  <2> QED
    BY <1>5, <2>1, <2>2 DEF Ask, Retry
<1>6. CASE Exhaust(r) \/ Reply(r)
  BY <1>6, ClosedBook DEF Exhaust, Reply
<1>7. ASSUME NEW tokens \in 0..MaxAnswerTokens, Uses(r, tokens)
      PROVE  \E b \in Books : book' = [book EXCEPT ![r] = b]
  <2>1. book' = [book EXCEPT ![r] = [book[r] EXCEPT !.usage = book[r].usage + tokens]]
    BY <1>7 DEF Uses
  <2>2. [book[r] EXCEPT !.usage = book[r].usage + tokens] \in Books
    BY <1>1, <1>2 DEF Books
  <2> QED
    BY <2>1, <2>2
<1>8. CASE CloseBatch(r)
  <2> DEFINE asked == Range(run[r].response) \cap NeedsApproval
  <2>1. asked \subseteq Calls
    BY Partition
  <2>2. book' = [book EXCEPT ![r] = [book[r] EXCEPT !.asked = asked]]
    BY <1>8 DEF CloseBatch
  <2> HIDE DEF asked
  <2>3. [book[r] EXCEPT !.asked = asked] \in Books
    BY <1>1, <2>1 DEF Books
  <2> QED
    BY <2>2, <2>3
<1> QED
  BY <1>3, <1>4, <1>5, <1>6, <1>7, <1>8 DEF HStep, Converse, AnswerFinal, AnswerTools

(* What is recorded is a request of the handler that takes the step.       *)
LEMMA RequestsType ==
  ASSUME HarnessTypeOK, TypeOK, NEW r \in Requests, HArrive(r) \/ HStep(r)
  PROVE  requests' \in Seq(Recordings)
<1> DEFINE entry == [by |-> r, sent |-> run[r].messages]
<1>1. entry \in Recordings /\ requests \in Seq(Recordings)
  BY RunFields DEF HarnessTypeOK, TypeOK, Recordings
<1>2. requests' = requests \/ requests' = Append(requests, entry)
  BY DEF HArrive, HStep, StartLoop, GiveUp, TimePasses, Converse, Ask, Retry, Send,
         Exhaust, AnswerFinal, AnswerTools, Inward, CloseBatch, Reply
<1> HIDE DEF entry
<1> QED
  BY <1>1, <1>2

(* Whatever a run's array is, it is a history.                             *)
LEMMA ArrayType ==
  ASSUME HarnessTypeOK, TypeOK', Alias
  PROVE  array' \in [Requests -> Histories]
<1>1. \A r \in Requests : run'[r].messages \in Histories
  BY RunFields DEF TypeOK
<1>2. << >> \in Histories /\ array \in [Requests -> Histories]
  BY EmptyHistory DEF HarnessTypeOK
<1> QED
  BY <1>1, <1>2 DEF Alias

LEMMA HarnessTypeNext ==
  ASSUME HarnessTypeOK, TypeOK, TypeOK', [HNext]_hvars
  PROVE  HarnessTypeOK'
<1>1. CASE UNCHANGED hvars
  BY <1>1 DEF hvars, HarnessTypeOK
<1>2. CASE HNext
  <2>1. array' \in [Requests -> Histories] /\ config' \in Configs
    BY <1>2, ArrayType DEF HNext, HarnessTypeOK
  <2>2. ASSUME HCrash PROVE HarnessTypeOK'
    BY <2>1, <2>2, ClosedBook DEF HCrash, HarnessTypeOK
  <2>3. ASSUME Quiet, UNCHANGED <<book, requests>> PROVE HarnessTypeOK'
    BY <2>1, <2>3 DEF HarnessTypeOK
  <2>4. ASSUME NEW r \in Requests, HArrive(r) \/ HStep(r) PROVE HarnessTypeOK'
    <3>1. book' \in [Requests -> Books]
      BY <2>4, BookType DEF HarnessTypeOK
    <3> QED
      BY <2>1, <2>4, <3>1, RequestsType DEF HarnessTypeOK
  <2> QED
    BY <1>2, <2>2, <2>3, <2>4 DEF HNext
<1> QED
  BY <1>1, <1>2

(* Type correctness of what Harness adds to Agent.                         *)
THEOREM HarnessTypeCorrect == HSpec => []HarnessTypeOK
<1>1. HInit => HarnessTypeOK
  BY EmptyHistory, ClosedBook DEF HInit, HarnessTypeOK
<1>2. Inv => TypeOK
  BY DEF Inv
<1>3. HarnessTypeOK /\ Inv /\ Inv' /\ [HNext]_hvars => HarnessTypeOK'
  BY <1>2, HarnessTypeNext DEF Inv
<1> QED
  BY <1>1, <1>3, Carries, PTL DEF HSpec

-----------------------------------------------------------------------------
(* What the steps do to the counters of the handler that takes them.       *)

(* Nobody else's state is touched.                                         *)
LEMMA OthersKeep ==
  ASSUME HarnessTypeOK, TypeOK, NEW r \in Requests, HArrive(r) \/ HStep(r)
  PROVE  \A q \in Requests \ {r} : run'[q] = run[q] /\ book'[q] = book[q]
<1>1. ASSUME NEW x, Becomes(r, x)
      PROVE  \A q \in Requests \ {r} : run'[q] = run[q]
  BY <1>1 DEF Becomes, TypeOK
<1>2. Arrive(r) => \E x : Becomes(r, x)
  BY DEF Arrive, NotFound, ChatNew, ChatExisting, StartChat, ApproveRefused,
         ApproveAccepted, Accept
<1>3. Step(r) => \E x : Becomes(r, x)
  BY DEF Step, ResolveNext, Answer, Resume, StopEarly, CallModel, ModelFails,
         ModelFinishes, ModelRequestsTools, ReadOnlySettles, RecordReadOnly,
         ExecuteMutating, EndBatch, Persist, PersistFails
<1>4. \A q \in Requests \ {r} : run'[q] = run[q]
  BY <1>1, <1>2, <1>3, StepOfAgent DEF vars
<1>5. \A q \in Requests \ {r} : book'[q] = book[q]
  BY BookType DEF HarnessTypeOK
<1> QED
  BY <1>4, <1>5

(* A request that is not refused starts with its seed.                     *)
LEMMA ArriveSeeds ==
  ASSUME TypeOK, NEW r \in Requests, Arrive(r)
  PROVE  /\ run[r].pc = "idle"
         /\ \/ run'[r].pc = "failed"
            \/ run'[r].pc = "loop" /\ run'[r].iterations = 0 /\ run'[r].kind = "chat"
            \/ /\ run'[r].pc = "resolving" /\ run'[r].iterations = 1
               /\ run'[r].kind = "approve"
<1>1. CASE NotFound(r)
  BY <1>1, EndedRun DEF NotFound, Becomes, TypeOK
<1>2. ASSUME NEW c, NEW h, StartChat(r, c, h)
      PROVE  run'[r].pc = "loop" /\ run'[r].iterations = 0 /\ run'[r].kind = "chat"
  BY <1>2 DEF StartChat, Becomes, TypeOK, Start
<1>3. ASSUME NEW c, NEW h, ChatNew(r, c, h) \/ ChatExisting(r, c)
      PROVE  run[r].pc = "idle" /\ run'[r].pc = "loop" /\ run'[r].iterations = 0
             /\ run'[r].kind = "chat"
  BY <1>2, <1>3 DEF ChatNew, ChatExisting, Admitted
<1>4. ASSUME NEW c, NEW decisions, ApproveRefused(r, c, decisions)
      PROVE  run[r].pc = "idle" /\ run'[r].pc = "failed"
  BY <1>4, EndedRun DEF ApproveRefused, Admitted, Becomes, TypeOK
<1>5. ASSUME NEW c, NEW decisions, ApproveAccepted(r, c, decisions)
      PROVE  /\ run[r].pc = "idle" /\ run'[r].pc = "resolving"
             /\ run'[r].iterations = 1 /\ run'[r].kind = "approve"
  BY <1>5 DEF ApproveAccepted, Accept, Admitted, Becomes, TypeOK, Start
<1>6. run[r].pc = "idle"
  BY <1>3, <1>4, <1>5 DEF Arrive, NotFound
<1> QED
  BY <1>1, <1>3, <1>4, <1>5, <1>6 DEF Arrive

(* Only a call of the model counts; a retry counts the attempts.           *)
LEMMA LoopStepCounts ==
  ASSUME TypeOK, NEW r \in Requests
  PROVE  /\ \/ Resume(r) \/ StopEarly(r) \/ ModelFinishes(r) \/ EndBatch(r)
            \/ \E batch \in Batches : ModelRequestsTools(r, batch)
            => run'[r].iterations = run[r].iterations /\ run'[r].kind = run[r].kind
         /\ CallModel(r) =>
               /\ run'[r].iterations = run[r].iterations + 1 /\ run'[r].attempt = 1
               /\ run'[r].kind = run[r].kind
         /\ ModelFails(r) /\ run[r].attempt < MaxRetries =>
               /\ run'[r].iterations = run[r].iterations
               /\ run'[r].attempt = run[r].attempt + 1
               /\ run'[r].kind = run[r].kind
<1>1. run[r] \in Runs /\ run \in [Requests -> Runs]
  BY DEF TypeOK
<1>2. Resume(r) \/ StopEarly(r) \/ ModelFinishes(r) \/ EndBatch(r) =>
         run'[r].iterations = run[r].iterations /\ run'[r].kind = run[r].kind
  <2>1. Resume(r) \/ StopEarly(r) \/ ModelFinishes(r) =>
           run'[r].iterations = run[r].iterations /\ run'[r].kind = run[r].kind
    <3>1. Resume(r) =>
             run'[r].iterations = run[r].iterations /\ run'[r].kind = run[r].kind
      BY <1>1 DEF Resume, Becomes, Runs
    <3>2. StopEarly(r) =>
             run'[r].iterations = run[r].iterations /\ run'[r].kind = run[r].kind
      BY <1>1 DEF StopEarly, Becomes, Runs
    <3>3. ModelFinishes(r) =>
             run'[r].iterations = run[r].iterations /\ run'[r].kind = run[r].kind
      BY <1>1 DEF ModelFinishes, Becomes, Runs
    <3> QED
      BY <3>1, <3>2, <3>3
  <2>2. EndBatch(r) =>
           \E pc : Becomes(r, [run[r] EXCEPT !.pc = pc, !.response = << >>])
    BY DEF EndBatch
  <2>3. EndBatch(r) =>
           run'[r].iterations = run[r].iterations /\ run'[r].kind = run[r].kind
    BY <1>1, <2>2 DEF Becomes, Runs
  <2> QED
    BY <2>1, <2>3
<1>3. ASSUME NEW batch \in Batches, ModelRequestsTools(r, batch)
      PROVE  run'[r].iterations = run[r].iterations /\ run'[r].kind = run[r].kind
  BY <1>1, <1>3 DEF ModelRequestsTools, Becomes, Runs
<1>4. CallModel(r) =>
         /\ run'[r].iterations = run[r].iterations + 1 /\ run'[r].attempt = 1
         /\ run'[r].kind = run[r].kind
  BY <1>1 DEF CallModel, Becomes, Runs
<1>5. ModelFails(r) /\ run[r].attempt < MaxRetries =>
         /\ run'[r].iterations = run[r].iterations
         /\ run'[r].attempt = run[r].attempt + 1
         /\ run'[r].kind = run[r].kind
  BY <1>1 DEF ModelFails, Becomes, Runs
<1> QED
  BY <1>2, <1>3, <1>4, <1>5

(* Which of Agent's steps the others are.                                  *)
LEMMA InwardSteps ==
  ASSUME NEW r \in Requests, Inward(r)
  PROVE  \/ \E c \in Calls : ResolveNext(r, c) \/ ExecuteMutating(r, c)
         \/ \E c \in Calls : ReadOnlySettles(r, c)
         \/ RecordReadOnly(r)
BY DEF Inward, Step, Resume, StopEarly, CallModel, ModelFails, ModelFinishes,
       ModelRequestsTools, EndBatch, Persist, PersistFails

(* They count nothing, and stay in the batch.                              *)
LEMMA InwardCounts ==
  ASSUME TypeOK, NEW r \in Requests, Inward(r)
  PROVE  /\ run'[r].iterations = run[r].iterations /\ run'[r].kind = run[r].kind
         /\ \/ run[r].pc = "resolving" /\ run'[r].pc = "resolving"
            \/ run[r].pc \in {"reading", "writing"} /\ run'[r].pc \in {"reading", "writing"}
<1>1. run[r] \in Runs /\ run \in [Requests -> Runs]
  BY DEF TypeOK
<1>2. ASSUME NEW c \in Calls, ResolveNext(r, c) \/ ExecuteMutating(r, c)
      PROVE  /\ run'[r].iterations = run[r].iterations /\ run'[r].kind = run[r].kind
             /\ run'[r].pc = run[r].pc /\ run[r].pc \in {"resolving", "writing"}
  <2>1. \E content : Answer(r, c, content)
    BY <1>2 DEF ResolveNext, ExecuteMutating
  <2> QED
    BY <1>1, <1>2, <2>1 DEF ResolveNext, ExecuteMutating, Answer, Becomes, AfterAnswer, Runs
<1>3. ASSUME NEW c \in Calls, ReadOnlySettles(r, c)
      PROVE  /\ run'[r].iterations = run[r].iterations /\ run'[r].kind = run[r].kind
             /\ run[r].pc = "reading" /\ run'[r].pc = "reading"
  BY <1>1, <1>3 DEF ReadOnlySettles, Becomes, Runs
<1>4. CASE RecordReadOnly(r)
  <2>1. run[r].pc = "reading"
        /\ \E g, todo : Becomes(r, [run[r] EXCEPT !.pc = "writing", !.messages = g,
                                                   !.todo = todo])
    BY <1>4 DEF RecordReadOnly
  <2> QED
    BY <1>1, <2>1 DEF Becomes, Runs
<1> QED
  BY <1>2, <1>3, <1>4, InwardSteps

-----------------------------------------------------------------------------
(* The budgets.                                                            *)

(* The arithmetic of iterations times retries.                             *)
LEMMA Retries ==
  /\ 0 * MaxRetries = 0
  /\ \A n \in Nat : n * MaxRetries \in Nat
  /\ \A n \in Int : (n + 1) * MaxRetries = n * MaxRetries + MaxRetries
  /\ \A m, n \in Int : m <= n => m * MaxRetries <= n * MaxRetries
<1>1. MaxRetries \in Nat
  BY AgentAssumption
<1>2. ASSUME NEW m \in Int, NEW n \in Int, m <= n
      PROVE  m * MaxRetries <= n * MaxRetries
  BY <1>1, <1>2, SMTT(30)
<1> QED
  BY <1>1, <1>2

(* A book that is kept is kept by every step of its handler.               *)
LEMMA BookKept ==
  ASSUME HarnessTypeOK, TypeOK, NEW r \in Requests, HArrive(r) \/ HStep(r),
         BookIsKept(run[r], book[r], config.tokens)
  PROVE  BookIsKept(run'[r], book'[r], config.tokens)
<1> DEFINE x == run[r]
           b == book[r]
           y == run'[r]
           d == book'[r]
<1> SUFFICES BookIsKept(y, d, config.tokens)
  OBVIOUS
<1>0. BookIsKept(x, b, config.tokens)
  OBVIOUS
<1>1. /\ x.pc \in {"idle", "resolving", "loop", "llm", "reading", "writing",
                   "pausing", "finishing", "done", "failed"}
      /\ x.iterations \in Nat /\ x.attempt \in Nat
      /\ b.usage \in Nat /\ b.elapsed \in Nat /\ b.sends \in Nat
  BY RunFields, HarnessAssumption DEF HarnessTypeOK, TypeOK, Books
<1>2. MaxIterations \in Nat /\ MaxRetries \in Nat
  BY AgentAssumption
<1>3. /\ Seed(x) \in {0, 1}
      /\ y.kind = x.kind => Seed(y) = Seed(x)
      /\ y.kind = "approve" => Seed(y) = 1
      /\ y.kind = "chat" => Seed(y) = 0
  BY DEF Seed
<1>4. Closed.sends = 0 /\ Closed.usage = 0 /\ Closed.elapsed = 0
  BY DEF Closed
<1>5. ASSUME y.pc \in {"done", "failed"}, d = Closed
      PROVE  BookIsKept(y, d, config.tokens)
  BY <1>4, <1>5 DEF BookIsKept
<1>6. CASE HArrive(r)
  <2>1. /\ x.pc = "idle" /\ d = b
        /\ \/ y.pc = "failed"
           \/ y.pc = "loop" /\ y.iterations = 0 /\ y.kind = "chat"
           \/ y.pc = "resolving" /\ y.iterations = 1 /\ y.kind = "approve"
    BY <1>6, ArriveSeeds DEF HArrive
  <2>2. d = Closed
    BY <1>0, <2>1 DEF BookIsKept
  <2>3. y.pc # "failed" => y.iterations = Seed(y)
    BY <1>2, <1>3, <2>1
  <2>4. (Seed(y) - Seed(y)) * MaxRetries = 0
    BY <1>2, <1>3, <2>1, Retries DEF Seed
  <2> HIDE DEF x, y, b, d
  <2>5. CASE y.pc = "failed"
    BY <1>5, <2>2, <2>5
  <2>6. CASE y.pc # "failed"
    BY <1>4, <2>1, <2>2, <2>3, <2>4, <2>6 DEF BookIsKept
  <2> QED
    BY <2>5, <2>6
<1>7. CASE StartLoop(r)
  <2>1. /\ x.pc = "resolving" /\ y.pc = "loop"
        /\ y.iterations = x.iterations /\ y.kind = x.kind
    BY <1>7, LoopStepKeeps, LoopStepCounts DEF StartLoop, Resume
  <2>2. d.usage = b.usage /\ d.sends = b.sends /\ d.elapsed = 0
    BY <1>7 DEF StartLoop, HarnessTypeOK, Books
  <2> HIDE DEF x, y, b, d
  <2> QED
    BY <1>1, <1>2, <1>3, <2>1, <2>2, <1>0, Retries DEF BookIsKept
<1>8. CASE GiveUp(r)
  <2>1. /\ x.pc = "loop" /\ y.pc = "finishing"
        /\ y.iterations = x.iterations /\ y.kind = x.kind /\ d = b
    BY <1>8, LoopStepKeeps, LoopStepCounts DEF GiveUp, StopEarly
  <2> HIDE DEF x, y, b, d
  <2> QED
    BY <1>0, <1>3, <2>1 DEF BookIsKept
<1>9. CASE TimePasses(r)
  <2>1. /\ x.pc \in {"resolving", "llm", "reading", "writing"} /\ y = x
        /\ d.usage = b.usage /\ d.sends = b.sends
    BY <1>9 DEF TimePasses, vars, HarnessTypeOK, Books
  <2> HIDE DEF x, y, b, d
  <2> QED
    BY <1>0, <2>1 DEF BookIsKept
<1>10. CASE Ask(r)
  <2>1. /\ x.pc = "loop" /\ y.pc = "llm" /\ x.iterations < MaxIterations
        /\ y.iterations = x.iterations + 1 /\ y.kind = x.kind /\ y.attempt = 1
    BY <1>10, LoopStepKeeps, LoopStepCounts DEF Ask, CallModel
  <2>2. /\ d.usage = b.usage
        /\ d.sends = IF MaxRetries > 0 THEN b.sends + 1 ELSE b.sends
    BY <1>2, <1>10 DEF Ask, Send, HarnessTypeOK, Books
  <2>3. \A n \in config.tokens : b.usage < n
    <3>1. config.tokens \subseteq Nat
      BY HarnessAssumption DEF HarnessTypeOK, Limits
    <3> QED
      BY <1>1, <1>10, <3>1 DEF Ask, BudgetReached, Reached
  <2> HIDE DEF x, y, b, d
  <2>4. y.iterations - Seed(y) - 1 = x.iterations - Seed(x)
    BY <1>1, <1>3, <2>1
  <2>5. b.sends <= (x.iterations - Seed(x)) * MaxRetries /\ Seed(x) <= x.iterations
    BY <1>0, <2>1 DEF BookIsKept
  <2>6. MaxRetries > 0 => d.sends <= (y.iterations - Seed(y) - 1) * MaxRetries + y.attempt
    <3> DEFINE k == (x.iterations - Seed(x)) * MaxRetries
    <3>1. k \in Int /\ b.sends <= k /\ k = (y.iterations - Seed(y) - 1) * MaxRetries
      BY <1>1, <1>2, <1>3, <2>4, <2>5
    <3> HIDE DEF k
    <3>2. MaxRetries > 0 => d.sends <= k + y.attempt
      BY <1>1, <2>1, <2>2, <3>1
    <3> QED
      BY <3>1, <3>2
  <2>7. MaxRetries = 0 => d.sends = 0
    <3>1. MaxRetries = 0 => (x.iterations - Seed(x)) * MaxRetries = 0
      BY <1>1, <1>3
    <3> QED
      BY <1>1, <1>2, <2>2, <2>5, <3>1
  <2>8. /\ y.iterations > Seed(y) /\ Seed(y) <= y.iterations
        /\ y.iterations <= MaxIterations /\ y.attempt > 0
        /\ MaxRetries > 0 => y.attempt <= MaxRetries /\ d.sends > 0
        /\ d.sends = 0 => b.sends = 0
    BY <1>1, <1>2, <1>3, <2>1, <2>2, <2>5
  <2> QED
    BY <1>2, <2>1, <2>2, <2>3, <2>6, <2>7, <2>8, <1>0 DEF BookIsKept
<1>11. CASE Retry(r)
  <2>1. /\ x.pc = "llm" /\ y.pc = "llm" /\ x.attempt < MaxRetries
        /\ y.iterations = x.iterations /\ y.kind = x.kind
        /\ y.attempt = x.attempt + 1
    BY <1>11, LoopStepKeeps, LoopStepCounts DEF Retry, ModelFails
  <2>2. d.usage = b.usage /\ d.sends = b.sends + 1
    BY <1>11 DEF Retry, Send, HarnessTypeOK, Books
  <2> HIDE DEF x, y, b, d
  <2>3. /\ MaxRetries > 0 /\ x.attempt \in 1..MaxRetries /\ x.iterations > Seed(x)
        /\ Seed(x) <= x.iterations /\ x.iterations <= MaxIterations
        /\ b.sends <= (x.iterations - Seed(x) - 1) * MaxRetries + x.attempt
        /\ \A n \in config.tokens : b.usage < n
    BY <1>0, <1>1, <1>2, <2>1 DEF BookIsKept
  <2>4. d.sends <= (y.iterations - Seed(y) - 1) * MaxRetries + y.attempt
    <3> DEFINE k == (x.iterations - Seed(x) - 1) * MaxRetries
    <3>1. k \in Int /\ b.sends <= k + x.attempt
          /\ k = (y.iterations - Seed(y) - 1) * MaxRetries
      BY <1>1, <1>2, <1>3, <2>1, <2>3
    <3> HIDE DEF k
    <3>2. d.sends <= k + y.attempt
      BY <1>1, <2>1, <2>2, <3>1
    <3> QED
      BY <3>1, <3>2
  <2>5. y.attempt \in 1..MaxRetries /\ y.iterations > Seed(y) /\ d.sends > 0
    BY <1>1, <1>2, <1>3, <2>1, <2>2, <2>3
  <2> QED
    BY <1>3, <2>1, <2>2, <2>3, <2>4, <2>5 DEF BookIsKept
<1>12. CASE Exhaust(r)
  <2>1. y.pc = "failed"
    <3>1. ~(x.attempt < MaxRetries)
      BY <1>1, <1>2, <1>12 DEF Exhaust
    <3> QED
      BY <1>12, <3>1, LoopStepKeeps DEF Exhaust
  <2>2. d = Closed
    BY <1>12 DEF Exhaust, HarnessTypeOK
  <2> QED
    BY <1>5, <2>1, <2>2
<1>13. CASE Reply(r)
  <2>1. run'[r].pc \in {"done", "failed"}
    BY <1>13, EndedRun DEF Reply, Persist, PersistFails, Becomes, TypeOK
  <2> QED
    BY <1>5, <1>13, <2>1 DEF Reply, HarnessTypeOK
<1>14. ASSUME x.pc = "llm", x.attempt <= MaxRetries,
              y.pc \in {"finishing", "reading"},
              y.iterations = x.iterations, y.kind = x.kind, d.sends = b.sends
       PROVE  BookIsKept(y, d, config.tokens)
  <2> HIDE DEF x, y, b, d
  <2>1. /\ x.attempt \in 1..MaxRetries /\ Seed(x) <= x.iterations
        /\ x.iterations <= MaxIterations /\ b.sends > 0
        /\ b.sends <= (x.iterations - Seed(x) - 1) * MaxRetries + x.attempt
    BY <1>0, <1>1, <1>2, <1>14 DEF BookIsKept
  <2> DEFINE n == x.iterations - Seed(x) - 1
             k == n * MaxRetries
  <2>2. /\ n \in Int /\ k \in Int /\ b.sends <= k + x.attempt
        /\ n + 1 = y.iterations - Seed(y)
    BY <1>1, <1>2, <1>3, <1>14, <2>1
  <2>3. (n + 1) * MaxRetries = k + MaxRetries
    BY <2>2, Retries
  <2> HIDE DEF n, k
  <2>4. d.sends <= (y.iterations - Seed(y)) * MaxRetries
    BY <1>1, <1>2, <1>14, <2>1, <2>2, <2>3
  <2> QED
    BY <1>1, <1>3, <1>14, <2>1, <2>4 DEF BookIsKept
<1>15. ASSUME NEW tokens, Uses(r, tokens),
              ModelFinishes(r) \/ \E batch \in Batches : ModelRequestsTools(r, batch)
       PROVE  BookIsKept(y, d, config.tokens)
  <2>1. x.pc = "llm" /\ x.attempt <= MaxRetries
    BY <1>15 DEF ModelFinishes, ModelRequestsTools
  <2>2. y.pc \in {"finishing", "reading"}
    <3>1. ModelFinishes(r) => y.pc = "finishing"
      BY LoopStepKeeps
    <3>2. \A batch \in Batches : ModelRequestsTools(r, batch) => y.pc = "reading"
      BY DEF ModelRequestsTools, Becomes, TypeOK, Runs
    <3> QED
      BY <1>15, <3>1, <3>2
  <2>3. y.iterations = x.iterations /\ y.kind = x.kind
    BY <1>15, LoopStepCounts
  <2>4. d.sends = b.sends
    BY <1>15 DEF Uses, HarnessTypeOK, Books
  <2> QED
    BY <1>14, <2>1, <2>2, <2>3, <2>4
<1>16. CASE Inward(r)
  <2>1. /\ y.iterations = x.iterations /\ y.kind = x.kind /\ d = b
        /\ \/ x.pc = "resolving" /\ y.pc = "resolving"
           \/ x.pc \in {"reading", "writing"} /\ y.pc \in {"reading", "writing"}
    BY <1>16, InwardCounts DEF Inward
  <2> HIDE DEF x, y, b, d
  <2> QED
    BY <1>0, <1>3, <2>1 DEF BookIsKept
<1>17. CASE CloseBatch(r)
  <2>1. /\ x.pc = "writing" /\ y.pc \in {"pausing", "loop"}
        /\ y.iterations = x.iterations /\ y.kind = x.kind
    BY <1>17, EndBatchKeeps, LoopStepCounts DEF CloseBatch, EndBatch
  <2>2. d.usage = b.usage /\ d.sends = b.sends
    BY <1>17 DEF CloseBatch, HarnessTypeOK, Books
  <2> HIDE DEF x, y, b, d
  <2> QED
    BY <1>0, <1>1, <1>3, <2>1, <2>2 DEF BookIsKept
<1> HIDE DEF x, y, b, d
<1>18. Converse(r) => BookIsKept(y, d, config.tokens)
  BY <1>10, <1>11, <1>12, <1>15 DEF Converse, AnswerFinal, AnswerTools
<1> QED
  BY <1>6, <1>7, <1>8, <1>9, <1>13, <1>16, <1>17, <1>18 DEF HStep

LEMMA BooksNext ==
  ASSUME HarnessTypeOK, TypeOK, BooksAreKept, [HNext]_hvars
  PROVE  BooksAreKept'
<1>1. CASE HCrash
  <2>1. \A r \in Requests : book'[r] = Closed /\ run'[r].pc \in {"idle", "done", "failed"}
    BY <1>1, EndedRun, RunFields DEF HCrash, Crash, Active, TypeOK
  <2>2. Closed.sends = 0 /\ Closed.usage = 0
    BY DEF Closed
  <2> QED
    BY <2>1, <2>2 DEF BooksAreKept, BookIsKept
<1>2. CASE UNCHANGED <<run, book, config>>
  BY <1>2 DEF BooksAreKept
<1>3. ASSUME NEW r \in Requests, HArrive(r) \/ HStep(r), UNCHANGED config
      PROVE  BooksAreKept'
  BY <1>3, BookKept, OthersKeep DEF BooksAreKept
<1> QED
  BY <1>1, <1>2, <1>3 DEF HNext, hvars, Quiet, vars

(* What a run has used and asked for is kept at every program counter.     *)
THEOREM BooksKept == HSpec => [](Inv /\ HarnessTypeOK /\ BooksAreKept)
<1>1. HInit => BooksAreKept
  <2>1. Closed.sends = 0 /\ Closed.usage = 0
    BY DEF Closed
  <2> QED
    BY <2>1, StartRun DEF HInit, Init, BooksAreKept, BookIsKept
<1>2. Inv /\ HarnessTypeOK /\ BooksAreKept /\ [HNext]_hvars => BooksAreKept'
  BY BooksNext DEF Inv
<1> QED
  BY <1>1, <1>2, Carries, HarnessTypeCorrect, PTL DEF HSpec

(* Retries included, a request never calls the model more often than its   *)
(* iterations allow, and a resumed run has one iteration less; a limit of  *)
(* zero, on the iterations or on the attempts, means no call at all.       *)
THEOREM SendsBounded == HSpec => []SendsAreBounded
<1>1. Inv /\ HarnessTypeOK /\ BooksAreKept => SendsAreBounded
  <2> SUFFICES ASSUME TypeOK, HarnessTypeOK, BooksAreKept, NEW r \in Requests
               PROVE  book[r].sends <= Left(Seed(run[r]), MaxIterations) * MaxRetries
    BY DEF Inv, SendsAreBounded
  <2> DEFINE x == run[r]
             b == book[r]
             s == Seed(x)
             left == Left(s, MaxIterations)
  <2>1. /\ x.iterations \in Nat /\ x.attempt \in Nat /\ b.sends \in Nat /\ s \in {0, 1}
        /\ MaxIterations \in Nat /\ MaxRetries \in Nat
        /\ BookIsKept(x, b, config.tokens)
    BY RunFields, AgentAssumption DEF TypeOK, HarnessTypeOK, Books, Seed, BooksAreKept
  <2>2. left \in Nat /\ (s < MaxIterations => left = MaxIterations - s)
    BY <2>1 DEF Left
  <2> HIDE DEF x, b, s, left
  <2>3. b.sends = 0 => b.sends <= left * MaxRetries
    BY <2>1, <2>2, Retries
  <2>4. ASSUME b.sends > 0
        PROVE  /\ b.sends <= (x.iterations - s) * MaxRetries
               /\ s < x.iterations /\ x.iterations <= MaxIterations
    <3>1. x.pc \notin {"idle", "done", "failed"}
      BY <2>1, <2>4 DEF BookIsKept, Closed
    <3>2. s <= x.iterations /\ (s < x.iterations => x.iterations <= MaxIterations)
      BY <2>1, <3>1 DEF BookIsKept, s
    <3>3. CASE x.pc # "llm"
      <4>1. b.sends <= (x.iterations - s) * MaxRetries
        BY <2>1, <3>1, <3>3 DEF BookIsKept, s
      <4>2. s = x.iterations => (x.iterations - s) * MaxRetries = 0
        BY <2>1, Retries
      <4> HIDE DEF s
      <4> QED
        BY <2>1, <2>4, <3>2, <4>1, <4>2
    <3>4. CASE x.pc = "llm"
      <4> DEFINE n == x.iterations - s - 1
                 k == n * MaxRetries
      <4>1. x.attempt <= MaxRetries /\ b.sends <= k + x.attempt /\ s < x.iterations
        BY <2>1, <2>4, <3>4 DEF BookIsKept, s
      <4>2. n \in Int /\ k \in Int /\ n + 1 = x.iterations - s
        BY <2>1
      <4>3. (n + 1) * MaxRetries = k + MaxRetries
        BY <4>2, Retries
      <4> HIDE DEF n, k
      <4> QED
        BY <2>1, <3>2, <4>1, <4>2, <4>3
    <3> QED
      BY <3>3, <3>4
  <2>5. ASSUME b.sends > 0 PROVE b.sends <= left * MaxRetries
    <3> DEFINE k == (x.iterations - s) * MaxRetries
               l == left * MaxRetries
    <3>1. x.iterations - s \in Int /\ left \in Int /\ x.iterations - s <= left
      BY <2>1, <2>2, <2>4, <2>5
    <3>2. k <= l /\ k \in Int /\ l \in Int
      BY <2>1, <3>1, Retries
    <3>3. b.sends <= k
      BY <2>4, <2>5
    <3> HIDE DEF k, l
    <3>4. b.sends <= l
      BY <2>1, <3>2, <3>3
    <3> QED
      BY <3>4 DEF l
  <2>6. b.sends <= left * MaxRetries
    BY <2>1, <2>3, <2>5
  <2> QED
    BY <2>6 DEF b, s, x, left
<1> QED
  BY <1>1, BooksKept, PTL

(* What a step adds to the tokens that are used: nothing, or one answer of *)
(* a model that was asked below the limit.                                 *)
LEMMA UsageGrows ==
  ASSUME HarnessTypeOK, TypeOK, BooksAreKept, NEW r \in Requests,
         HArrive(r) \/ HStep(r)
  PROVE  \/ book'[r].usage \in {0, book[r].usage}
         \/ /\ \A n \in config.tokens : book[r].usage < n
            /\ \E tokens \in 0..MaxAnswerTokens :
                  book'[r].usage = book[r].usage + tokens
<1>1. CASE HArrive(r) \/ Inward(r) \/ GiveUp(r)
  BY <1>1 DEF HArrive, Inward, GiveUp
<1>2. CASE StartLoop(r) \/ TimePasses(r) \/ Ask(r) \/ Retry(r) \/ CloseBatch(r)
  BY <1>2 DEF StartLoop, TimePasses, Ask, Retry, Send, CloseBatch, HarnessTypeOK, Books
<1>3. CASE Exhaust(r) \/ Reply(r)
  BY <1>3 DEF Exhaust, Reply, Closed, HarnessTypeOK
<1>4. ASSUME NEW tokens \in 0..MaxAnswerTokens, Uses(r, tokens), run[r].pc = "llm"
      PROVE  /\ \A n \in config.tokens : book[r].usage < n
             /\ book'[r].usage = book[r].usage + tokens
  BY <1>4 DEF Uses, HarnessTypeOK, Books, BooksAreKept, BookIsKept
<1>5. ASSUME NEW reason, NEW calls, NEW tokens \in 0..MaxAnswerTokens,
             AnswerFinal(r, reason, calls, tokens)
      PROVE  Uses(r, tokens) /\ run[r].pc = "llm"
  BY <1>5 DEF AnswerFinal, ModelFinishes
<1>6. ASSUME NEW reason, NEW batch, NEW tokens \in 0..MaxAnswerTokens,
             AnswerTools(r, reason, batch, tokens)
      PROVE  Uses(r, tokens) /\ run[r].pc = "llm"
  BY <1>6 DEF AnswerTools, ModelRequestsTools
<1> QED
  BY <1>1, <1>2, <1>3, <1>4, <1>5, <1>6 DEF HStep, Converse

LEMMA TokensNext ==
  ASSUME HarnessTypeOK, TypeOK, BooksAreKept, TokensOvershootByOneAnswer, [HNext]_hvars
  PROVE  TokensOvershootByOneAnswer'
<1>1. CASE HCrash
  BY <1>1 DEF HCrash, Closed, TokensOvershootByOneAnswer
<1>2. CASE UNCHANGED <<book, config>>
  BY <1>2 DEF TokensOvershootByOneAnswer
<1>3. ASSUME NEW r \in Requests, HArrive(r) \/ HStep(r), UNCHANGED config
      PROVE  TokensOvershootByOneAnswer'
  <2>1. config.tokens \subseteq Nat /\ MaxAnswerTokens \in Nat
    BY HarnessAssumption DEF HarnessTypeOK, Limits
  <2>2. book[r].usage \in Nat
    BY DEF HarnessTypeOK, Books
  <2>3. \A n \in config.tokens :
           book'[r].usage = 0 \/ (n > 0 /\ book'[r].usage < n + MaxAnswerTokens)
    BY <1>3, <2>1, <2>2, UsageGrows DEF TokensOvershootByOneAnswer
  <2> QED
    BY <1>3, <2>3, OthersKeep DEF TokensOvershootByOneAnswer
<1> QED
  BY <1>1, <1>2, <1>3 DEF HNext, hvars

(* The token budget is overshot by one answer at most (checkBudget).       *)
THEOREM TokensBounded == HSpec => []TokensOvershootByOneAnswer
<1>1. HInit => TokensOvershootByOneAnswer
  BY DEF HInit, Closed, TokensOvershootByOneAnswer
<1>2. Inv => TypeOK
  BY DEF Inv
<1> QED
  BY <1>1, <1>2, TokensNext, BooksKept, PTL DEF HSpec

(* Only a run that has heard the model, or whose limits leave no room,     *)
(* comes to its end.                                                       *)
LEMMA FinishesHeard ==
  ASSUME HarnessTypeOK, TypeOK, BooksAreKept, NEW r \in Requests,
         HArrive(r) \/ HStep(r), run'[r].pc = "finishing", run[r].pc # "finishing",
         Sensible
  PROVE  run[r].pc \in {"loop", "llm"} /\ book'[r].sends > 0
<1> DEFINE x == run[r]
           b == book[r]
<1>1. /\ b.sends \in Nat /\ b.usage \in Nat
      /\ x.iterations \in Nat /\ x.attempt \in Nat
      /\ BookIsKept(x, b, config.tokens)
      /\ config.tokens \subseteq Nat /\ config.clock \subseteq Nat
      /\ MaxIterations \in Nat /\ MaxRetries \in Nat
  BY RunFields, HarnessAssumption, AgentAssumption
  DEF HarnessTypeOK, TypeOK, Books, BooksAreKept, Limits
<1>2. CASE HArrive(r)
  BY <1>2, ArriveSeeds DEF HArrive
<1>3. CASE GiveUp(r)
  <2>1. x.pc = "loop" /\ book'[r] = b
    BY <1>3 DEF GiveUp, StopEarly
  <2>2. ASSUME b.sends = 0 PROVE FALSE
    <3>1. /\ b.usage = 0 /\ b.elapsed = 0 /\ x.iterations = Seed(x)
      BY <1>1, <2>1, <2>2 DEF BookIsKept
    <3>2. ~BudgetReached(r) /\ Seed(x) < MaxIterations
      BY <1>1, <3>1 DEF BudgetReached, Reached, Sensible, Positive, Seed
    <3> QED
      BY <1>1, <1>3, <3>1, <3>2 DEF GiveUp
  <2> QED
    BY <1>1, <2>1, <2>2
<1>4. ASSUME NEW tokens, Uses(r, tokens), ModelFinishes(r)
      PROVE  run[r].pc \in {"loop", "llm"} /\ book'[r].sends > 0
  <2>1. x.pc = "llm" /\ x.attempt <= MaxRetries /\ book'[r].sends = b.sends
    BY <1>4 DEF ModelFinishes, Uses, HarnessTypeOK, Books
  <2>2. MaxRetries > 0
    BY <1>1, <2>1 DEF BookIsKept
  <2> QED
    BY <1>1, <2>1, <2>2 DEF BookIsKept
<1>5. ASSUME \/ StartLoop(r) \/ Ask(r) \/ Retry(r) \/ Exhaust(r) \/ Inward(r)
             \/ CloseBatch(r) \/ TimePasses(r) \/ Reply(r)
             \/ \E batch \in Batches : ModelRequestsTools(r, batch)
      PROVE  FALSE
  <2>1. CASE StartLoop(r) \/ Ask(r) \/ CloseBatch(r)
    BY <2>1, LoopStepKeeps, EndBatchKeeps DEF StartLoop, Ask, CloseBatch
  <2>2. CASE Retry(r) \/ Exhaust(r)
    BY <2>2, LoopStepKeeps DEF Retry, Exhaust
  <2>3. CASE Inward(r)
    BY <2>3, InwardCounts
  <2>4. CASE TimePasses(r)
    BY <2>4 DEF TimePasses, vars
  <2>5. CASE Reply(r)
    BY <2>5 DEF Reply, Persist, PersistFails, Becomes, Ended, Start, TypeOK
  <2>6. ASSUME NEW batch \in Batches, ModelRequestsTools(r, batch) PROVE FALSE
    BY <2>6 DEF ModelRequestsTools, Becomes, TypeOK, Runs
  <2> QED
    BY <1>5, <2>1, <2>2, <2>3, <2>4, <2>5, <2>6
<1> QED
  BY <1>2, <1>3, <1>4, <1>5 DEF HStep, Converse, AnswerFinal, AnswerTools

LEMMA HeardNext ==
  ASSUME HarnessTypeOK, TypeOK, BooksAreKept, RepliesHeardTheModel, [HNext]_hvars
  PROVE  RepliesHeardTheModel'
<1>1. CASE HCrash
  <2>1. \A r \in Requests : run'[r].pc \in {"idle", "done", "failed"}
    BY <1>1, EndedRun, RunFields DEF HCrash, Crash, Active, TypeOK
  <2> QED
    BY <2>1 DEF RepliesHeardTheModel
<1>2. CASE UNCHANGED <<run, book, config>>
  BY <1>2 DEF RepliesHeardTheModel, Sensible
<1>3. ASSUME NEW r \in Requests, HArrive(r) \/ HStep(r), UNCHANGED config
      PROVE  RepliesHeardTheModel'
  <2> SUFFICES ASSUME Sensible PROVE run'[r].pc = "finishing" => book'[r].sends > 0
    BY <1>3, OthersKeep DEF RepliesHeardTheModel, Sensible, Positive
  <2>1. CASE run[r].pc = "finishing"
    <3>1. Reply(r)
      BY <1>3, <2>1, ArriveSeeds DEF HArrive, HStep, StartLoop, Resume, GiveUp, StopEarly,
         TimePasses, Converse, Ask, CallModel, Retry, Exhaust, ModelFails, AnswerFinal,
         ModelFinishes, AnswerTools, ModelRequestsTools, Inward, CloseBatch, EndBatch
    <3> QED
      BY <3>1, EndedRun DEF Reply, Persist, PersistFails, Becomes, TypeOK
  <2> QED
    BY <1>3, <2>1, FinishesHeard
<1> QED
  BY <1>1, <1>2, <1>3 DEF HNext, hvars, Quiet, vars

(* No reply without the model, however long the approved tools took.       *)
THEOREM RepliesHeard == HSpec => []RepliesHeardTheModel
<1>1. HInit => RepliesHeardTheModel
  BY StartRun DEF HInit, Init, RepliesHeardTheModel
<1>2. Inv => TypeOK
  BY DEF Inv
<1> QED
  BY <1>1, <1>2, HeardNext, BooksKept, PTL DEF HSpec

-----------------------------------------------------------------------------
(* What a step does to the copy of the handler that takes it.              *)

(* g is h and results of calls that are open in it.                        *)
AddsResults(h, g) ==
    /\ g \in Histories /\ IsPrefix(h, g)
    /\ \A i \in (Len(h) + 1)..Len(g) :
          g[i].role = "tool" /\ g[i].toolCallId \in Pending(h)

LEMMA AddNothing ==
  ASSUME NEW h \in Histories
  PROVE  AddsResults(h, h)
<1>1. Len(h) \in Nat
  BY DEF Histories
<1> QED
  BY <1>1, PrefixSelf DEF AddsResults

LEMMA AddAll ==
  ASSUME NEW h \in Histories, NEW t \in Histories,
         \A k \in DOMAIN t : t[k].role = "tool" /\ t[k].toolCallId \in Pending(h)
  PROVE  AddsResults(h, h \o t)
<1> DEFINE g == h \o t
<1>1. /\ Len(h) \in Nat /\ Len(t) \in Nat /\ DOMAIN t = 1..Len(t)
      /\ Len(g) = Len(h) + Len(t)
      /\ \A k \in 1..Len(t) : g[Len(h) + k] = t[k]
  BY DEF Histories
<1>2. g \in Histories /\ IsPrefix(h, g)
  BY PrefixConcat
<1> HIDE DEF g
<1>3. ASSUME NEW i \in (Len(h) + 1)..Len(g)
      PROVE  g[i].role = "tool" /\ g[i].toolCallId \in Pending(h)
  <2>1. i - Len(h) \in 1..Len(t) /\ i = Len(h) + (i - Len(h))
    BY <1>1
  <2>2. g[i] = t[i - Len(h)]
    BY <1>1, <2>1
  <2> QED
    BY <1>1, <2>1, <2>2
<1>4. AddsResults(h, g)
  BY <1>2, <1>3 DEF AddsResults
<1> QED
  BY <1>4 DEF g

LEMMA AddOne ==
  ASSUME NEW h \in Histories, NEW c \in Pending(h),
         NEW content \in {"result", "REJECTED_BY_USER"}
  PROVE  AddsResults(h, Append(h, ToolMessage(c, content)))
<1> DEFINE m == ToolMessage(c, content)
           g == Append(h, m)
<1>1. m \in Messages /\ m.role = "tool" /\ m.toolCallId = c
  BY DEF Pending, Requested, Messages, ToolMessage
<1> HIDE DEF m
<1>2. /\ g \in Histories /\ Len(h) \in Nat /\ Len(g) = Len(h) + 1
      /\ g[Len(h) + 1] = m /\ IsPrefix(h, g)
  BY <1>1, PrefixAppend DEF Histories
<1> HIDE DEF g
<1>3. AddsResults(h, g)
  BY <1>1, <1>2 DEF AddsResults
<1> QED
  BY <1>3 DEF g, m

(* A handler's step ends it, or records results of calls that are open in  *)
(* its copy, if it changes the copy at all, or adds the batch of the model *)
(* that answers.                                                           *)
LEMMA StepCopies ==
  ASSUME TypeOK, CopiesAreSound, NEW r \in Requests, Step(r)
  PROVE  /\ Active(r)
         /\ \/ run'[r].pc \in {"done", "failed"}
            \/ /\ Active(r)' /\ AddsResults(run[r].messages, run'[r].messages)
               /\ run'[r].messages = run[r].messages \/ run[r].pc \in Answering
               /\ run'[r].pc \in Answering => run[r].pc \in Answering
            \/ \E batch \in Batches :
                  /\ ModelRequestsTools(r, batch) /\ run'[r].pc = "reading"
                  /\ run'[r].messages = Append(run[r].messages, Assistant(batch))
<1> DEFINE x == run[r]
           y == run'[r]
           h == x.messages
           g == y.messages
           Records == /\ Active(r)' /\ AddsResults(h, g)
                      /\ g = h \/ x.pc \in Answering
                      /\ y.pc \in Answering => x.pc \in Answering
<1>1. /\ x \in Runs /\ h \in Histories /\ run \in [Requests -> Runs]
      /\ AddsResults(h, h) /\ SoundCopy(x, issued)
  BY RunFields, AddNothing DEF TypeOK, CopiesAreSound
<1>2. CASE \/ Resume(r) \/ StopEarly(r) \/ CallModel(r) \/ ModelFinishes(r)
           \/ ModelFails(r)
  BY <1>1, <1>2, LoopStepKeeps
  DEF Resume, StopEarly, CallModel, ModelFinishes, ModelFails, Active, Answering
<1>3. ASSUME NEW c \in Calls, ResolveNext(r, c) \/ ExecuteMutating(r, c)
      PROVE  Active(r) /\ Records
  <2>1. /\ x.pc \in {"resolving", "writing"} /\ c \in x.todo
        /\ \E content \in {"result", "REJECTED_BY_USER"} : Answer(r, c, content)
    BY <1>3 DEF ResolveNext, ExecuteMutating, IsNext
  <2>2. PICK content \in {"result", "REJECTED_BY_USER"} : Answer(r, c, content)
    BY <2>1
  <2>3. c \in Pending(h)
    BY <1>1, <2>1 DEF SoundCopy
  <2>4. y = AfterAnswer(x, c, content)
    BY <1>1, <2>2 DEF Answer, Becomes
  <2>5. y.pc = x.pc /\ g = Append(h, ToolMessage(c, content))
    BY <1>1, <2>4 DEF AfterAnswer, Runs
  <2>6. AddsResults(h, g)
    BY <1>1, <2>3, <2>5, AddOne
  <2> HIDE DEF g
  <2> QED
    BY <2>1, <2>5, <2>6 DEF Active, Answering
<1>4. ASSUME NEW batch \in Batches, ModelRequestsTools(r, batch)
      PROVE  /\ Active(r) /\ y.pc = "reading"
             /\ g = Append(h, Assistant(batch))
  BY <1>1, <1>4 DEF ModelRequestsTools, Becomes, Runs, Active
<1>5. ASSUME NEW c \in Calls, ReadOnlySettles(r, c)
      PROVE  Active(r) /\ Records
  BY <1>1, <1>5, SettleKeeps DEF ReadOnlySettles, Active, Answering
<1>6. CASE RecordReadOnly(r)
  <2> DEFINE S == Range(x.response) \cap ReadOnly
  <2>1. x.pc = "reading" /\ S \subseteq Pending(h)
    BY <1>1, <1>6 DEF RecordReadOnly, SoundCopy
  <2>2. S \in SUBSET Calls /\ Cardinality(S) \in Nat
    BY CallsAssumption, Partition, FS_Subset, FS_CardinalityType
  <2>3. PICK s \in Bijection(1..Cardinality(S), S) : \E todo :
           Becomes(r, [run[r] EXCEPT
                         !.pc = "writing",
                         !.messages = @ \o [i \in DOMAIN s |-> ToolMessage(s[i], "result")],
                         !.todo = todo])
    BY <1>6 DEF RecordReadOnly, InOrder
  <2> DEFINE t == [i \in DOMAIN s |-> ToolMessage(s[i], "result")]
  <2>4. y.pc = "writing" /\ g = h \o t
    BY <1>1, <2>3 DEF Becomes, Runs
  <2>5. /\ t \in Histories
        /\ \A i \in DOMAIN t : t[i].role = "tool" /\ t[i].toolCallId \in S
    <3> DEFINE n == Cardinality(S)
    <3>1. n \in Nat /\ s \in [1..n -> S] /\ DOMAIN s = 1..n
      BY <2>2 DEF Bijection, Injection
    <3> HIDE DEF n
    <3>2. \A i \in 1..n : ToolMessage(s[i], "result") \in Messages
      BY <2>2, <3>1 DEF ToolMessage, Messages
    <3> QED
      BY <3>1, <3>2 DEF Histories, ToolMessage
  <2> HIDE DEF t, S
  <2>6. AddsResults(h, h \o t)
    BY <1>1, <2>1, <2>5, AddAll
  <2> QED
    BY <2>1, <2>4, <2>6 DEF Active, Answering
<1>7. CASE EndBatch(r)
  <2>1. y.pc \in {"pausing", "loop"} /\ g = h /\ x.pc = "writing"
    BY <1>7, EndBatchKeeps DEF EndBatch
  <2> QED
    BY <1>1, <2>1 DEF Active, Answering
<1>8. CASE Persist(r) \/ PersistFails(r)
  BY <1>1, <1>8, EndedRun DEF Persist, PersistFails, Becomes, Active
<1> HIDE DEF x, y, h, g
<1>9. \/ Active(r) /\ Records
      \/ Active(r) /\ y.pc \in {"done", "failed"}
      \/ \E batch \in Batches : /\ ModelRequestsTools(r, batch) /\ y.pc = "reading"
                               /\ Active(r) /\ g = Append(h, Assistant(batch))
  BY <1>2, <1>3, <1>4, <1>5, <1>6, <1>7, <1>8 DEF Step, x, y, h, g
<1> QED
  BY <1>9 DEF x, y, h, g

-----------------------------------------------------------------------------
(* What the fake provider records.                                         *)

(* g begins with h, and no user turn was added since.                      *)
Continues(h, g) ==
    IsPrefix(h, g) /\ \A i \in (Len(h) + 1)..Len(g) : g[i] # User

LEMMA ContinueTrans ==
  ASSUME NEW f \in Histories, NEW g \in Histories, NEW h \in Histories,
         Continues(f, g), Continues(g, h)
  PROVE  Continues(f, h)
<1>1. Len(f) \in Nat /\ Len(g) \in Nat /\ Len(h) \in Nat
  BY DEF Histories
<1>2. /\ Len(f) <= Len(g) /\ Len(g) <= Len(h)
      /\ \A i \in 1..Len(g) : h[i] = g[i]
  BY PrefixIndex DEF Continues
<1>3. IsPrefix(f, h)
  BY PrefixTrans DEF Continues
<1>4. ASSUME NEW i \in (Len(f) + 1)..Len(h) PROVE h[i] # User
  <2>1. CASE i <= Len(g)
    BY <1>1, <1>2, <2>1 DEF Continues
  <2>2. CASE ~(i <= Len(g))
    BY <1>1, <1>2, <2>2 DEF Continues
  <2> QED
    BY <2>1, <2>2
<1> QED
  BY <1>3, <1>4 DEF Continues

(* A handler that goes on adds results and turns of the model, no user.    *)
LEMMA StepContinues ==
  ASSUME TypeOK, CopiesAreSound, NEW r \in Requests, HStep(r)
  PROVE  /\ Active(r) /\ run'[r].pc # "idle"
         /\ Active(r)' => /\ run'[r].messages \in Histories
                          /\ Continues(run[r].messages, run'[r].messages)
<1> DEFINE h == run[r].messages
           g == run'[r].messages
<1>1. h \in Histories /\ Len(h) \in Nat /\ IsPrefix(h, h)
  BY RunFields, PrefixSelf DEF TypeOK, Histories
<1>2. Continues(h, h)
  BY <1>1 DEF Continues
<1>3. CASE TimePasses(r)
  BY <1>1, <1>2, <1>3 DEF TimePasses, vars, Active
<1>4. ASSUME AddsResults(h, g) PROVE g \in Histories /\ Continues(h, g)
  BY <1>4 DEF AddsResults, Continues, User
<1>5. ASSUME NEW batch \in Batches, g = Append(h, Assistant(batch))
      PROVE  g \in Histories /\ Continues(h, g)
  <2> DEFINE m == Assistant(batch)
  <2>1. batch \in Seq(Calls)
    BY BatchFacts DEF TypeOK
  <2>2. m \in Messages /\ m # User
    BY <2>1 DEF Assistant, Messages, User
  <2> HIDE DEF m
  <2>3. /\ g \in Histories /\ Len(g) = Len(h) + 1 /\ g[Len(h) + 1] = m
        /\ IsPrefix(h, g)
    BY <1>1, <1>5, <2>2, PrefixAppend DEF m, Histories
  <2> QED
    BY <1>1, <2>2, <2>3 DEF Continues
<1>6. ASSUME Step(r) PROVE Active(r) /\ run'[r].pc # "idle"
                           /\ (Active(r)' => g \in Histories /\ Continues(h, g))
  <2> HIDE DEF g, h
  <2>1. \/ run'[r].pc \in {"done", "failed"}
        \/ Active(r)' /\ AddsResults(h, g)
        \/ \E batch \in Batches : run'[r].pc = "reading" /\ g = Append(h, Assistant(batch))
    BY <1>6, StepCopies DEF g, h
  <2>2. Active(r)
    BY <1>6, StepCopies
  <2> QED
    BY <1>4, <1>5, <2>1, <2>2 DEF Active
<1> QED
  BY <1>3, <1>6, StepRefines

LEMMA RecordingFields ==
  ASSUME HarnessTypeOK
  PROVE  /\ Len(requests) \in Nat /\ DOMAIN requests = 1..Len(requests)
         /\ \A k \in DOMAIN requests :
               requests[k].by \in Requests /\ requests[k].sent \in Histories
<1>1. requests \in Seq(Recordings)
  BY DEF HarnessTypeOK
<1>2. \A k \in DOMAIN requests : requests[k] \in Recordings
  BY <1>1
<1> QED
  BY <1>1, <1>2 DEF Recordings

(* A step records nothing, or once what the model is sent.                 *)
LEMMA StepRecords ==
  ASSUME HarnessTypeOK, TypeOK, NEW r \in Requests, HArrive(r) \/ HStep(r)
  PROVE  \/ /\ requests' = requests
            /\ book'[r].sends # book[r].sends =>
                  config.provider # "fake" \/ run'[r].pc \in {"done", "failed"}
         \/ /\ Len(requests') = Len(requests) + 1
            /\ DOMAIN requests' = 1..(Len(requests) + 1)
            /\ \A k \in DOMAIN requests : requests'[k] = requests[k]
            /\ requests'[Len(requests) + 1].by = r
            /\ requests'[Len(requests) + 1].sent = run[r].messages
            /\ book'[r].sends = book[r].sends + 1
            /\ Active(r) /\ run'[r].messages = run[r].messages
<1> DEFINE entry == [by |-> r, sent |-> run[r].messages]
<1>1. book[r] \in Books /\ book \in [Requests -> Books]
  BY DEF HarnessTypeOK
<1>2. ASSUME Ask(r) \/ Retry(r), Send(r)
      PROVE  \/ requests' = requests /\ config.provider # "fake"
             \/ /\ Len(requests') = Len(requests) + 1
                /\ DOMAIN requests' = 1..(Len(requests) + 1)
                /\ \A k \in DOMAIN requests : requests'[k] = requests[k]
                /\ requests'[Len(requests) + 1].by = r
                /\ requests'[Len(requests) + 1].sent = run[r].messages
                /\ book'[r].sends = book[r].sends + 1
                /\ Active(r) /\ run'[r].messages = run[r].messages
  <2>1. /\ book'[r].sends = book[r].sends + 1
        /\ requests' = IF config.provider = "fake" THEN Append(requests, entry)
                       ELSE requests
    BY <1>1, <1>2 DEF Send, Books
  <2>2. Active(r) /\ run'[r].messages = run[r].messages
    BY <1>2, LoopStepKeeps DEF Ask, CallModel, Retry, ModelFails, Active
  <2>3. entry.by = r /\ entry.sent = run[r].messages
    OBVIOUS
  <2>4. entry \in Recordings /\ requests \in Seq(Recordings)
    BY RunFields DEF HarnessTypeOK, TypeOK, Recordings
  <2> HIDE DEF entry
  <2>5. CASE requests' = Append(requests, entry)
    <3>1. /\ Len(requests') = Len(requests) + 1
          /\ DOMAIN requests' = 1..(Len(requests) + 1)
          /\ \A k \in DOMAIN requests : requests'[k] = requests[k]
          /\ requests'[Len(requests) + 1] = entry
      BY <2>4, <2>5
    <3> QED
      BY <2>1, <2>2, <2>3, <3>1
  <2>6. CASE requests' = requests /\ config.provider # "fake"
    BY <2>6
  <2> QED
    BY <2>1, <2>5, <2>6
<1>3. CASE Exhaust(r) \/ Reply(r)
  <2>1. run[r].attempt \in Nat /\ MaxRetries \in Nat
    BY RunFields, AgentAssumption DEF TypeOK
  <2>2. CASE Exhaust(r)
    BY <2>1, <2>2, LoopStepKeeps DEF Exhaust
  <2>3. CASE Reply(r)
    BY <2>3, EndedRun DEF Reply, Persist, PersistFails, Becomes, TypeOK
  <2> QED
    BY <1>3, <2>2, <2>3
<1>4. CASE HArrive(r) \/ Inward(r) \/ GiveUp(r)
  BY <1>4 DEF HArrive, Inward, GiveUp
<1>5. CASE StartLoop(r) \/ TimePasses(r) \/ CloseBatch(r)
  <2>1. requests' = requests
    BY <1>5 DEF StartLoop, TimePasses, CloseBatch
  <2>2. book'[r].sends = book[r].sends
    BY <1>1, <1>5 DEF StartLoop, TimePasses, CloseBatch, Books
  <2> QED
    BY <2>1, <2>2
<1>6. ASSUME NEW tokens, Uses(r, tokens), UNCHANGED requests
      PROVE  requests' = requests /\ book'[r].sends = book[r].sends
  BY <1>1, <1>6 DEF Uses, Books
<1>7. CASE UNCHANGED <<book, requests>>
  BY <1>7
<1>8. Ask(r) \/ Retry(r) => Send(r) \/ UNCHANGED <<book, requests>>
  BY DEF Ask, Retry
<1> HIDE DEF entry
<1> QED
  BY <1>2, <1>3, <1>4, <1>5, <1>6, <1>7, <1>8 DEF HStep, Converse, AnswerFinal, AnswerTools

(* What of an array a recorded request refers to is not lost.              *)
LEMMA ArraysNext ==
  ASSUME HarnessTypeOK, TypeOK, CopiesAreSound, ArraysAreLive, [HNext]_hvars
  PROVE  ArraysAreLive'
<1>1. \A k \in DOMAIN requests : run[requests[k].by].pc # "idle"
  BY DEF ArraysAreLive
<1>2. HNext => \A r \in Requests : Active(r)' => array'[r] = run'[r].messages
  BY DEF HNext, Alias
<1>3. ASSUME HCrash
      PROVE  \A k \in DOMAIN requests' : run'[requests'[k].by].pc # "idle"
  BY <1>3 DEF HCrash
<1>4. ASSUME NEW r \in Requests, HArrive(r) \/ HStep(r)
      PROVE  \A k \in DOMAIN requests' : run'[requests'[k].by].pc # "idle"
  <2>1. /\ run'[r].pc # "idle"
        /\ \A q \in Requests \ {r} : run'[q] = run[q]
    BY <1>4, ArriveSeeds, StepContinues, OthersKeep DEF HArrive
  <2> QED
    BY <1>1, <1>4, <2>1, StepRecords, RecordingFields
<1>5. HNext => \A k \in DOMAIN requests' : run'[requests'[k].by].pc # "idle"
  <2>1. Quiet /\ UNCHANGED <<book, requests>> =>
           \A k \in DOMAIN requests' : run'[requests'[k].by].pc # "idle"
    BY <1>1 DEF Quiet, vars
  <2> QED
    BY <1>3, <1>4, <2>1 DEF HNext
<1>6. UNCHANGED hvars => ArraysAreLive'
  BY DEF hvars, vars, ArraysAreLive, Active
<1> QED
  BY <1>2, <1>5, <1>6 DEF ArraysAreLive

(* The requests of q that are recorded.                                    *)
RecordedOf(q) == { k \in DOMAIN requests : requests[k].by = q }

(* The recorder as each of its parts sees it.                              *)
LiveArrays ==
    \A k \in DOMAIN requests : Continues(requests[k].sent, array[requests[k].by])

AllRecorded ==
    config.provider = "fake" => \A r \in Requests : Active(r) =>
        book[r].sends = Cardinality(RecordedOf(r))

LEMMA RecorderParts == RecordedRequests <=> LiveArrays /\ AllRecorded
BY DEF RecordedRequests, LiveArrays, AllRecorded, RecordedOf, Continues

LEMMA ArraysContinue ==
  ASSUME HarnessTypeOK, TypeOK, CopiesAreSound, ArraysAreLive, LiveArrays,
         [HNext]_hvars
  PROVE  LiveArrays'
<1>1. \A k \in DOMAIN requests :
         /\ requests[k].by \in Requests /\ requests[k].sent \in Histories
         /\ array[requests[k].by] \in Histories
         /\ Continues(requests[k].sent, array[requests[k].by])
  BY RecordingFields DEF HarnessTypeOK, LiveArrays
<1>2. CASE UNCHANGED hvars
  BY <1>2 DEF hvars, LiveArrays
<1>3. HCrash => LiveArrays'
  BY DEF HCrash, LiveArrays
<1>4. ASSUME Quiet, UNCHANGED requests, Alias PROVE LiveArrays'
  <2>1. ASSUME NEW k \in DOMAIN requests PROVE array'[requests[k].by] = array[requests[k].by]
    <3>1. requests[k].by \in Requests /\ requests' = requests
      BY <1>1, <1>4
    <3>2. ~Active(requests[k].by)'
      BY <1>4, <3>1 DEF Quiet, vars, Active
    <3> QED
      BY <3>1, <3>2, <1>4 DEF Alias
  <2> QED
    BY <1>1, <1>4, <2>1 DEF LiveArrays
<1>5. ASSUME NEW r \in Requests, HArrive(r) \/ HStep(r), Alias PROVE LiveArrays'
  <2>1. /\ \A q \in Requests \ {r} : run'[q] = run[q]
        /\ \A k \in DOMAIN requests :
              /\ k \in DOMAIN requests' /\ requests'[k] = requests[k]
              /\ run[requests[k].by].pc # "idle"
    BY <1>5, OthersKeep, StepRecords, RecordingFields DEF ArraysAreLive
  <2>2. ASSUME NEW k \in DOMAIN requests
        PROVE  Continues(requests'[k].sent, array'[requests'[k].by])
    <3>0. PICK q \in Requests, f \in Histories :
             q = requests[k].by /\ f = requests[k].sent
      BY <1>1
    <3>1. /\ array[q] \in Histories
          /\ Continues(f, array[q]) /\ requests'[k] = requests[k]
          /\ requests'[k].by = q /\ requests'[k].sent = f
          /\ run[q].pc # "idle"
          /\ \E l \in DOMAIN requests' : requests'[l].by = q
      BY <1>1, <2>1, <3>0
    <3>2. array'[q] = IF Active(q)' THEN run'[q].messages ELSE array[q]
      BY <1>5, <3>1 DEF Alias
    <3>3. CASE q # r /\ Active(q)'
      <4>1. Active(q) /\ run'[q].messages = run[q].messages
        BY <2>1, <3>1, <3>3 DEF Active
      <4>2. array'[q] = array[q]
        BY <3>1, <3>2, <3>3, <4>1 DEF ArraysAreLive
      <4> QED
        BY <3>1, <4>2
    <3>4. CASE q = r /\ Active(q)'
      <4>1. HStep(r)
        BY <1>5, <3>1, <3>4, ArriveSeeds DEF HArrive
      <4>2. Active(r) /\ run'[r].messages \in Histories
            /\ Continues(run[r].messages, run'[r].messages)
        BY <3>4, <4>1, StepContinues
      <4>3. array[q] = run[r].messages /\ array'[q] = run'[r].messages
        BY <3>1, <3>2, <3>4, <4>2 DEF ArraysAreLive
      <4> QED
        BY <3>1, <4>2, <4>3, ContinueTrans
    <3>5. CASE ~Active(q)'
      BY <3>1, <3>2, <3>5
    <3> QED
      BY <3>3, <3>4, <3>5
  <2>3. ASSUME requests' # requests
        PROVE  LET k == Len(requests) + 1
               IN  Continues(requests'[k].sent, array'[requests'[k].by])
    <3> DEFINE k == Len(requests) + 1
    <3>1. /\ requests'[k].by = r /\ requests'[k].sent = run[r].messages
          /\ Active(r) /\ run'[r].messages = run[r].messages
          /\ k \in DOMAIN requests'
      BY <1>5, <2>3, StepRecords, RecordingFields
    <3>2. HStep(r)
      BY <1>5, <3>1, ArriveSeeds DEF HArrive, Active
    <3>3. Continues(run[r].messages, run[r].messages)
      <4>1. run[r].messages \in Histories
        BY RunFields DEF TypeOK
      <4>2. IsPrefix(run[r].messages, run[r].messages) /\ Len(run[r].messages) \in Nat
        BY <4>1, PrefixSelf DEF Histories
      <4> QED
        BY <4>2 DEF Continues
    <3>4. array'[r] = run[r].messages
      <4>1. array[r] = run[r].messages
        BY <3>1 DEF ArraysAreLive
      <4>2. \E l \in DOMAIN requests' : requests'[l].by = r
        BY <3>1
      <4> QED
        BY <1>5, <3>1, <4>1, <4>2 DEF Alias
    <3> HIDE DEF k
    <3>5. Continues(requests'[k].sent, array'[requests'[k].by])
      BY <3>1, <3>3, <3>4
    <3> QED
      BY <3>5 DEF k
  <2>4. \A k \in DOMAIN requests' :
           \/ k \in DOMAIN requests
           \/ requests' # requests /\ k = Len(requests) + 1
    BY <1>5, StepRecords, RecordingFields
  <2> QED
    BY <2>2, <2>3, <2>4 DEF LiveArrays
<1> QED
  BY <1>2, <1>3, <1>4, <1>5 DEF HNext

LEMMA RecordingsCount ==
  ASSUME HarnessTypeOK, TypeOK, CopiesAreSound, BooksAreKept, ArraysAreLive,
         AllRecorded, [HNext]_hvars
  PROVE  AllRecorded'
<1>1. UNCHANGED config
  BY DEF HNext, hvars
<1> SUFFICES ASSUME config.provider = "fake", NEW q \in Requests, Active(q)'
             PROVE  book'[q].sends = Cardinality(RecordedOf(q)')
  BY <1>1 DEF AllRecorded
<1>2. Active(q) => book[q].sends = Cardinality(RecordedOf(q))
  BY DEF AllRecorded
<1>3. CASE UNCHANGED <<run, book, requests>>
  BY <1>2, <1>3 DEF RecordedOf, Active
<1>4. HCrash => ~Active(q)'
  BY EndedRun DEF HCrash, Crash, Active
<1>5. ASSUME NEW r \in Requests, HArrive(r) \/ HStep(r)
      PROVE  book'[q].sends = Cardinality(RecordedOf(q)')
  <2>1. /\ Len(requests) \in Nat /\ DOMAIN requests = 1..Len(requests)
        /\ \A p \in Requests \ {r} : run'[p] = run[p] /\ book'[p] = book[p]
    BY <1>5, OthersKeep, RecordingFields
  <2>2. CASE HArrive(r) /\ q = r
    <3>1. /\ run[r].pc = "idle" /\ requests' = requests /\ book' = book
      BY <2>2, ArriveSeeds DEF HArrive
    <3>2. book'[q].sends = 0
      BY <2>2, <3>1 DEF BooksAreKept, BookIsKept, Closed
    <3>3. RecordedOf(q)' = {}
      BY <2>2, <3>1 DEF RecordedOf, ArraysAreLive
    <3> QED
      BY <3>2, <3>3, FS_EmptySet
  <2>3. CASE HStep(r) \/ q # r
    <3>1. Active(q)
      BY <2>1, <2>3, StepContinues DEF Active
    <3>2. CASE requests' = requests
      <4>1. book'[q].sends = book[q].sends
        <5>1. Len(requests') = Len(requests)
          BY <3>2
        <5>2. run'[q].pc \notin {"done", "failed"}
          BY DEF Active
        <5>3. ASSUME q = r PROVE book'[r].sends = book[r].sends
          <6>1. Len(requests) + 1 # Len(requests)
            <7>1. Len(requests) \in Nat
              BY <2>1
            <7> QED
              BY <7>1
          <6>2. \/ book'[r].sends # book[r].sends =>
                      config.provider # "fake" \/ run'[r].pc \in {"done", "failed"}
                \/ Len(requests') = Len(requests) + 1
            BY <1>5, StepRecords
          <6> QED
            BY <5>1, <5>2, <5>3, <6>1, <6>2
        <5> QED
          BY <2>1, <5>3
      <4>2. RecordedOf(q)' = RecordedOf(q)
        BY <3>2 DEF RecordedOf
      <4> QED
        BY <1>2, <3>1, <4>1, <4>2
    <3>3. CASE requests' # requests
      <4> DEFINE n == Len(requests) + 1
      <4>1. /\ DOMAIN requests' = 1..n /\ requests'[n].by = r
            /\ \A k \in DOMAIN requests : requests'[k] = requests[k]
            /\ book'[r].sends = book[r].sends + 1
        BY <1>5, <3>3, StepRecords
      <4>2. RecordedOf(q)' = IF q = r THEN RecordedOf(q) \cup {n} ELSE RecordedOf(q)
        BY <2>1, <4>1 DEF RecordedOf
      <4>3. IsFiniteSet(RecordedOf(q)) /\ n \notin RecordedOf(q)
        <5>1. RecordedOf(q) \subseteq 1..Len(requests)
          BY <2>1 DEF RecordedOf
        <5>2. IsFiniteSet(1..Len(requests)) /\ n \notin 1..Len(requests)
          BY <2>1, FS_Interval
        <5> QED
          BY <5>1, <5>2, FS_Subset
      <4>4. Cardinality(RecordedOf(q) \cup {n}) = Cardinality(RecordedOf(q)) + 1
        BY <4>3, FS_AddElement
      <4> QED
        BY <1>2, <2>1, <3>1, <4>1, <4>2, <4>4
    <3> QED
      BY <3>2, <3>3
  <2> QED
    BY <1>5, <2>2, <2>3
<1> QED
  BY <1>3, <1>4, <1>5 DEF HNext, hvars, Quiet, vars

(* What a test finds in the fake's requests: every call of complete, each  *)
(* with a history that begins with what was sent and in which the last     *)
(* user message is the one that was sent, though the array grew since.     *)
THEOREM RecordingsKept == HSpec => [](RecordedRequests /\ ArraysAreLive)
<1>1. HInit => LiveArrays /\ AllRecorded /\ ArraysAreLive
  BY StartRun DEF HInit, Init, LiveArrays, AllRecorded, ArraysAreLive, Active
<1>2. Inv => TypeOK /\ CopiesAreSound
  BY DEF Inv
<1>3. Inv /\ HarnessTypeOK /\ BooksAreKept /\ ArraysAreLive /\ LiveArrays /\ AllRecorded
         /\ [HNext]_hvars
         => ArraysAreLive' /\ LiveArrays' /\ AllRecorded'
  BY <1>2, ArraysNext, ArraysContinue, RecordingsCount
<1> QED
  BY <1>1, <1>3, BooksKept, RecorderParts, PTL DEF HSpec

-----------------------------------------------------------------------------
(* A vendor that refuses unpaired calls.                                   *)

(* The turns of Anthropic: which calls one makes and answers.              *)
LEMMA AnthropicTurn ==
  ASSUME NEW m \in Messages
  PROVE  LET turn == ToAnthropicMessage(m)
         IN  /\ m.role = "assistant" =>
                   /\ Makes("anthropic", turn) = Range(m.toolCalls)
                   /\ Answers("anthropic", turn) = {}
             /\ m.role = "tool" => Answers("anthropic", turn) = {m.toolCallId}
             /\ m.role = "user" => /\ Makes("anthropic", turn) = {}
                                   /\ Answers("anthropic", turn) = {}
<1> DEFINE turn == ToAnthropicMessage(m)
<1>1. CASE m.role = "user"
  BY <1>1 DEF ToAnthropicMessage, Text, Makes, Answers, BlockIds, ToolUse, ToolResult
<1>2. CASE m.role = "tool"
  <2>1. m.toolCallId \in Calls
    BY <1>2 DEF Messages, User
  <2>2. turn.content = <<ToolResult(m.toolCallId)>>
    BY <1>2 DEF ToAnthropicMessage
  <2> HIDE DEF turn
  <2>3. Answers("anthropic", turn) = {m.toolCallId}
    BY <2>1, <2>2 DEF Answers, BlockIds, ToolResult
  <2> QED
    BY <1>2, <2>3 DEF turn
<1>3. CASE m.role = "assistant"
  <2>1. m.toolCalls \in Seq(Calls)
    BY <1>3 DEF Messages, User
  <2>2. turn.content = IF m.toolCalls = << >> THEN <<Text>>
                       ELSE [i \in DOMAIN m.toolCalls |-> ToolUse(m.toolCalls[i])]
    BY <1>3 DEF ToAnthropicMessage
  <2> HIDE DEF turn
  <2>3. CASE m.toolCalls = << >>
    BY <2>2, <2>3, <1>3 DEF Makes, Answers, BlockIds, ToolUse, ToolResult, Text, Range, turn
  <2>4. CASE m.toolCalls # << >>
    <3>1. \A c \in Calls : (\E i \in DOMAIN turn.content : turn.content[i] = ToolUse(c))
                              <=> c \in Range(m.toolCalls)
      <4>1. /\ DOMAIN turn.content = DOMAIN m.toolCalls
            /\ \A i \in DOMAIN m.toolCalls : turn.content[i] = ToolUse(m.toolCalls[i])
        BY <2>2, <2>4
      <4>2. \A c, d \in Calls : ToolUse(c) = ToolUse(d) => c = d
        BY DEF ToolUse
      <4>3. \A i \in DOMAIN m.toolCalls : m.toolCalls[i] \in Calls
        BY <2>1
      <4> QED
        BY <4>1, <4>2, <4>3 DEF Range
    <3>2. \A c \in Calls, i \in DOMAIN turn.content : turn.content[i] # ToolResult(c)
      BY <2>1, <2>2, <2>4 DEF ToolUse, ToolResult
    <3>3. Range(m.toolCalls) \subseteq Calls
      BY <2>1 DEF Range
    <3>4. Makes("anthropic", turn) = Range(m.toolCalls) /\ Answers("anthropic", turn) = {}
      BY <3>1, <3>2, <3>3 DEF Makes, Answers, BlockIds
    <3> QED
      BY <1>3, <3>4 DEF turn
  <2> QED
    BY <2>3, <2>4
<1> QED
  BY <1>1, <1>2, <1>3 DEF Messages, User

(* And those of the OpenAI shape.                                          *)
LEMMA OpenAiTurn ==
  ASSUME NEW m \in Messages
  PROVE  LET turn == ToOpenAiMessage(m)
         IN  /\ m.role = "assistant" =>
                   /\ Makes("groq", turn) = Range(m.toolCalls)
                   /\ Answers("groq", turn) = {}
             /\ m.role = "tool" => Answers("groq", turn) = {m.toolCallId}
             /\ m.role = "user" => Makes("groq", turn) = {} /\ Answers("groq", turn) = {}
<1>1. CASE m.role = "user"
  BY <1>1 DEF ToOpenAiMessage, Answers, Makes
<1>2. CASE m.role = "tool"
  BY <1>2 DEF ToOpenAiMessage, Answers
<1>3. CASE m.role = "assistant"
  BY <1>3 DEF ToOpenAiMessage, Answers, Makes, Range
<1> QED
  BY <1>1, <1>2, <1>3 DEF Messages, User

(* What a vendor reads: the turns of the history, in one vendor's shape    *)
(* after a turn of the system, which makes and answers nothing.            *)
Reads(p, m, turn) ==
    /\ m.role = "assistant" => Makes(p, turn) = Range(m.toolCalls) /\ Answers(p, turn) = {}
    /\ m.role = "tool" => Answers(p, turn) = {m.toolCallId}
    /\ m.role = "user" => Makes(p, turn) = {} /\ Answers(p, turn) = {}

LEMMA WireTurns ==
  ASSUME NEW p \in Strict, NEW h \in Histories
  PROVE  \E o \in {0, 1} :
            /\ Len(Wire(p, h)) = Len(h) + o /\ DOMAIN Wire(p, h) = 1..(Len(h) + o)
            /\ \A i \in DOMAIN h : Reads(p, h[i], Wire(p, h)[i + o])
            /\ o = 1 => Makes(p, Wire(p, h)[1]) = {} /\ Answers(p, Wire(p, h)[1]) = {}
<1> DEFINE wire == Wire(p, h)
           Shifted(o) == /\ Len(wire) = Len(h) + o /\ DOMAIN wire = 1..(Len(h) + o)
                         /\ \A i \in DOMAIN h : Reads(p, h[i], wire[i + o])
                         /\ o = 1 => Makes(p, wire[1]) = {} /\ Answers(p, wire[1]) = {}
<1> SUFFICES \E o \in {0, 1} : Shifted(o)
  OBVIOUS
<1>1. /\ h \in Seq(Messages) /\ Len(h) \in Nat /\ DOMAIN h = 1..Len(h)
      /\ \A i \in DOMAIN h : h[i] \in Messages
  BY DEF Histories
<1>2. CASE p = "anthropic"
  <2>1. wire = [i \in 1..Len(h) |-> ToAnthropicMessage(h[i])]
    BY <1>1, <1>2 DEF Wire, ToAnthropicMessages
  <2> HIDE DEF wire
  <2>2. wire \in Seq(Range(wire)) /\ DOMAIN wire = 1..Len(h)
    BY <1>1, <2>1 DEF Range
  <2>3. Len(wire) = Len(h) + 0 /\ DOMAIN wire = 1..(Len(h) + 0)
    BY <1>1, <2>2
  <2>4. ASSUME NEW i \in DOMAIN h PROVE Reads(p, h[i], wire[i + 0])
    <3>1. wire[i + 0] = ToAnthropicMessage(h[i]) /\ h[i] \in Messages
      BY <1>1, <2>1, <2>4
    <3> QED
      BY <1>2, <3>1, AnthropicTurn DEF Reads
  <2>5. Shifted(0)
    BY <2>3, <2>4
  <2> HIDE DEF Shifted
  <2> QED
    BY <2>5
<1>3. CASE p = "groq"
  <2> DEFINE turns == [i \in DOMAIN h |-> ToOpenAiMessage(h[i])]
             system == [role |-> "system"]
  <2>1. turns \in Seq(Range(turns) \cup {system}) /\ Len(turns) = Len(h)
    BY <1>1 DEF Range
  <2>2. <<system>> \in Seq(Range(turns) \cup {system})
    OBVIOUS
  <2>3. wire = <<system>> \o turns
    BY <1>3 DEF Wire, ToOpenAiMessages
  <2>4. Makes("groq", system) = {} /\ Answers("groq", system) = {}
    BY DEF Makes, Answers
  <2>5. \A i \in DOMAIN h : turns[i] = ToOpenAiMessage(h[i])
    OBVIOUS
  <2> HIDE DEF turns, system, wire
  <2>6. /\ Len(wire) = Len(h) + 1 /\ DOMAIN wire = 1..(Len(h) + 1) /\ wire[1] = system
        /\ \A i \in DOMAIN h : wire[i + 1] = turns[i]
    BY <1>1, <2>1, <2>2, <2>3
  <2>7. ASSUME NEW i \in DOMAIN h PROVE Reads(p, h[i], wire[i + 1])
    <3>1. wire[i + 1] = ToOpenAiMessage(h[i]) /\ h[i] \in Messages
      BY <1>1, <2>5, <2>6, <2>7
    <3> QED
      BY <1>3, <3>1, OpenAiTurn DEF Reads
  <2>8. Shifted(1)
    BY <1>3, <2>4, <2>6, <2>7
  <2> HIDE DEF Shifted
  <2> QED
    BY <2>8
<1> QED
  BY <1>2, <1>3 DEF Strict

(* A history that a strict vendor takes has no unanswered call.            *)
LEMMA AcceptedIsPaired ==
  ASSUME NEW p \in Strict, NEW h \in Histories, Accepts(p, h)
  PROVE  Pending(h) = {}
<1> DEFINE wire == Wire(p, h)
<1>1. /\ Len(h) \in Nat /\ DOMAIN h = 1..Len(h)
      /\ \A i \in DOMAIN h : h[i].role \in {"user", "tool", "assistant"}
  BY MessageKinds DEF Histories
<1>2. \A i \in DOMAIN wire : Answers(p, wire[i]) = {} =>
         Makes(p, wire[i]) = ResultsAfter(p, wire, i)
  BY DEF Accepts
<1>3. PICK o \in {0, 1} :
         /\ Len(wire) = Len(h) + o /\ DOMAIN wire = 1..(Len(h) + o)
         /\ \A i \in DOMAIN h : Reads(p, h[i], wire[i + o])
         /\ o = 1 => Makes(p, wire[1]) = {} /\ Answers(p, wire[1]) = {}
  BY WireTurns
<1> HIDE DEF wire
<1>4. ASSUME NEW c \in Requested(h) PROVE c \in Answered(h)
  <2>1. PICK i \in DOMAIN h : h[i].role = "assistant" /\ c \in Range(h[i].toolCalls)
    BY DEF Requested, IsRequest
  <2>2. i + o \in DOMAIN wire /\ i + o \in Nat
    BY <1>1, <1>3
  <2>3. c \in ResultsAfter(p, wire, i + o)
    BY <1>2, <1>3, <2>1, <2>2 DEF Reads
  <2>4. PICK j \in (i + o + 1)..Len(wire) : c \in Answers(p, wire[j])
    BY <2>3 DEF ResultsAfter
  <2>5. CASE j - o \in DOMAIN h /\ j = j - o + o
    <3>1. h[j - o].role = "tool" /\ h[j - o].toolCallId = c
      BY <1>1, <1>3, <2>4, <2>5 DEF Reads
    <3> QED
      BY <2>5, <3>1 DEF Answered, IsAnswer, Requested
  <2> QED
    BY <1>1, <1>3, <2>2, <2>4, <2>5
<1> QED
  BY <1>4 DEF Pending

(* Under such a vendor a handler's step opens nothing outside its batch,   *)
(* and asks for what is open when it pauses.                               *)
LEMMA OpenKept ==
  ASSUME HarnessTypeOK, TypeOK, CopiesAreSound, BooksAreKept,
         NEW r \in Requests, HArrive(r) \/ HStep(r),
         config.provider \in Strict, Sensible,
         OpenIsKept(run[r], book[r])
  PROVE  OpenIsKept(run'[r], book'[r])
<1> DEFINE x == run[r]
           b == book[r]
           y == run'[r]
           d == book'[r]
           open == Pending(x.messages)
           still == Pending(y.messages)
<1> SUFFICES OpenIsKept(y, d)
  OBVIOUS
<1>0. OpenIsKept(x, b) /\ BookIsKept(x, b, config.tokens) /\ SoundCopy(x, issued)
  BY DEF BooksAreKept, CopiesAreSound
<1>1. /\ x \in Runs /\ x.messages \in Histories /\ b.sends \in Nat
      /\ book \in [Requests -> Books] /\ run \in [Requests -> Runs]
  BY RunFields DEF HarnessTypeOK, TypeOK, Books
<1>2. Closed.sends = 0 /\ Closed.asked = {}
  BY DEF Closed
<1>3. ASSUME y.pc \in {"resolving", "llm", "done", "failed"}, d.asked = {}
      PROVE  OpenIsKept(y, d)
  BY <1>3 DEF OpenIsKept, OpenInBatch
<1>4. CASE HArrive(r)
  <2>1. d = Closed /\ y.pc \in {"loop", "resolving", "failed"}
    BY <1>0, <1>4, ArriveSeeds DEF HArrive, BookIsKept
  <2> HIDE DEF y, d
  <2> QED
    BY <1>2, <2>1 DEF OpenIsKept, OpenInBatch
<1>5. CASE StartLoop(r)
  <2>1. x.pc = "resolving" /\ y.pc = "loop"
    BY <1>5, LoopStepKeeps DEF StartLoop, Resume
  <2>2. d.sends = 0 /\ d.asked = {}
    BY <1>0, <1>1, <1>5, <2>1 DEF StartLoop, BookIsKept, OpenIsKept, Books
  <2> HIDE DEF y, d
  <2> QED
    BY <2>1, <2>2 DEF OpenIsKept, OpenInBatch
<1>6. CASE GiveUp(r)
  <2>1. x.pc = "loop" /\ y.pc = "finishing" /\ still = open /\ d = b
    BY <1>6, LoopStepKeeps DEF GiveUp, StopEarly
  <2>2. d.sends > 0
    BY <1>6, <2>1, FinishesHeard DEF HStep
  <2>3. open = {} /\ b.asked = {}
    BY <1>0, <2>1, <2>2 DEF OpenIsKept
  <2> HIDE DEF y, d
  <2> QED
    BY <2>1, <2>3 DEF OpenIsKept, OpenInBatch
<1>7. CASE TimePasses(r)
  <2>1. /\ x.pc \notin {"loop", "pausing"} /\ y = x /\ d.asked = b.asked
    BY <1>1, <1>7 DEF TimePasses, vars, Books
  <2> HIDE DEF y, d
  <2> QED
    BY <1>0, <2>1 DEF OpenIsKept
<1>8. CASE Ask(r) \/ Retry(r)
  <2>1. x.pc \in {"loop", "llm"} /\ y.pc = "llm"
    BY <1>8, LoopStepKeeps DEF Ask, CallModel, Retry, ModelFails
  <2>2. d.asked = b.asked
    BY <1>1, <1>8 DEF Ask, Retry, Send, Books
  <2>3. b.asked = {}
    BY <1>0, <2>1 DEF OpenIsKept
  <2> QED
    BY <1>3, <2>1, <2>2, <2>3
<1>9. CASE Exhaust(r) \/ Reply(r)
  <2>1. x.attempt \in Nat /\ MaxRetries \in Nat
    BY <1>1, RunFields, AgentAssumption
  <2>2. y.pc \in {"done", "failed"}
    <3>1. CASE Exhaust(r)
      BY <2>1, <3>1, LoopStepKeeps DEF Exhaust
    <3>2. CASE Reply(r)
      BY <1>1, <3>2, EndedRun DEF Reply, Persist, PersistFails, Becomes
    <3> QED
      BY <1>9, <3>1, <3>2
  <2>3. d = Closed
    BY <1>1, <1>9 DEF Exhaust, Reply
  <2> QED
    BY <1>2, <1>3, <2>2, <2>3
<1>10. ASSUME NEW reason, NEW calls, NEW tokens, AnswerFinal(r, reason, calls, tokens)
       PROVE  OpenIsKept(y, d)
  <2>1. x.pc = "llm" /\ y.pc = "finishing" /\ still = open
    BY <1>10, LoopStepKeeps DEF AnswerFinal, ModelFinishes
  <2>2. open = {}
    BY <1>1, <1>10, AcceptedIsPaired DEF AnswerFinal
  <2>3. d.asked = b.asked
    BY <1>1, <1>10 DEF AnswerFinal, Uses, Books
  <2> HIDE DEF y, d
  <2> QED
    BY <1>0, <2>1, <2>2, <2>3 DEF OpenIsKept, OpenInBatch
<1>11. ASSUME NEW reason, NEW batch \in Batches, NEW tokens,
              AnswerTools(r, reason, batch, tokens)
       PROVE  OpenIsKept(y, d)
  <2>1. x.pc = "llm" /\ ModelRequestsTools(r, batch)
    BY <1>11 DEF AnswerTools, ModelRequestsTools
  <2>2. y.pc = "reading" /\ y.response = batch /\ still \subseteq open \cup Range(batch)
    BY <2>1, BatchOpens
  <2>3. open = {}
    BY <1>1, <1>11, AcceptedIsPaired DEF AnswerTools
  <2>4. d.asked = b.asked
    BY <1>1, <1>11 DEF AnswerTools, Uses, Books
  <2> HIDE DEF y, d
  <2> QED
    BY <1>0, <2>1, <2>2, <2>3, <2>4 DEF OpenIsKept, OpenInBatch
<1>12. CASE Inward(r)
  <2>1. d = b /\ x.pc \in {"resolving", "reading", "writing"}
    BY <1>12 DEF Inward
  <2>2. OpenInBatch(x) /\ b.asked = {}
    BY <1>0, <2>1 DEF OpenIsKept
  <2>3. ASSUME NEW c \in Calls, ResolveNext(r, c) \/ ExecuteMutating(r, c)
        PROVE  OpenInBatch(y) /\ y.pc \in {"resolving", "writing"}
    <3>1. /\ x.pc \in {"resolving", "writing"} /\ c \in x.todo
          /\ \E content \in {"result", "REJECTED_BY_USER"} : Answer(r, c, content)
      BY <2>3 DEF ResolveNext, ExecuteMutating, IsNext
    <3>2. /\ y.pc = x.pc /\ y.response = x.response
          /\ y.todo = x.todo \ {c} /\ still = open \ {c}
      BY <3>1, AnswerCloses
    <3> QED
      BY <2>2, <3>1, <3>2 DEF OpenInBatch
  <2>4. ASSUME NEW c \in Calls, ReadOnlySettles(r, c)
        PROVE  OpenInBatch(y) /\ y.pc = "reading"
    BY <2>2, <2>4, SettleKeeps DEF OpenInBatch, ReadOnlySettles
  <2>5. ASSUME RecordReadOnly(r)
        PROVE  OpenInBatch(y) /\ y.pc = "writing"
    <3>1. Range(x.response) \subseteq Calls /\ x.pc = "reading"
      BY <1>1, <2>5, RunFields DEF Range, RecordReadOnly
    <3>2. OpenInBatch(y) /\ y.pc = "writing"
      BY <2>2, <2>5, <3>1, RecordCloses, Partition DEF OpenInBatch
    <3> QED
      BY <3>2
  <2>6. OpenInBatch(y) /\ y.pc \in {"resolving", "reading", "writing"}
    BY <1>12, <2>3, <2>4, <2>5, InwardSteps
  <2> HIDE DEF y, d
  <2> QED
    BY <2>1, <2>2, <2>6 DEF OpenIsKept
<1>13. CASE CloseBatch(r)
  <2> DEFINE asks == Range(x.response) \cap NeedsApproval
  <2>1. /\ x.pc = "writing" /\ x.todo = {} /\ still = open
        /\ y.pc = IF asks # {} THEN "pausing" ELSE "loop"
    BY <1>13, EndBatchKeeps DEF CloseBatch, EndBatch
  <2>2. open \subseteq asks
    BY <1>0, <2>1 DEF OpenIsKept, OpenInBatch
  <2>3. asks \subseteq open
    BY <1>0, <2>1 DEF SoundCopy
  <2>4. d.asked = asks
    BY <1>1, <1>13 DEF CloseBatch, Books
  <2> HIDE DEF y, d, asks
  <2> QED
    BY <2>1, <2>2, <2>3, <2>4 DEF OpenIsKept, OpenInBatch
<1> HIDE DEF x, y, b, d
<1> QED
  BY <1>4, <1>5, <1>6, <1>7, <1>8, <1>9, <1>10, <1>11, <1>12, <1>13 DEF HStep, Converse

(* What such a step leaves in the rows.                                    *)
LEMMA RowsKept ==
  ASSUME TypeOK, CopiesAreSound, NoOrphanedCalls, NEW r \in Requests,
         HArrive(r) \/ HStep(r), OpenIsKept(run[r], book[r])
  PROVE  NoOrphanedCalls'
<1>1. CASE Persist(r)
  <2> DEFINE c == run[r].conv
  <2>1. run[r].pc \in {"pausing", "finishing"} /\ c \in Conversations
    BY <1>1 DEF Persist, CopiesAreSound, SoundCopy
  <2>2. /\ store'[c].messages = run[r].messages
        /\ store'[c].status = StatusOf(run[r].pc)
        /\ \A d \in Conversations \ {c} : store'[d] = store[d]
    BY <1>1, <2>1 DEF Persist, TypeOK
  <2>3. run[r].pc = "finishing" => Pending(run[r].messages) = {}
    BY DEF OpenIsKept, OpenInBatch
  <2> QED
    BY <2>1, <2>2, <2>3 DEF NoOrphanedCalls, StatusOf
<1>2. ASSUME NEW c \in Conversations, NEW h \in ClientHistories, ChatNew(r, c, h)
      PROVE  NoOrphanedCalls'
  <2>1. Pending(h) = {}
    BY ClientHistory
  <2>2. /\ store'[c].messages = h
        /\ \A d \in Conversations \ {c} : store'[d] = store[d]
    BY <1>2 DEF ChatNew, TypeOK
  <2> QED
    BY <2>1, <2>2 DEF NoOrphanedCalls
<1>3. ASSUME UNCHANGED store PROVE NoOrphanedCalls'
  BY <1>3 DEF NoOrphanedCalls
<1>4. ASSUME Arrive(r), ~\E c \in Conversations, h \in ClientHistories : ChatNew(r, c, h)
      PROVE  UNCHANGED store
  BY <1>4 DEF Arrive, NotFound, ChatExisting, ApproveRefused, ApproveAccepted, Accept
<1>5. ASSUME Step(r), ~Persist(r) PROVE UNCHANGED store
  BY <1>5 DEF Step, ResolveNext, Resume, StopEarly, CallModel, ModelFails, ModelFinishes,
     ModelRequestsTools, ReadOnlySettles, RecordReadOnly, ExecuteMutating, EndBatch,
     PersistFails
<1> QED
  BY <1>1, <1>2, <1>3, <1>4, <1>5, StepOfAgent DEF vars

LEMMA OnlyBatchNext ==
  ASSUME HarnessTypeOK, TypeOK, CopiesAreSound, BooksAreKept, OnlyTheBatchIsOpen,
         [HNext]_hvars
  PROVE  OnlyTheBatchIsOpen'
<1>1. UNCHANGED config
  BY DEF HNext, hvars
<1> SUFFICES ASSUME config.provider \in Strict, Sensible
             PROVE  (NoOrphanedCalls /\ \A r \in Requests : OpenIsKept(run[r], book[r]))'
  BY <1>1 DEF OnlyTheBatchIsOpen, Sensible, Positive
<1>2. NoOrphanedCalls /\ \A r \in Requests : OpenIsKept(run[r], book[r])
  BY DEF OnlyTheBatchIsOpen
<1>3. CASE HCrash
  <2>1. \A r \in Requests : run'[r].pc \in {"idle", "done", "failed"} /\ book'[r] = Closed
    BY <1>3, EndedRun, RunFields DEF HCrash, Crash, Active, TypeOK
  <2>2. UNCHANGED store
    BY <1>3 DEF HCrash, Crash
  <2>3. Closed.asked = {}
    BY DEF Closed
  <2>4. \A r \in Requests : OpenIsKept(run'[r], book'[r])
    BY <2>1, <2>3 DEF OpenIsKept, OpenInBatch
  <2>5. NoOrphanedCalls'
    BY <1>2, <2>2 DEF NoOrphanedCalls
  <2> QED
    BY <2>4, <2>5
<1>4. CASE UNCHANGED <<store, run, book>>
  BY <1>2, <1>4 DEF NoOrphanedCalls
<1>5. ASSUME NEW r \in Requests, HArrive(r) \/ HStep(r)
      PROVE  (NoOrphanedCalls /\ \A q \in Requests : OpenIsKept(run[q], book[q]))'
  BY <1>2, <1>5, OpenKept, RowsKept, OthersKeep
<1> QED
  BY <1>3, <1>4, <1>5 DEF HNext, hvars, Quiet, vars

LEMMA OnlyBatchInit == HInit => OnlyTheBatchIsOpen
<1> SUFFICES ASSUME HInit PROVE OnlyTheBatchIsOpen
  OBVIOUS
<1>1. \A r \in Requests : run[r].pc = "idle" /\ book[r].asked = {}
  BY StartRun DEF HInit, Init, Closed
<1>2. NoOrphanedCalls
  BY EmptyHistory DEF HInit, Init, Absent, NoOrphanedCalls
<1> QED
  BY <1>1, <1>2 DEF OnlyTheBatchIsOpen, OpenIsKept, OpenInBatch

(* Once a strict vendor has answered a run, nothing is open in its copy    *)
(* but the current batch, and no completed row has an open call.           *)
THEOREM BatchesOpen == HSpec => []OnlyTheBatchIsOpen
<1>1. Inv /\ HarnessTypeOK /\ BooksAreKept /\ OnlyTheBatchIsOpen /\ [HNext]_hvars
         => OnlyTheBatchIsOpen'
  BY OnlyBatchNext DEF Inv
<1> QED
  BY <1>1, OnlyBatchInit, BooksKept, PTL DEF HSpec

(* With a vendor that refuses unpaired calls, a chat on a paused           *)
(* conversation stores nothing, and no completed row has an open call.     *)
THEOREM PausesKept == HSpec => []StrictVendorsKeepPauses
<1>1. OnlyTheBatchIsOpen => StrictVendorsKeepPauses
  BY DEF OnlyTheBatchIsOpen, StrictVendorsKeepPauses
<1> QED
  BY <1>1, BatchesOpen, PTL

(* What a client is shown for approval is exactly what approve resolves.   *)
THEOREM ShownPending == HSpec => []ShownIsPending
<1>1. OnlyTheBatchIsOpen => ShownIsPending
  BY DEF OnlyTheBatchIsOpen, OpenIsKept, OpenInBatch, ShownIsPending
<1> QED
  BY <1>1, BatchesOpen, PTL
=============================================================================
