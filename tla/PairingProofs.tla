--------------------------- MODULE PairingProofs ---------------------------
(***************************************************************************)
(* Which calls are open in a handler's copy after each of its steps, and   *)
(* what follows when nobody chats on a paused conversation: the model sees *)
(* no unanswered call and no completed row has one, whatever overlaps and  *)
(* whatever fails.  Then why every handler ends: each step uses up some of *)
(* what it has left, and until it has ended there is a step to take.  Last *)
(* the order in which a batch is answered, and what every stored history   *)
(* looks like.                                                             *)
(***************************************************************************)
EXTENDS AgentProofs

-----------------------------------------------------------------------------
(* The effect of each step on the open calls of the handler that takes it. *)

(* A chat starts with what is open in the history it was given.            *)
LEMMA StartChatOpens ==
  ASSUME TypeOK, NEW r \in Requests, NEW c \in Conversations,
         NEW h \in Histories, WellFormed(h), StartChat(r, c, h)
  PROVE  run'[r].pc = "loop" /\ Pending(run'[r].messages) = Pending(h)
<1> DEFINE g == Append(h, User)
           x == [Start EXCEPT !.pc = "loop", !.kind = "chat", !.conv = c,
                              !.messages = g]
<1>1. Pending(g) = Pending(h)
  BY AppendUser DEF Pending
<1> HIDE DEF g
<1>2. x.pc = "loop" /\ x.messages = g
  BY StartRun DEF Start
<1>3. run'[r] = x
  BY DEF StartChat, Becomes, TypeOK, g
<1> QED
  BY <1>1, <1>2, <1>3

(* A call of the for loop that is answered is not open any more.           *)
LEMMA AnswerCloses ==
  ASSUME TypeOK, CopiesAreSound, NEW r \in Requests,
         run[r].pc \in {"resolving", "writing"}, NEW c \in run[r].todo,
         NEW content \in {"result", "REJECTED_BY_USER"}, Answer(r, c, content)
  PROVE  /\ run'[r].pc = run[r].pc /\ run'[r].response = run[r].response
         /\ run'[r].todo = run[r].todo \ {c}
         /\ Pending(run'[r].messages) = Pending(run[r].messages) \ {c}
<1> DEFINE h == run[r].messages
           g == Append(h, ToolMessage(c, content))
           y == AfterAnswer(run[r], c, content)
<1>1. run[r] \in Runs /\ SoundCopy(run[r], issued)
  BY DEF TypeOK, CopiesAreSound
<1>2. h \in Histories /\ WellFormed(h) /\ c \in Pending(h)
  BY <1>1, RunFields DEF SoundCopy, SoundHistory
<1>3. Pending(g) = Pending(h) \ {c}
  BY <1>2, AppendAnswer DEF Pending
<1>4. /\ y.pc = run[r].pc /\ y.response = run[r].response
      /\ y.todo = run[r].todo \ {c} /\ y.messages = g
  BY <1>1, AnswerSound
<1>5. run'[r] = y
  BY DEF Answer, Becomes, TypeOK
<1> QED
  BY <1>3, <1>4, <1>5

(* A batch opens its calls.                                                *)
LEMMA BatchOpens ==
  ASSUME TypeOK, CopiesAreSound, NEW r \in Requests, NEW batch \in Batches,
         ModelRequestsTools(r, batch)
  PROVE  /\ run'[r].pc = "reading" /\ run'[r].response = batch
         /\ Pending(run'[r].messages) \subseteq Pending(run[r].messages) \cup Range(batch)
<1> DEFINE h == run[r].messages
           g == Append(h, Assistant(batch))
           x == [run[r] EXCEPT !.pc = "reading", !.attempt = 0,
                               !.messages = g, !.response = batch,
                               !.inFlight = Range(batch) \cap ReadOnly]
<1>1. run[r] \in Runs /\ SoundCopy(run[r], issued) /\ run[r].pc = "llm"
  BY DEF TypeOK, CopiesAreSound, ModelRequestsTools
<1>2. h \in Histories /\ WellFormed(h) /\ batch \in Seq(Calls)
  BY <1>1, RunFields, BatchFacts DEF SoundCopy, SoundHistory, TypeOK
<1>3. Pending(g) \subseteq Pending(h) \cup Range(batch)
  BY <1>2, AppendAssistant DEF Pending
<1>4. run'[r] = x
  BY DEF ModelRequestsTools, Becomes, TypeOK
<1> HIDE DEF g, h
<1>5. x.pc = "reading" /\ x.response = batch /\ x.messages = g
  BY <1>1 DEF Runs
<1> QED
  BY <1>3, <1>4, <1>5 DEF h

(* The recorded results close the read-only calls of the batch, and the    *)
(* mutating ones are next.                                                 *)
LEMMA RecordCloses ==
  ASSUME TypeOK, CopiesAreSound, NEW r \in Requests, RecordReadOnly(r)
  PROVE  /\ run'[r].pc = "writing" /\ run'[r].response = run[r].response
         /\ run'[r].todo = Range(run[r].response) \cap Mutating
         /\ Pending(run'[r].messages)
               = Pending(run[r].messages) \ (Range(run[r].response) \cap ReadOnly)
<1> DEFINE h == run[r].messages
           batch == Range(run[r].response)
           S == batch \cap ReadOnly
<1>1. run[r] \in Runs /\ SoundCopy(run[r], issued) /\ run[r].pc = "reading"
  BY DEF TypeOK, CopiesAreSound, RecordReadOnly
<1>2. h \in Histories /\ WellFormed(h) /\ batch \subseteq Pending(h)
  BY <1>1, RunFields DEF SoundCopy, SoundHistory
<1>3. S \in SUBSET Pending(h) /\ Cardinality(S) \in Nat
  BY <1>2, CallsAssumption, Partition, FS_Subset, FS_CardinalityType
<1>4. PICK s \in Bijection(1..Cardinality(S), S) :
         Becomes(r, [run[r] EXCEPT
                       !.pc = "writing",
                       !.messages = @ \o [i \in DOMAIN s |-> ToolMessage(s[i], "result")],
                       !.todo = batch \cap Mutating])
  BY DEF RecordReadOnly, InOrder
<1> DEFINE g == h \o [i \in DOMAIN s |-> ToolMessage(s[i], "result")]
           x == [run[r] EXCEPT !.pc = "writing", !.messages = g,
                               !.todo = batch \cap Mutating]
<1>5. /\ g \in Histories /\ WellFormed(g)
      /\ Answered(g) = Answered(h) \cup S /\ Requested(g) = Requested(h)
  <2> DEFINE n == Cardinality(S)
  <2>1. S \in SUBSET Pending(h) /\ n \in Nat /\ s \in Bijection(1..n, S)
    BY <1>3
  <2>2. h \in Histories /\ WellFormed(h)
    BY <1>2
  <2> HIDE DEF S, h, n
  <2> QED
    BY <2>1, <2>2, AppendResults
<1>6. Pending(g) = Pending(h) \ S
  BY <1>5 DEF Pending
<1>7. run'[r] = x
  BY <1>4 DEF Becomes, TypeOK
<1> HIDE DEF g, h, batch
<1>8. /\ x.pc = "writing" /\ x.response = run[r].response /\ x.messages = g
      /\ x.todo = batch \cap Mutating
  BY <1>1 DEF Runs
<1> QED
  BY <1>6, <1>7, <1>8 DEF h, batch

(* The end of a batch leaves the messages as they are.                     *)
LEMMA EndBatchKeeps ==
  ASSUME TypeOK, NEW r \in Requests, EndBatch(r)
  PROVE  /\ run'[r].pc = IF Range(run[r].response) \cap NeedsApproval # {}
                         THEN "pausing" ELSE "loop"
         /\ run'[r].messages = run[r].messages
<1>1. run[r] \in Runs
  BY DEF TypeOK
<1> DEFINE asks == Range(run[r].response) \cap NeedsApproval
           x == [run[r] EXCEPT !.pc = IF asks # {} THEN "pausing" ELSE "loop",
                               !.response = << >>]
<1>2. run'[r] = x
  BY DEF EndBatch, Becomes, TypeOK
<1> HIDE DEF asks
<1>3. x.pc = (IF asks # {} THEN "pausing" ELSE "loop") /\ x.messages = run[r].messages
  BY <1>1 DEF Runs
<1> QED
  BY <1>2, <1>3 DEF asks

(* So do the steps around the model call, and where they lead.             *)
LEMMA LoopStepKeeps ==
  ASSUME TypeOK, NEW r \in Requests
  PROVE  /\ Resume(r) => run'[r].pc = "loop" /\ run'[r].messages = run[r].messages
         /\ StopEarly(r) => run'[r].pc = "finishing" /\ run'[r].messages = run[r].messages
         /\ CallModel(r) => run'[r].pc = "llm" /\ run'[r].messages = run[r].messages
         /\ ModelFinishes(r) => run'[r].pc = "finishing" /\ run'[r].messages = run[r].messages
         /\ ModelFails(r) /\ run[r].attempt < MaxRetries =>
               run'[r].pc = "llm" /\ run'[r].messages = run[r].messages
         /\ ModelFails(r) /\ ~(run[r].attempt < MaxRetries) => run'[r].pc = "failed"
<1>1. run[r] \in Runs /\ run \in [Requests -> Runs]
  BY DEF TypeOK
<1>2. Resume(r) => run'[r].pc = "loop" /\ run'[r].messages = run[r].messages
  BY <1>1 DEF Resume, Becomes, Runs
<1>3. StopEarly(r) => run'[r].pc = "finishing" /\ run'[r].messages = run[r].messages
  BY <1>1 DEF StopEarly, Becomes, Runs
<1>4. CallModel(r) => run'[r].pc = "llm" /\ run'[r].messages = run[r].messages
  BY <1>1 DEF CallModel, Becomes, Runs
<1>5. ModelFinishes(r) => run'[r].pc = "finishing" /\ run'[r].messages = run[r].messages
  BY <1>1 DEF ModelFinishes, Becomes, Runs
<1>6. ModelFails(r) /\ run[r].attempt < MaxRetries =>
         run'[r].pc = "llm" /\ run'[r].messages = run[r].messages
  BY <1>1 DEF ModelFails, Becomes, Runs
<1>7. ModelFails(r) /\ ~(run[r].attempt < MaxRetries) => run'[r].pc = "failed"
  BY <1>1, EndedRun DEF ModelFails, Becomes
<1> QED
  BY <1>2, <1>3, <1>4, <1>5, <1>6, <1>7

(* A read-only call that settles changes nothing that is recorded.         *)
LEMMA SettleKeeps ==
  ASSUME TypeOK, NEW r \in Requests, NEW c \in Calls, ReadOnlySettles(r, c)
  PROVE  /\ run'[r].pc = run[r].pc /\ run'[r].messages = run[r].messages
         /\ run'[r].response = run[r].response /\ run'[r].todo = run[r].todo
<1>1. run[r] \in Runs /\ run \in [Requests -> Runs]
  BY DEF TypeOK
<1> QED
  BY <1>1 DEF ReadOnlySettles, Becomes, Runs

-----------------------------------------------------------------------------
(* When nobody chats on a paused conversation.                             *)

(* A copy whose handler is elsewhere, or whose step opened nothing.        *)
LEMMA PairedStep ==
  ASSUME TypeOK, CopiesArePaired, UNCHANGED store,
         NEW r \in Requests, NEW x, Becomes(r, x),
         run'[r].pc \in {"loop", "llm"} => Pending(run'[r].messages) = {},
         OpenInBatch(run'[r])
  PROVE  CopiesArePaired'
<1>1. \A q \in Requests \ {r} : run'[q] = run[q]
  BY DEF Becomes, TypeOK
<1> QED
  BY <1>1 DEF CopiesArePaired, NoOrphanedCalls

(* A handler that ended has no copy.                                       *)
LEMMA PairedEnd ==
  ASSUME TypeOK, CopiesArePaired, UNCHANGED store,
         NEW r \in Requests, NEW how \in {"done", "failed"}, Becomes(r, Ended(how))
  PROVE  CopiesArePaired'
<1>1. run'[r] = Ended(how)
  BY DEF Becomes, TypeOK
<1>2. run'[r].pc = how
  BY <1>1, EndedRun
<1> QED
  BY <1>2, PairedStep DEF OpenInBatch

LEMMA PairedInit == Init => CopiesArePaired
<1> SUFFICES ASSUME Init PROVE CopiesArePaired
  OBVIOUS
<1>1. \A c \in Conversations : store[c].messages = << >>
  BY DEF Init, Absent
<1>2. \A r \in Requests : run[r].pc = "idle"
  BY StartRun DEF Init
<1> QED
  BY <1>1, <1>2, EmptyHistory DEF CopiesArePaired, NoOrphanedCalls, OpenInBatch

LEMMA PairedArrive ==
  ASSUME ~ChatOnPaused, TypeOK, CopiesAreSound, CopiesArePaired,
         NEW r \in Requests, Arrive(r)
  PROVE  CopiesArePaired'
<1>1. CASE NotFound(r)
  BY <1>1, PairedEnd DEF NotFound
<1>2. ASSUME NEW c \in Conversations, NEW h \in ClientHistories, ChatNew(r, c, h)
      PROVE  CopiesArePaired'
  <2>1. h \in Histories /\ WellFormed(h) /\ Pending(h) = {}
    BY ClientHistory
  <2>2. run'[r].pc = "loop" /\ Pending(run'[r].messages) = {}
    BY <1>2, <2>1, StartChatOpens DEF ChatNew
  <2>3. \A q \in Requests \ {r} : run'[q] = run[q]
    BY <1>2 DEF ChatNew, StartChat, Becomes, TypeOK
  <2>4. /\ store'[c].messages = h
        /\ \A d \in Conversations \ {c} : store'[d] = store[d]
    BY <1>2 DEF ChatNew, TypeOK
  <2>5. NoOrphanedCalls'
    BY <2>1, <2>4 DEF CopiesArePaired, NoOrphanedCalls
  <2> QED
    BY <2>2, <2>3, <2>5 DEF CopiesArePaired, OpenInBatch
<1>3. ASSUME NEW c \in Conversations, ChatExisting(r, c)
      PROVE  CopiesArePaired'
  <2> DEFINE h == store[c].messages
  <2>1. h \in Histories /\ WellFormed(h)
    BY DEF TypeOK, Rows, CopiesAreSound, SoundHistory
  <2>2. Pending(h) = {}
    BY <1>3 DEF ChatExisting, CopiesArePaired, NoOrphanedCalls
  <2>3. run'[r].pc = "loop" /\ Pending(run'[r].messages) = {}
    BY <1>3, <2>1, <2>2, StartChatOpens DEF ChatExisting
  <2>4. UNCHANGED store /\ \E x : Becomes(r, x)
    BY <1>3 DEF ChatExisting, StartChat
  <2> QED
    BY <2>3, <2>4, PairedStep DEF OpenInBatch
<1>4. ASSUME NEW c \in Conversations, NEW n \in 1..MaxDecisions,
             NEW decisions \in [1..n -> Decisions], ApproveRefused(r, c, decisions)
      PROVE  CopiesArePaired'
  BY <1>4, PairedEnd DEF ApproveRefused
<1>5. ASSUME NEW c \in Conversations, NEW n \in 1..MaxDecisions,
             NEW decisions \in [1..n -> Decisions], ApproveAccepted(r, c, decisions)
      PROVE  CopiesArePaired'
  <2>1. run'[r].pc = "resolving" /\ UNCHANGED store /\ \E x : Becomes(r, x)
    BY <1>5, StartRun DEF ApproveAccepted, Accept, Becomes, TypeOK, Start
  <2> QED
    BY <2>1, PairedStep DEF OpenInBatch
<1> QED
  BY <1>1, <1>2, <1>3, <1>4, <1>5 DEF Arrive

LEMMA PairedTools ==
  ASSUME TypeOK, CopiesAreSound, CopiesArePaired, NEW r \in Requests,
         \/ \E c \in Calls : ResolveNext(r, c) \/ ExecuteMutating(r, c)
         \/ \E c \in Calls : ReadOnlySettles(r, c)
         \/ \E batch \in Batches : ModelRequestsTools(r, batch)
         \/ RecordReadOnly(r) \/ EndBatch(r)
  PROVE  CopiesArePaired'
<1>1. OpenInBatch(run[r]) /\ SoundCopy(run[r], issued) /\ run[r] \in Runs
  BY DEF CopiesArePaired, CopiesAreSound, TypeOK
<1>2. ASSUME NEW c \in Calls, ResolveNext(r, c) \/ ExecuteMutating(r, c)
      PROVE  CopiesArePaired'
  <2>1. /\ run[r].pc \in {"resolving", "writing"} /\ c \in run[r].todo
        /\ UNCHANGED store
        /\ \E content \in {"result", "REJECTED_BY_USER"} : Answer(r, c, content)
    BY <1>2 DEF ResolveNext, ExecuteMutating, IsNext
  <2>2. /\ run'[r].pc = run[r].pc /\ run'[r].response = run[r].response
        /\ run'[r].todo = run[r].todo \ {c}
        /\ Pending(run'[r].messages) = Pending(run[r].messages) \ {c}
    BY <2>1, AnswerCloses
  <2>3. OpenInBatch(run'[r])
    BY <1>1, <2>1, <2>2 DEF OpenInBatch
  <2> QED
    BY <2>1, <2>2, <2>3, PairedStep DEF Answer
<1>3. ASSUME NEW c \in Calls, ReadOnlySettles(r, c)
      PROVE  CopiesArePaired'
  <2>1. OpenInBatch(run'[r]) /\ run'[r].pc = "reading"
    BY <1>1, <1>3, SettleKeeps DEF OpenInBatch, ReadOnlySettles
  <2> QED
    BY <1>3, <2>1, PairedStep DEF ReadOnlySettles
<1>4. ASSUME NEW batch \in Batches, ModelRequestsTools(r, batch)
      PROVE  CopiesArePaired'
  <2>1. Pending(run[r].messages) = {}
    BY <1>4 DEF ModelRequestsTools, CopiesArePaired
  <2>2. OpenInBatch(run'[r]) /\ run'[r].pc = "reading"
    BY <1>4, <2>1, BatchOpens DEF OpenInBatch
  <2> QED
    BY <1>4, <2>2, PairedStep DEF ModelRequestsTools
<1>5. CASE RecordReadOnly(r)
  <2>1. run[r].pc = "reading" /\ UNCHANGED store /\ \E x : Becomes(r, x)
    BY <1>5 DEF RecordReadOnly
  <2>2. Range(run[r].response) \subseteq Calls
    BY <1>1, RunFields DEF Range
  <2>3. OpenInBatch(run'[r]) /\ run'[r].pc = "writing"
    BY <1>1, <1>5, <2>1, <2>2, RecordCloses, Partition DEF OpenInBatch
  <2> QED
    BY <2>1, <2>3, PairedStep
<1>6. CASE EndBatch(r)
  <2>1. /\ run[r].pc = "writing" /\ run[r].todo = {}
        /\ UNCHANGED store /\ \E x : Becomes(r, x)
    BY <1>6 DEF EndBatch
  <2>2. /\ run'[r].pc \in {"pausing", "loop"}
        /\ run'[r].pc = "loop" => Pending(run'[r].messages) = {}
    BY <1>1, <1>6, <2>1, EndBatchKeeps DEF OpenInBatch
  <2> QED
    BY <2>1, <2>2, PairedStep DEF OpenInBatch
<1> QED
  BY <1>2, <1>3, <1>4, <1>5, <1>6

LEMMA PairedLoop ==
  ASSUME TypeOK, CopiesAreSound, CopiesArePaired, NEW r \in Requests,
         Resume(r) \/ StopEarly(r) \/ CallModel(r) \/ ModelFails(r) \/ ModelFinishes(r)
  PROVE  CopiesArePaired'
<1>1. UNCHANGED store /\ \E x : Becomes(r, x)
  BY DEF Resume, StopEarly, CallModel, ModelFails, ModelFinishes
<1>2. run[r].pc \in {"loop", "llm"} => Pending(run[r].messages) = {}
  BY DEF CopiesArePaired
<1>3. CASE Resume(r)
  <2>1. Pending(run[r].messages) = {}
    BY <1>3 DEF Resume, CopiesAreSound, SoundCopy
  <2> QED
    BY <1>1, <1>3, <2>1, LoopStepKeeps, PairedStep DEF OpenInBatch
<1>4. CASE StopEarly(r)
  BY <1>1, <1>2, <1>4, LoopStepKeeps, PairedStep DEF StopEarly, OpenInBatch
<1>5. CASE CallModel(r)
  BY <1>1, <1>2, <1>5, LoopStepKeeps, PairedStep DEF CallModel, OpenInBatch
<1>6. CASE ModelFails(r)
  <2>1. run'[r].pc = "failed" \/ (run'[r].pc = "llm" /\ Pending(run'[r].messages) = {})
    BY <1>2, <1>6, LoopStepKeeps DEF ModelFails
  <2> QED
    BY <1>1, <2>1, PairedStep DEF OpenInBatch
<1>7. CASE ModelFinishes(r)
  BY <1>1, <1>2, <1>7, LoopStepKeeps, PairedStep DEF ModelFinishes, OpenInBatch
<1> QED
  BY <1>3, <1>4, <1>5, <1>6, <1>7

LEMMA PairedPersist ==
  ASSUME TypeOK, CopiesAreSound, CopiesArePaired, NEW r \in Requests, Persist(r)
  PROVE  CopiesArePaired'
<1> DEFINE c == run[r].conv
<1>1. /\ run[r].pc \in {"pausing", "finishing"} /\ c \in Conversations
      /\ OpenInBatch(run[r])
  BY DEF Persist, CopiesAreSound, SoundCopy, CopiesArePaired
<1>2. /\ store'[c].messages = run[r].messages
      /\ store'[c].status = StatusOf(run[r].pc)
      /\ \A d \in Conversations \ {c} : store'[d] = store[d]
  BY <1>1 DEF Persist, TypeOK
<1>3. NoOrphanedCalls'
  BY <1>1, <1>2 DEF CopiesArePaired, NoOrphanedCalls, StatusOf, OpenInBatch
<1>4. /\ run'[r].pc = "done"
      /\ \A q \in Requests \ {r} : run'[q] = run[q]
  BY EndedRun DEF Persist, Becomes, TypeOK
<1> QED
  BY <1>3, <1>4 DEF CopiesArePaired, OpenInBatch

LEMMA PairedNext ==
  ASSUME ~ChatOnPaused, TypeOK, CopiesAreSound, CopiesArePaired, [Next]_vars
  PROVE  CopiesArePaired'
<1>1. CASE Crash
  <2>1. \A r \in Requests : run'[r] = run[r] \/ run'[r] = Ended("failed")
    BY <1>1 DEF Crash
  <2>2. Ended("failed").pc = "failed" /\ UNCHANGED store
    BY <1>1, EndedRun DEF Crash
  <2> QED
    BY <2>1, <2>2 DEF CopiesArePaired, NoOrphanedCalls, OpenInBatch
<1>2. CASE UNCHANGED vars
  BY <1>2 DEF vars, CopiesArePaired, NoOrphanedCalls
<1>3. ASSUME NEW r \in Requests, Arrive(r) PROVE CopiesArePaired'
  BY <1>3, PairedArrive
<1>4. ASSUME NEW r \in Requests, Step(r) PROVE CopiesArePaired'
  <2>1. CASE Persist(r)
    BY <2>1, PairedPersist
  <2>2. CASE PersistFails(r)
    BY <2>2, PairedEnd DEF PersistFails
  <2> QED
    BY <1>4, <2>1, <2>2, PairedTools, PairedLoop DEF Step
<1> QED
  BY <1>1, <1>2, <1>3, <1>4 DEF Next, Quiet

(* What is open is only ever the current batch or a pause.                 *)
THEOREM CopiesPaired ==
  ASSUME ~ChatOnPaused
  PROVE  Spec => []CopiesArePaired
<1>1. Inv => TypeOK /\ CopiesAreSound
  BY DEF Inv
<1>2. CopiesArePaired /\ Inv /\ [Next]_vars => CopiesArePaired'
  BY <1>1, PairedNext
<1> QED
  BY <1>2, PairedInit, Invariance, PTL DEF Spec

(* The model never sees an unanswered call (callLlmWithRetry's messages).  *)
THEOREM ModelSeesPaired ==
  ASSUME ~ChatOnPaused
  PROVE  Spec => []ModelSeesPairedCalls
<1>1. CopiesArePaired => ModelSeesPairedCalls
  BY DEF CopiesArePaired, ModelSeesPairedCalls
<1> QED
  BY <1>1, CopiesPaired, PTL

(* A row that is not paused has no unanswered call (updateMessages).       *)
THEOREM NothingOrphaned ==
  ASSUME ~ChatOnPaused
  PROVE  Spec => []NoOrphanedCalls
<1>1. CopiesArePaired => NoOrphanedCalls
  BY DEF CopiesArePaired
<1> QED
  BY <1>1, CopiesPaired, PTL

-----------------------------------------------------------------------------
(* What a handler has left.                                                *)

(* The stages of a turn are counted, and so are attempts and calls.        *)
LEMMA BudgetType ==
  ASSUME NEW x \in Runs
  PROVE  /\ Left(x.iterations, MaxIterations) \in Nat
         /\ Stage(x) \in 0..4
         /\ WithinStage(x) \in Nat
<1>1. \A m, n \in Nat : Left(m, n) \in Nat
  BY DEF Left
<1>2. IsFiniteSet(x.inFlight) /\ IsFiniteSet(x.todo)
  BY RunFields, CallsAssumption, FS_Subset
<1>3. Cardinality(x.inFlight) \in Nat /\ Cardinality(x.todo) \in Nat
  BY <1>2, FS_CardinalityType
<1>4. MaxIterations \in Nat /\ MaxRetries \in Nat
  BY AgentAssumption
<1>5. WithinStage(x) \in Nat
  BY <1>1, <1>3, <1>4, RunFields DEF WithinStage
<1>6. Stage(x) \in 0..4
  BY DEF Stage
<1> QED
  BY <1>1, <1>4, <1>5, <1>6, RunFields

(* Advances spelled out.                                                   *)
LEMMA AdvancesIf ==
  ASSUME NEW x, NEW y,
         \/ Left(y.iterations, MaxIterations) < Left(x.iterations, MaxIterations)
         \/ y.iterations = x.iterations /\ Stage(y) < Stage(x)
         \/ /\ y.iterations = x.iterations /\ Stage(y) = Stage(x)
            /\ WithinStage(y) < WithinStage(x)
  PROVE  Advances(x, y)
BY DEF Advances, Budget

(* One call less to visit.                                                 *)
LEMMA OneLess ==
  ASSUME NEW S \in SUBSET Calls, NEW c \in S
  PROVE  Cardinality(S \ {c}) < Cardinality(S)
<1>1. IsFiniteSet(S)
  BY CallsAssumption, FS_Subset
<1>2. Cardinality(S) \in Nat /\ Cardinality(S \ {c}) = Cardinality(S) - 1
  BY <1>1, FS_CardinalityType, FS_RemoveElement
<1> QED
  BY <1>2

LEMMA AnswerAdvances ==
  ASSUME NEW x \in Runs, x.pc \in {"resolving", "writing"}, NEW c \in x.todo,
         NEW content
  PROVE  Advances(x, AfterAnswer(x, c, content))
<1> DEFINE y == AfterAnswer(x, c, content)
<1>1. y.pc = x.pc /\ y.iterations = x.iterations /\ y.todo = x.todo \ {c}
  BY DEF AfterAnswer, Runs
<1>2. Cardinality(y.todo) < Cardinality(x.todo)
  BY <1>1, OneLess, RunFields
<1> HIDE DEF y
<1>3. Stage(y) = Stage(x) /\ WithinStage(y) < WithinStage(x)
  BY <1>1, <1>2 DEF Stage, WithinStage
<1> QED
  BY <1>1, <1>3, AdvancesIf DEF y

LEMMA StepAdvances ==
  ASSUME TypeOK, NEW r \in Requests, Step(r)
  PROVE  run'[r].pc \in {"done", "failed"} \/ Advances(run[r], run'[r])
<1> DEFINE x == run[r]
<1>1. x \in Runs /\ run \in [Requests -> Runs]
  BY DEF TypeOK
<1>2. \A y : Becomes(r, y) => run'[r] = y
  BY <1>1 DEF Becomes
<1>3. ASSUME NEW c \in Calls, ResolveNext(r, c) \/ ExecuteMutating(r, c)
      PROVE  Advances(run[r], run'[r])
  <2>1. /\ x.pc \in {"resolving", "writing"} /\ c \in x.todo
        /\ \E content : Answer(r, c, content)
    BY <1>3 DEF ResolveNext, ExecuteMutating, IsNext
  <2>2. PICK content : Answer(r, c, content)
    BY <2>1
  <2>3. run'[r] = AfterAnswer(x, c, content)
    BY <1>2, <2>2 DEF Answer
  <2> QED
    BY <1>1, <2>1, <2>3, AnswerAdvances
<1>4. ASSUME Resume(r) \/ StopEarly(r) \/ ModelFinishes(r) \/ EndBatch(r)
      PROVE  Advances(run[r], run'[r])
  <2>1. CASE Resume(r)
    <3>1. /\ run'[r].iterations = x.iterations
          /\ x.pc = "resolving" /\ run'[r].pc = "loop"
      BY <1>1, <1>2, <2>1 DEF Resume, Runs
    <3> QED
      BY <3>1, AdvancesIf DEF Stage
  <2>2. CASE StopEarly(r)
    <3>1. /\ run'[r].iterations = x.iterations
          /\ x.pc = "loop" /\ run'[r].pc = "finishing"
      BY <1>1, <1>2, <2>2 DEF StopEarly, Runs
    <3> QED
      BY <3>1, AdvancesIf DEF Stage
  <2>3. CASE ModelFinishes(r)
    <3>1. /\ run'[r].iterations = x.iterations
          /\ x.pc = "llm" /\ run'[r].pc = "finishing"
      BY <1>1, <1>2, <2>3 DEF ModelFinishes, Runs
    <3> QED
      BY <3>1, AdvancesIf DEF Stage
  <2>4. CASE EndBatch(r)
    <3>1. /\ run'[r].iterations = x.iterations
          /\ x.pc = "writing" /\ run'[r].pc \in {"pausing", "loop"}
      BY <1>1, <1>2, <2>4 DEF EndBatch, Runs
    <3> QED
      BY <3>1, AdvancesIf DEF Stage
  <2> QED
    BY <1>4, <2>1, <2>2, <2>3, <2>4
<1>5. ASSUME CallModel(r)
      PROVE  Advances(run[r], run'[r])
  <2>1. /\ x.iterations \in Nat /\ x.iterations < MaxIterations
        /\ run'[r].iterations = x.iterations + 1
    BY <1>1, <1>2, <1>5 DEF CallModel, Runs
  <2>2. \A n, m \in Nat : n < m => Left(n + 1, m) < Left(n, m)
    BY DEF Left
  <2> QED
    BY <2>1, <2>2, AgentAssumption, AdvancesIf
<1>6. ASSUME ModelFails(r)
      PROVE  run'[r].pc \in {"done", "failed"} \/ Advances(run[r], run'[r])
  <2>1. CASE x.attempt < MaxRetries
    <3>1. /\ run'[r].iterations = x.iterations /\ x.attempt \in Nat
          /\ x.pc = "llm" /\ run'[r].pc = "llm"
          /\ run'[r].attempt = x.attempt + 1
      BY <1>1, <1>2, <1>6, <2>1 DEF ModelFails, Runs
    <3>2. \A n, m \in Nat : n < m => Left(n + 1, m) < Left(n, m)
      BY DEF Left
    <3>3. WithinStage(run'[r]) < WithinStage(x)
      BY <2>1, <3>1, <3>2, AgentAssumption DEF WithinStage
    <3>4. Stage(run'[r]) = Stage(x)
      BY <3>1 DEF Stage
    <3> QED
      BY <3>1, <3>3, <3>4, AdvancesIf
  <2>2. CASE ~ (x.attempt < MaxRetries)
    BY <1>2, <1>6, <2>2, EndedRun DEF ModelFails
  <2> QED
    BY <2>1, <2>2
<1>7. ASSUME NEW batch \in Batches, ModelRequestsTools(r, batch)
      PROVE  Advances(run[r], run'[r])
  <2>1. /\ run'[r].iterations = x.iterations
        /\ x.pc = "llm" /\ run'[r].pc = "reading"
    BY <1>1, <1>2, <1>7 DEF ModelRequestsTools, Runs
  <2> QED
    BY <2>1, AdvancesIf DEF Stage
<1>8. ASSUME NEW c \in Calls, ReadOnlySettles(r, c)
      PROVE  Advances(run[r], run'[r])
  <2>1. /\ run'[r].iterations = x.iterations
        /\ x.pc = "reading" /\ run'[r].pc = "reading"
        /\ c \in x.inFlight /\ run'[r].inFlight = x.inFlight \ {c}
    BY <1>1, <1>2, <1>8 DEF ReadOnlySettles, Runs
  <2>2. Cardinality(run'[r].inFlight) < Cardinality(x.inFlight)
    BY <1>1, <2>1, OneLess, RunFields
  <2>3. WithinStage(run'[r]) < WithinStage(x) /\ Stage(run'[r]) = Stage(x)
    BY <2>1, <2>2 DEF WithinStage, Stage
  <2> QED
    BY <2>1, <2>3, AdvancesIf
<1>9. ASSUME RecordReadOnly(r)
      PROVE  Advances(run[r], run'[r])
  <2>1. /\ run'[r].iterations = x.iterations
        /\ x.pc = "reading" /\ run'[r].pc = "writing"
    BY <1>1, <1>2, <1>9 DEF RecordReadOnly, Runs
  <2> QED
    BY <2>1, AdvancesIf DEF Stage
<1>10. ASSUME Persist(r) \/ PersistFails(r)
       PROVE  run'[r].pc \in {"done", "failed"}
  BY <1>2, <1>10, EndedRun DEF Persist, PersistFails
<1> QED
  BY <1>3, <1>4, <1>5, <1>6, <1>7, <1>8, <1>9, <1>10 DEF Step

(* A handler's steps leave the others where they are.                      *)
LEMMA OthersStay ==
  ASSUME TypeOK, NEW q \in Requests, Arrive(q) \/ Step(q), NEW r \in Requests \ {q}
  PROVE  run'[r] = run[r]
<1>1. run \in [Requests -> Runs]
  BY DEF TypeOK
<1>2. ASSUME NEW y, Becomes(q, y)
      PROVE  run'[r] = run[r]
  BY <1>1, <1>2 DEF Becomes
<1>3. CASE Arrive(q)
  <2>1. \E y : Becomes(q, y)
    BY <1>3 DEF Arrive, NotFound, ChatNew, ChatExisting, StartChat, ApproveRefused,
                ApproveAccepted, Accept
  <2> QED
    BY <1>2, <2>1
<1>4. CASE Step(q)
  <2>1. CASE \E c \in Calls : ResolveNext(q, c) \/ ExecuteMutating(q, c)
    <3>1. \E y : Becomes(q, y)
      BY <2>1 DEF ResolveNext, ExecuteMutating, Answer
    <3> QED
      BY <1>2, <3>1
  <2>2. CASE \/ Resume(q) \/ StopEarly(q) \/ CallModel(q) \/ ModelFails(q)
             \/ ModelFinishes(q) \/ EndBatch(q) \/ Persist(q) \/ PersistFails(q)
    <3>1. \E y : Becomes(q, y)
      BY <2>2 DEF Resume, StopEarly, CallModel, ModelFails, ModelFinishes, EndBatch,
                  Persist, PersistFails
    <3> QED
      BY <1>2, <3>1
  <2>3. CASE \/ \E batch \in Batches : ModelRequestsTools(q, batch)
             \/ \E c \in Calls : ReadOnlySettles(q, c)
             \/ RecordReadOnly(q)
    <3>1. \E y : Becomes(q, y)
      BY <2>3 DEF ModelRequestsTools, ReadOnlySettles, RecordReadOnly
    <3> QED
      BY <1>2, <3>1
  <2> QED
    BY <1>4, <2>1, <2>2, <2>3 DEF Step
<1> QED
  BY <1>3, <1>4

(* Every step of a handler that has started ends it or uses up some of the *)
(* turns, attempts and calls it has left; nothing else moves it, except a  *)
(* crash, which ends it.                                                   *)
THEOREM StepsAdvance == Spec => EveryStepAdvances
<1> DEFINE Moves(r) ==
             Active(r) =>
                \/ run'[r] = run[r]
                \/ run'[r].pc \in {"done", "failed"}
                \/ Advances(run[r], run'[r])
<1>1. ASSUME TypeOK, [Next]_vars, NEW r \in Requests
      PROVE  Moves(r)
  <2>1. CASE Crash
    <3>1. Active(r) => run'[r] = Ended("failed")
      BY <2>1 DEF Crash
    <3> QED
      BY <3>1, EndedRun
  <2>2. CASE Quiet \/ UNCHANGED vars
    BY <2>2 DEF Quiet, vars
  <2>3. ASSUME NEW q \in Requests, Arrive(q)
        PROVE  Moves(r)
    <3>1. run[q].pc = "idle"
      BY <2>3 DEF Arrive, NotFound, ChatNew, ChatExisting, Admitted, ApproveRefused,
                  ApproveAccepted, Accept
    <3>2. CASE r = q
      BY <3>1, <3>2 DEF Active
    <3>3. CASE r # q
      BY <1>1, <2>3, <3>3, OthersStay
    <3> QED
      BY <3>2, <3>3
  <2>4. ASSUME NEW q \in Requests, Step(q)
        PROVE  Moves(r)
    <3>1. CASE r = q
      BY <1>1, <2>4, <3>1, StepAdvances
    <3>2. CASE r # q
      BY <1>1, <2>4, <3>2, OthersStay
    <3> QED
      BY <3>1, <3>2
  <2> QED
    BY <1>1, <2>1, <2>2, <2>3, <2>4 DEF Next
<1>2. TypeOK /\ [Next]_vars => [\A r \in Requests : Moves(r)]_vars
  BY <1>1
<1> QED
  BY <1>2, TypeCorrect, PTL DEF Spec, EveryStepAdvances

(* What StepsAdvance is for: the order of Advances is well founded, so     *)
(* that what a handler has left cannot shrink for ever.                    *)
LEMMA AdvancesEnd ==
  ~ \E f \in [Nat -> Runs] : \A n \in Nat : Advances(f[n], f[n + 1])
<1> DEFINE Less == OpToRel(<, Nat)
           Pairs == LexPairOrdering(Less, Less, Nat, Nat)
           Triples == LexPairOrdering(Pairs, Less, Nat \X Nat, Nat)
<1>1. \A m, n \in Nat : m < n => <<m, n>> \in Less
  BY DEF OpToRel
<1>2. IsWellFoundedOn(Less, Nat)
  BY NatLessThanWellFounded
<1> HIDE DEF Less
<1>3. IsWellFoundedOn(Pairs, Nat \X Nat)
  BY <1>2, WFLexPairOrdering
<1>4. \A a, b, c, d \in Nat :
        a < c \/ (a = c /\ b < d) => << <<a, b>>, <<c, d>> >> \in Pairs
  BY <1>1 DEF LexPairOrdering
<1> HIDE DEF Pairs
<1>5. IsWellFoundedOn(Triples, (Nat \X Nat) \X Nat)
  BY <1>2, <1>3, WFLexPairOrdering
<1>6. \A p, q \in Nat \X Nat, m, n \in Nat :
        <<p, q>> \in Pairs \/ (p = q /\ m < n) => << <<p, m>>, <<q, n>> >> \in Triples
  BY <1>1 DEF LexPairOrdering
<1> HIDE DEF Triples
<1>7. \A x \in Runs : Budget(x) \in (Nat \X Nat) \X Nat
  BY BudgetType DEF Budget
<1>8. ASSUME NEW x \in Runs, NEW y \in Runs, Advances(x, y)
      PROVE  <<Budget(y), Budget(x)>> \in Triples
  <2>1. PICK a \in Nat, b \in Nat, m \in Nat : Budget(x) = << <<a, b>>, m >>
    BY <1>7
  <2>2. PICK c \in Nat, d \in Nat, n \in Nat : Budget(y) = << <<c, d>>, n >>
    BY <1>7
  <2>3. c < a \/ (c = a /\ d < b) \/ (<<c, d>> = <<a, b>> /\ n < m)
    BY <1>8, <2>1, <2>2 DEF Advances
  <2>4. << <<c, d>>, <<a, b>> >> \in Pairs \/ (<<c, d>> = <<a, b>> /\ n < m)
    BY <1>4, <2>3
  <2> QED
    BY <1>6, <2>1, <2>2, <2>4
<1> SUFFICES ASSUME NEW f \in [Nat -> Runs],
                    \A n \in Nat : Advances(f[n], f[n + 1])
             PROVE  FALSE
  OBVIOUS
<1> DEFINE g == [n \in Nat |-> Budget(f[n])]
<1>9. g \in [Nat -> (Nat \X Nat) \X Nat]
  BY <1>7
<1>10. ASSUME NEW n \in Nat
       PROVE  <<g[n + 1], g[n]>> \in Triples
  BY <1>8
<1> HIDE DEF g
<1> QED
  BY <1>5, <1>9, <1>10 DEF IsWellFoundedOn

-----------------------------------------------------------------------------
(* What each step does to the requests of the histories.                   *)

(* A handler moves to a copy that requests no call twice, and leaves the   *)
(* others and the rows as they are.                                        *)
LEMMA OnceStep ==
  ASSUME TypeOK, RequestsHaveOnePlace, UNCHANGED store,
         NEW r \in Requests, NEW x, Becomes(r, x), RequestedOnce(x.messages)
  PROVE  RequestsHaveOnePlace'
<1>1. /\ run'[r] = x
      /\ \A q \in Requests \ {r} : run'[q] = run[q]
  BY DEF Becomes, TypeOK
<1> QED
  BY <1>1 DEF RequestsHaveOnePlace

LEMMA OnceEmpty == RequestedOnce(<< >>)
BY DEF RequestedOnce

LEMMA OnceEnd ==
  ASSUME TypeOK, RequestsHaveOnePlace, UNCHANGED store,
         NEW r \in Requests, NEW how \in {"done", "failed"}, Becomes(r, Ended(how))
  PROVE  RequestsHaveOnePlace'
<1>1. RequestedOnce(Ended(how).messages)
  BY EndedRun, OnceEmpty
<1> QED
  BY <1>1, OnceStep

(* The history of a client requests nothing.                               *)
LEMMA OnceClient ==
  ASSUME NEW h \in ClientHistories
  PROVE  RequestedOnce(h)
<1>1. h \in Seq({User, Assistant(<< >>)})
  BY AgentAssumption
<1>2. \A i \in DOMAIN h : h[i].role = "assistant" => h[i].toolCalls = << >>
  BY <1>1 DEF User, Assistant
<1> QED
  BY <1>2 DEF RequestedOnce

LEMMA OnceChat ==
  ASSUME NEW c, NEW h \in Histories, RequestedOnce(h)
  PROVE  RequestedOnce([Start EXCEPT !.pc = "loop", !.kind = "chat", !.conv = c,
                                     !.messages = Append(h, User)].messages)
<1>1. User \in Messages /\ User.role # "assistant"
  BY DEF User, Messages
<1>2. RequestedOnce(Append(h, User))
  BY <1>1, OnceAppend
<1> QED
  BY <1>2 DEF Start

LEMMA OnceArrive ==
  ASSUME TypeOK, RequestsHaveOnePlace, NEW r \in Requests, Arrive(r)
  PROVE  RequestsHaveOnePlace'
<1>1. CASE NotFound(r)
  BY <1>1, OnceEnd DEF NotFound
<1>2. ASSUME NEW c \in Conversations, NEW h \in ClientHistories, ChatNew(r, c, h)
      PROVE  RequestsHaveOnePlace'
  <2> DEFINE x == [Start EXCEPT !.pc = "loop", !.kind = "chat", !.conv = c,
                                !.messages = Append(h, User)]
  <2>1. h \in Histories /\ RequestedOnce(h)
    BY ClientHistory, OnceClient
  <2>2. RequestedOnce(x.messages)
    BY <2>1, OnceChat
  <2>3. Becomes(r, x)
    BY <1>2 DEF ChatNew, StartChat
  <2> HIDE DEF x
  <2>4. /\ run'[r] = x
        /\ \A q \in Requests \ {r} : run'[q] = run[q]
    BY <2>3 DEF Becomes, TypeOK
  <2>5. /\ store'[c].messages = h
        /\ \A d \in Conversations \ {c} : store'[d] = store[d]
    BY <1>2 DEF ChatNew, TypeOK
  <2> QED
    BY <2>1, <2>2, <2>4, <2>5 DEF RequestsHaveOnePlace
<1>3. ASSUME NEW c \in Conversations, ChatExisting(r, c)
      PROVE  RequestsHaveOnePlace'
  <2>1. store[c].messages \in Histories /\ RequestedOnce(store[c].messages)
    BY DEF TypeOK, Rows, RequestsHaveOnePlace
  <2> QED
    BY <1>3, <2>1, OnceChat, OnceStep DEF ChatExisting, StartChat
<1>4. ASSUME NEW c \in Conversations, NEW n \in 1..MaxDecisions,
             NEW decisions \in [1..n -> Decisions], ApproveRefused(r, c, decisions)
      PROVE  RequestsHaveOnePlace'
  BY <1>4, OnceEnd DEF ApproveRefused
<1>5. ASSUME NEW c \in Conversations, NEW n \in 1..MaxDecisions,
             NEW decisions \in [1..n -> Decisions], ApproveAccepted(r, c, decisions)
      PROVE  RequestsHaveOnePlace'
  <2> DEFINE x == [Start EXCEPT
                     !.pc = "resolving", !.kind = "approve", !.conv = c,
                     !.messages = store[c].messages, !.iterations = 1,
                     !.todo = Pending(store[c].messages),
                     !.approved = ApprovedBy(decisions)]
  <2>1. x.messages = store[c].messages
    BY DEF Start
  <2>2. Becomes(r, x) /\ UNCHANGED store
    BY <1>5 DEF ApproveAccepted, Accept
  <2>3. RequestedOnce(x.messages)
    BY <2>1 DEF RequestsHaveOnePlace
  <2> QED
    BY <2>2, <2>3, OnceStep
<1> QED
  BY <1>1, <1>2, <1>3, <1>4, <1>5 DEF Arrive

LEMMA OnceHandler ==
  ASSUME TypeOK, CopiesAreSound, RequestsHaveOnePlace, NEW r \in Requests, Step(r)
  PROVE  RequestsHaveOnePlace'
<1> DEFINE h == run[r].messages
<1>1. /\ run[r] \in Runs /\ h \in Histories /\ RequestedOnce(h)
      /\ run[r].pc \notin {"idle", "done", "failed"} => Requested(h) \subseteq issued
      /\ issued \subseteq Calls
  BY RunFields DEF TypeOK, RequestsHaveOnePlace, CopiesAreSound, SoundCopy, SoundHistory
<1>2. ASSUME NEW c \in Calls, ResolveNext(r, c) \/ ExecuteMutating(r, c)
      PROVE  RequestsHaveOnePlace'
  <2>1. UNCHANGED store /\ \E content \in {"result", "REJECTED_BY_USER"} : Answer(r, c, content)
    BY <1>2 DEF ResolveNext, ExecuteMutating
  <2>2. PICK content \in {"result", "REJECTED_BY_USER"} : Answer(r, c, content)
    BY <2>1
  <2> DEFINE m == ToolMessage(c, content)
             x == AfterAnswer(run[r], c, content)
  <2>3. m \in Messages /\ m.role # "assistant"
    BY DEF ToolMessage, Messages
  <2>4. x.messages = Append(h, m)
    BY <1>1 DEF AfterAnswer, Runs
  <2> HIDE DEF m
  <2>5. RequestedOnce(Append(h, m))
    BY <1>1, <2>3, OnceAppend
  <2>6. RequestedOnce(x.messages) /\ Becomes(r, x)
    BY <2>2, <2>4, <2>5 DEF Answer
  <2> QED
    BY <2>1, <2>6, OnceStep
<1>3. ASSUME \/ Resume(r) \/ StopEarly(r) \/ CallModel(r) \/ ModelFails(r)
             \/ ModelFinishes(r) \/ EndBatch(r) \/ PersistFails(r)
             \/ \E c \in Calls : ReadOnlySettles(r, c)
      PROVE  RequestsHaveOnePlace'
  <2>1. ASSUME \E x : Becomes(r, x), UNCHANGED store, run'[r].messages \in {h, << >>}
        PROVE  RequestsHaveOnePlace'
    <3>1. PICK x : Becomes(r, x)
      BY <2>1
    <3>2. run'[r] = x
      BY <3>1 DEF Becomes, TypeOK
    <3> QED
      BY <1>1, <2>1, <3>1, <3>2, OnceEmpty, OnceStep
  <2>2. CASE Resume(r) \/ StopEarly(r) \/ CallModel(r) \/ ModelFinishes(r)
    <3>1. (\E x : Becomes(r, x)) /\ UNCHANGED store
      BY <2>2 DEF Resume, StopEarly, CallModel, ModelFinishes
    <3> QED
      BY <2>1, <2>2, <3>1, LoopStepKeeps
  <2>3. CASE ModelFails(r)
    <3>1. (\E x : Becomes(r, x)) /\ UNCHANGED store
      BY <2>3 DEF ModelFails
    <3>2. CASE run[r].attempt < MaxRetries
      BY <2>1, <2>3, <3>1, <3>2, LoopStepKeeps
    <3>3. CASE ~ (run[r].attempt < MaxRetries)
      BY <2>3, <3>3, OnceEnd DEF ModelFails
    <3> QED
      BY <3>2, <3>3
  <2>4. CASE EndBatch(r)
    <3>1. (\E x : Becomes(r, x)) /\ UNCHANGED store
      BY <2>4 DEF EndBatch
    <3> QED
      BY <2>1, <2>4, <3>1, EndBatchKeeps
  <2>5. CASE PersistFails(r)
    BY <2>5, OnceEnd DEF PersistFails
  <2>6. ASSUME NEW c \in Calls, ReadOnlySettles(r, c)
        PROVE  RequestsHaveOnePlace'
    <3>1. (\E x : Becomes(r, x)) /\ UNCHANGED store
      BY <2>6 DEF ReadOnlySettles
    <3> QED
      BY <2>1, <2>6, <3>1, SettleKeeps
  <2> QED
    BY <1>3, <2>2, <2>3, <2>4, <2>5, <2>6
<1>4. ASSUME NEW batch \in Batches, ModelRequestsTools(r, batch)
      PROVE  RequestsHaveOnePlace'
  <2> DEFINE g == Append(h, Assistant(batch))
             x == [run[r] EXCEPT !.pc = "reading", !.attempt = 0,
                                 !.messages = g, !.response = batch,
                                 !.inFlight = Range(batch) \cap ReadOnly]
  <2>1. batch \in Seq(Calls) /\ Range(batch) \cap Requested(h) = {}
    BY <1>1, <1>4, BatchFacts DEF ModelRequestsTools
  <2>2. \A k, l \in DOMAIN batch : batch[k] = batch[l] => k = l
    BY DEF Batches, Injection, IsInjective
  <2>3. RequestedOnce(g)
    BY <1>1, <2>1, <2>2, OnceBatch
  <2>4. Becomes(r, x) /\ UNCHANGED store
    BY <1>4 DEF ModelRequestsTools
  <2> HIDE DEF g
  <2>5. x.messages = g
    BY <1>1 DEF Runs
  <2> QED
    BY <2>3, <2>4, <2>5, OnceStep
<1>5. ASSUME RecordReadOnly(r)
      PROVE  RequestsHaveOnePlace'
  <2> DEFINE S == Range(run[r].response) \cap ReadOnly
             Results(s) == [i \in DOMAIN s |-> ToolMessage(s[i], "result")]
             X(s) == [run[r] EXCEPT
                        !.pc = "writing",
                        !.messages = @ \o Results(s),
                        !.todo = Range(run[r].response) \cap Mutating]
  <2>1. PICK s \in Bijection(1..Cardinality(S), S) : Becomes(r, X(s))
    BY <1>5 DEF RecordReadOnly, InOrder
  <2>2. S \subseteq Calls /\ Cardinality(S) \in Nat
    BY CallsAssumption, Partition, FS_Subset, FS_CardinalityType
  <2>3. s \in [1..Cardinality(S) -> S]
    BY <2>1 DEF Bijection, Injection
  <2> DEFINE t == Results(s)
  <2>4. t \in Histories /\ \A i \in DOMAIN t : t[i].role # "assistant"
    <3>1. \A c \in Calls : ToolMessage(c, "result") \in Messages
                              /\ ToolMessage(c, "result").role = "tool"
      BY DEF ToolMessage, Messages
    <3>2. \A i \in DOMAIN t : t[i] \in Messages /\ t[i].role = "tool"
      BY <2>2, <2>3, <3>1
    <3>3. t \in [1..Cardinality(S) -> Messages]
      BY <2>3, <3>2
    <3> HIDE DEF t, S
    <3>4. t \in Seq(Messages)
      BY <2>2, <3>3
    <3> QED
      BY <3>2, <3>4 DEF Histories
  <2>5. RequestedOnce(h \o t)
    BY <1>1, <2>4, OnceResults
  <2> HIDE DEF t, Results
  <2>6. X(s).messages = h \o t
    BY <1>1 DEF Runs, t
  <2>7. UNCHANGED store
    BY <1>5 DEF RecordReadOnly
  <2> QED
    BY <2>1, <2>5, <2>6, <2>7, OnceStep
<1>6. ASSUME Persist(r)
      PROVE  RequestsHaveOnePlace'
  <2>1. /\ \A q \in Requests \ {r} : run'[q] = run[q]
        /\ run'[r] = Ended("done")
    BY <1>6 DEF Persist, Becomes, TypeOK
  <2>2. RequestedOnce(run'[r].messages)
    BY <2>1, EndedRun, OnceEmpty
  <2>3. \A c \in Conversations :
          store'[c].messages = store[c].messages \/ store'[c].messages = h
    BY <1>6 DEF Persist, TypeOK
  <2> QED
    BY <1>1, <2>1, <2>2, <2>3 DEF RequestsHaveOnePlace
<1> QED
  BY <1>2, <1>3, <1>4, <1>5, <1>6 DEF Step

(* No history, stored or in a handler's hands, requests a call at two      *)
(* places: the ids of a batch are new, and nothing else adds requests.     *)
THEOREM OnePlace == Spec => []RequestsHaveOnePlace
<1>1. Init => RequestsHaveOnePlace
  <2> SUFFICES ASSUME Init PROVE RequestsHaveOnePlace
    OBVIOUS
  <2>1. /\ \A c \in Conversations : store[c].messages = << >>
        /\ \A r \in Requests : run[r].messages = << >>
    BY StartRun DEF Init, Absent
  <2> QED
    BY <2>1, OnceEmpty DEF RequestsHaveOnePlace
<1>2. Inv /\ RequestsHaveOnePlace /\ [Next]_vars => RequestsHaveOnePlace'
  <2> SUFFICES ASSUME Inv, RequestsHaveOnePlace, [Next]_vars
               PROVE  RequestsHaveOnePlace'
    OBVIOUS
  <2>1. TypeOK /\ CopiesAreSound
    BY DEF Inv
  <2>2. CASE Crash
    <3>1. \A r \in Requests : run'[r] = run[r] \/ run'[r] = Ended("failed")
      BY <2>2 DEF Crash
    <3>2. RequestedOnce(Ended("failed").messages) /\ UNCHANGED store
      BY <2>2, EndedRun, OnceEmpty DEF Crash
    <3> QED
      BY <3>1, <3>2 DEF RequestsHaveOnePlace
  <2>3. CASE UNCHANGED vars
    BY <2>3 DEF vars, RequestsHaveOnePlace
  <2>4. ASSUME NEW r \in Requests, Arrive(r) \/ Step(r)
        PROVE  RequestsHaveOnePlace'
    BY <2>1, <2>4, OnceArrive, OnceHandler
  <2> QED
    BY <2>2, <2>3, <2>4 DEF Next, Quiet
<1> QED
  BY <1>1, <1>2, Invariance, PTL DEF Spec

(* No handler is ever stuck: until it has ended there is a step it can     *)
(* take, whatever the other handlers do, and the order of the history      *)
(* leaves it no choice of the call to take it with.                        *)
THEOREM NeverStuck == Spec => []NobodyIsStuck
<1>1. ASSUME Inv, RequestsHaveOnePlace, NEW r \in Requests, Active(r)
      PROVE  HasStep(run[r])
  <2> DEFINE x == run[r]
             h == x.messages
  <2>1. x \in Runs /\ SoundCopy(x, issued) /\ h \in Histories /\ RequestedOnce(h)
    BY <1>1, RunFields DEF Inv, TypeOK, CopiesAreSound, RequestsHaveOnePlace
  <2>2. x.pc \in {"resolving", "writing"} => x.todo \subseteq Requested(h)
    BY <1>1, <2>1 DEF SoundCopy, Active, Pending
  <2>3. x.pc = "reading" => Range(x.response) \subseteq Requested(h)
    BY <1>1, <2>1 DEF SoundCopy, Active, Pending
  <2>4. x.todo \subseteq Calls
    BY <2>1, RunFields
  <2> HIDE DEF x, h
  <2>5. ASSUME x.pc \in {"resolving", "writing"}, x.todo # {}
        PROVE  Cardinality({ c \in Calls : IsNext(h, c, x.todo) }) = 1
    <3>1. PICK c \in x.todo : IsNext(h, c, x.todo)
      BY <2>1, <2>2, <2>5, NextExists
    <3>2. { d \in Calls : IsNext(h, d, x.todo) } = {c}
      BY <2>1, <2>4, <3>1, NextIsOne
    <3> QED
      BY <3>2, FS_Singleton
  <2>6. ASSUME x.pc = "reading"
        PROVE  Cardinality(InOrder(h, Range(x.response) \cap ReadOnly)) = 1
    <3> DEFINE S == Range(x.response) \cap ReadOnly
    <3>1. S \in SUBSET Requested(h) /\ S \in SUBSET Calls
      BY <2>3, <2>6, Partition
    <3> HIDE DEF S
    <3>2. PICK s : s \in InOrder(h, S)
      BY <2>1, <3>1, OrderExists
    <3>3. InOrder(h, S) = {s}
      BY <2>1, <3>1, <3>2, OrderIsOne
    <3> QED
      BY <3>3, FS_Singleton DEF S
  <2> QED
    BY <2>5, <2>6 DEF HasStep, x, h
<1>2. Inv /\ RequestsHaveOnePlace => NobodyIsStuck
  BY <1>1 DEF NobodyIsStuck
<1> QED
  BY <1>2, Invariance, OnePlace, PTL
-----------------------------------------------------------------------------
(* The order in which the read-only calls of a batch are answered.         *)

(* A handler moves to a copy that keeps the order, and leaves the others   *)
(* and the rows as they are.                                               *)
LEMMA ReadsStep ==
  ASSUME TypeOK, ReadsAreOrdered, UNCHANGED store,
         NEW r \in Requests, NEW x, Becomes(r, x), ReadsInOrder(x.messages),
         x.pc = "reading" => /\ x.messages # << >>
                             /\ x.messages[Len(x.messages)] = Assistant(x.response)
  PROVE  ReadsAreOrdered'
<1>1. /\ run'[r] = x
      /\ \A q \in Requests \ {r} : run'[q] = run[q]
  BY DEF Becomes, TypeOK
<1> QED
  BY <1>1 DEF ReadsAreOrdered

(* A history without results is in order.                                  *)
LEMMA ReadsClient ==
  ASSUME NEW h \in Histories, \A i \in DOMAIN h : h[i].role # "tool"
  PROVE  ReadsInOrder(h)
BY DEF ReadsInOrder

LEMMA ReadsEmpty == ReadsInOrder(<< >>)
BY DEF ReadsInOrder

LEMMA ReadsEnd ==
  ASSUME TypeOK, ReadsAreOrdered, UNCHANGED store,
         NEW r \in Requests, NEW how \in {"done", "failed"}, Becomes(r, Ended(how))
  PROVE  ReadsAreOrdered'
<1> DEFINE x == Ended(how)
<1>1. x.pc = how /\ x.messages = << >>
  BY EndedRun
<1>2. Becomes(r, x)
  OBVIOUS
<1> HIDE DEF x
<1> QED
  BY <1>1, <1>2, ReadsEmpty, ReadsStep

(* A turn of the user keeps the order.                                     *)
LEMMA ReadsChat ==
  ASSUME NEW c, NEW h \in Histories, ReadsInOrder(h),
         NEW x, x = [Start EXCEPT !.pc = "loop", !.kind = "chat", !.conv = c,
                                  !.messages = Append(h, User)]
  PROVE  ReadsInOrder(x.messages) /\ x.pc = "loop"
<1>1. User \in Messages /\ User.role # "tool"
  BY DEF User, Messages
<1>2. ReadsInOrder(Append(h, User))
  BY <1>1, ReadsAppend
<1> QED
  BY <1>2 DEF Start

LEMMA ReadsArrive ==
  ASSUME TypeOK, ReadsAreOrdered, NEW r \in Requests, Arrive(r)
  PROVE  ReadsAreOrdered'
<1>1. CASE NotFound(r)
  BY <1>1, ReadsEnd DEF NotFound
<1>2. ASSUME NEW c \in Conversations, NEW h \in ClientHistories, ChatNew(r, c, h)
      PROVE  ReadsAreOrdered'
  <2> DEFINE x == [Start EXCEPT !.pc = "loop", !.kind = "chat", !.conv = c,
                                !.messages = Append(h, User)]
  <2>1. h \in Histories /\ ReadsInOrder(h)
    <3>1. h \in Histories /\ h \in Seq({User, Assistant(<< >>)})
      BY ClientHistory, AgentAssumption
    <3>2. \A i \in DOMAIN h : h[i].role # "tool"
      BY <3>1 DEF User, Assistant
    <3> QED
      BY <3>1, <3>2, ReadsClient
  <2>2. ReadsInOrder(x.messages) /\ x.pc = "loop"
    BY <2>1, ReadsChat
  <2>3. Becomes(r, x)
    BY <1>2 DEF ChatNew, StartChat
  <2> HIDE DEF x
  <2>4. /\ run'[r] = x
        /\ \A q \in Requests \ {r} : run'[q] = run[q]
    BY <2>3 DEF Becomes, TypeOK
  <2>5. /\ store'[c].messages = h
        /\ \A d \in Conversations \ {c} : store'[d] = store[d]
    BY <1>2 DEF ChatNew, TypeOK
  <2> QED
    BY <2>1, <2>2, <2>4, <2>5 DEF ReadsAreOrdered
<1>3. ASSUME NEW c \in Conversations, ChatExisting(r, c)
      PROVE  ReadsAreOrdered'
  <2> DEFINE h == store[c].messages
             x == [Start EXCEPT !.pc = "loop", !.kind = "chat", !.conv = c,
                                !.messages = Append(h, User)]
  <2>1. h \in Histories /\ ReadsInOrder(h)
    BY DEF TypeOK, Rows, ReadsAreOrdered
  <2>2. Becomes(r, x) /\ UNCHANGED store
    BY <1>3 DEF ChatExisting, StartChat
  <2>3. ReadsInOrder(x.messages) /\ x.pc = "loop"
    BY <2>1, ReadsChat
  <2> HIDE DEF x
  <2> QED
    BY <2>2, <2>3, ReadsStep
<1>4. ASSUME NEW c \in Conversations, NEW n \in 1..MaxDecisions,
             NEW decisions \in [1..n -> Decisions], ApproveRefused(r, c, decisions)
      PROVE  ReadsAreOrdered'
  BY <1>4, ReadsEnd DEF ApproveRefused
<1>5. ASSUME NEW c \in Conversations, NEW n \in 1..MaxDecisions,
             NEW decisions \in [1..n -> Decisions], ApproveAccepted(r, c, decisions)
      PROVE  ReadsAreOrdered'
  <2> DEFINE x == [Start EXCEPT
                     !.pc = "resolving", !.kind = "approve", !.conv = c,
                     !.messages = store[c].messages, !.iterations = 1,
                     !.todo = Pending(store[c].messages),
                     !.approved = ApprovedBy(decisions)]
  <2>1. x.messages = store[c].messages /\ x.pc = "resolving"
    BY DEF Start
  <2>2. Becomes(r, x) /\ UNCHANGED store
    BY <1>5 DEF ApproveAccepted, Accept
  <2> HIDE DEF x
  <2>3. ReadsInOrder(x.messages)
    BY <2>1 DEF ReadsAreOrdered
  <2> QED
    BY <2>1, <2>2, <2>3, ReadsStep
<1> QED
  BY <1>1, <1>2, <1>3, <1>4, <1>5 DEF Arrive

(* The calls a for loop answers are not read-only.                         *)
LEMMA ReadsAnswer ==
  ASSUME TypeOK, CopiesAreSound, ReadsAreOrdered, NEW r \in Requests,
         NEW c \in Calls, ResolveNext(r, c) \/ ExecuteMutating(r, c)
  PROVE  ReadsAreOrdered'
<1> DEFINE h == run[r].messages
<1>1. /\ run[r] \in Runs /\ h \in Histories /\ ReadsInOrder(h)
      /\ SoundCopy(run[r], issued)
  BY RunFields DEF TypeOK, ReadsAreOrdered, CopiesAreSound
<1>2. /\ run[r].pc \in {"resolving", "writing"} /\ c \in run[r].todo
      /\ UNCHANGED store
      /\ \E content \in {"result", "REJECTED_BY_USER"} : Answer(r, c, content)
  BY DEF ResolveNext, ExecuteMutating, IsNext
<1>3. c \notin ReadOnly
  BY <1>1, <1>2 DEF SoundCopy, ReadOnly
<1>4. PICK content \in {"result", "REJECTED_BY_USER"} : Answer(r, c, content)
  BY <1>2
<1> DEFINE m == ToolMessage(c, content)
           x == AfterAnswer(run[r], c, content)
<1>5. m \in Messages /\ m.toolCallId = c
  BY DEF ToolMessage, Messages
<1>6. x.messages = Append(h, m) /\ x.pc = run[r].pc
  BY <1>1 DEF AfterAnswer, Runs
<1>7. Becomes(r, x)
  BY <1>4 DEF Answer
<1> HIDE DEF m, x
<1>8. ReadsInOrder(Append(h, m))
  BY <1>1, <1>3, <1>5, ReadsAppend
<1> QED
  BY <1>2, <1>6, <1>7, <1>8, ReadsStep

(* The results of a batch are recorded behind the turn that asks for them. *)
LEMMA ReadsRecord ==
  ASSUME TypeOK, CopiesAreSound, ReadsAreOrdered, NEW r \in Requests,
         RecordReadOnly(r)
  PROVE  ReadsAreOrdered'
<1> DEFINE h == run[r].messages
           S == Range(run[r].response) \cap ReadOnly
           Results(s) == [i \in DOMAIN s |-> ToolMessage(s[i], "result")]
           X(s) == [run[r] EXCEPT
                      !.pc = "writing",
                      !.messages = @ \o Results(s),
                      !.todo = Range(run[r].response) \cap Mutating]
<1>1. PICK s \in InOrder(h, S) : Becomes(r, X(s))
  BY DEF RecordReadOnly
<1>2. run[r].pc = "reading" /\ UNCHANGED store
  BY DEF RecordReadOnly
<1>3. /\ run[r] \in Runs /\ h \in Histories /\ ReadsInOrder(h) /\ WellFormed(h)
      /\ h # << >> /\ h[Len(h)] = Assistant(run[r].response)
  BY <1>2, RunFields DEF TypeOK, ReadsAreOrdered, CopiesAreSound, SoundCopy, SoundHistory
<1>4. h[Len(h)].role = "assistant" /\ S \subseteq Range(h[Len(h)].toolCalls)
  BY <1>3 DEF Assistant
<1>5. S \in SUBSET Calls
  BY Partition
<1>6. ReadsInOrder(h \o Results(s))
  <2> HIDE DEF h, S
  <2> QED
    BY <1>1, <1>3, <1>4, <1>5, ReadsResults
<1> HIDE DEF Results
<1>7. X(s).messages = h \o Results(s) /\ X(s).pc = "writing"
  BY <1>3 DEF Runs
<1> DEFINE x == X(s)
<1>8. Becomes(r, x) /\ ReadsInOrder(x.messages) /\ x.pc # "reading"
  BY <1>1, <1>6, <1>7
<1> HIDE DEF x
<1> QED
  BY <1>2, <1>8, ReadsStep

LEMMA ReadsHandler ==
  ASSUME TypeOK, CopiesAreSound, ReadsAreOrdered, NEW r \in Requests, Step(r)
  PROVE  ReadsAreOrdered'
<1> DEFINE h == run[r].messages
<1>1. run[r] \in Runs /\ h \in Histories /\ ReadsInOrder(h)
  BY RunFields DEF TypeOK, ReadsAreOrdered
<1>2. ASSUME NEW c \in Calls, ResolveNext(r, c) \/ ExecuteMutating(r, c)
      PROVE  ReadsAreOrdered'
  BY <1>2, ReadsAnswer
<1>3. CASE RecordReadOnly(r)
  BY <1>3, ReadsRecord
<1>4. ASSUME \/ Resume(r) \/ StopEarly(r) \/ CallModel(r) \/ ModelFails(r)
             \/ ModelFinishes(r) \/ EndBatch(r) \/ PersistFails(r)
      PROVE  ReadsAreOrdered'
  <2>1. ASSUME \E x : Becomes(r, x), UNCHANGED store,
               run'[r].messages = h, run'[r].pc # "reading"
        PROVE  ReadsAreOrdered'
    <3>1. PICK x : Becomes(r, x)
      BY <2>1
    <3>2. run'[r] = x
      BY <3>1 DEF Becomes, TypeOK
    <3> QED
      BY <1>1, <2>1, <3>1, <3>2, ReadsStep
  <2>2. CASE Resume(r) \/ StopEarly(r) \/ CallModel(r) \/ ModelFinishes(r)
    <3>1. (\E x : Becomes(r, x)) /\ UNCHANGED store
      BY <2>2 DEF Resume, StopEarly, CallModel, ModelFinishes
    <3> QED
      BY <2>1, <2>2, <3>1, LoopStepKeeps
  <2>3. CASE ModelFails(r)
    <3>1. (\E x : Becomes(r, x)) /\ UNCHANGED store
      BY <2>3 DEF ModelFails
    <3>2. CASE run[r].attempt < MaxRetries
      BY <2>1, <2>3, <3>1, <3>2, LoopStepKeeps
    <3>3. CASE ~ (run[r].attempt < MaxRetries)
      BY <2>3, <3>3, ReadsEnd DEF ModelFails
    <3> QED
      BY <3>2, <3>3
  <2>4. CASE EndBatch(r)
    <3>1. (\E x : Becomes(r, x)) /\ UNCHANGED store
      BY <2>4 DEF EndBatch
    <3> QED
      BY <2>1, <2>4, <3>1, EndBatchKeeps
  <2>5. CASE PersistFails(r)
    BY <2>5, ReadsEnd DEF PersistFails
  <2> QED
    BY <1>4, <2>2, <2>3, <2>4, <2>5
<1>5. ASSUME NEW c \in Calls, ReadOnlySettles(r, c)
      PROVE  ReadsAreOrdered'
  <2>1. run[r].pc = "reading" /\ UNCHANGED store
    BY <1>5 DEF ReadOnlySettles
  <2>2. PICK x : Becomes(r, x)
    BY <1>5 DEF ReadOnlySettles
  <2>3. run'[r] = x
    BY <2>2 DEF Becomes, TypeOK
  <2>4. x.messages = h /\ x.response = run[r].response
    BY <1>5, <2>3, SettleKeeps
  <2>5. h # << >> /\ h[Len(h)] = Assistant(run[r].response)
    BY <2>1 DEF ReadsAreOrdered
  <2> HIDE DEF h
  <2> QED
    BY <1>1, <2>1, <2>2, <2>4, <2>5, ReadsStep
<1>6. ASSUME NEW batch \in Batches, ModelRequestsTools(r, batch)
      PROVE  ReadsAreOrdered'
  <2> DEFINE m == Assistant(batch)
             g == Append(h, m)
             x == [run[r] EXCEPT !.pc = "reading", !.attempt = 0,
                                 !.messages = g, !.response = batch,
                                 !.inFlight = Range(batch) \cap ReadOnly]
  <2>1. batch \in Seq(Calls)
    BY <1>6, BatchFacts DEF TypeOK, ModelRequestsTools
  <2>2. m \in Messages /\ m.role # "tool"
    BY <2>1 DEF Messages, Assistant
  <2>3. Becomes(r, x) /\ UNCHANGED store
    BY <1>6 DEF ModelRequestsTools
  <2> HIDE DEF m
  <2>4. ReadsInOrder(g) /\ g # << >> /\ g[Len(g)] = m
    <3>1. ReadsInOrder(g)
      BY <1>1, <2>2, ReadsAppend
    <3> HIDE DEF h
    <3>2. Len(g) = Len(h) + 1 /\ g[Len(h) + 1] = m /\ Len(h) \in Nat
      BY <1>1, <2>2 DEF Histories
    <3> QED
      BY <3>1, <3>2
  <2> HIDE DEF g
  <2>5. x.messages = g /\ x.response = batch
    BY <1>1 DEF Runs
  <2> HIDE DEF x
  <2> QED
    BY <2>3, <2>4, <2>5, ReadsStep DEF m
<1>7. CASE Persist(r)
  <2>1. /\ \A q \in Requests \ {r} : run'[q] = run[q]
        /\ run'[r] = Ended("done")
    BY <1>7 DEF Persist, Becomes, TypeOK
  <2>2. run'[r].messages = << >> /\ run'[r].pc = "done"
    BY <2>1, EndedRun
  <2>3. \A c \in Conversations :
          store'[c].messages = store[c].messages \/ store'[c].messages = h
    BY <1>7 DEF Persist, TypeOK
  <2> QED
    BY <1>1, <2>1, <2>2, <2>3, ReadsEmpty DEF ReadsAreOrdered
<1> QED
  BY <1>2, <1>3, <1>4, <1>5, <1>6, <1>7 DEF Step

(* In every history, stored or in a handler's hands, the read-only calls   *)
(* are answered in the order they were requested in, although the calls of *)
(* a batch settle in any order (executeReadOnly).                          *)
THEOREM ReadsOrdered == Spec => []ReadsAreOrdered
<1>1. Init => ReadsAreOrdered
  <2> SUFFICES ASSUME Init PROVE ReadsAreOrdered
    OBVIOUS
  <2>1. /\ \A c \in Conversations : store[c].messages = << >>
        /\ \A r \in Requests : run[r].messages = << >> /\ run[r].pc = "idle"
    BY StartRun DEF Init, Absent
  <2> QED
    BY <2>1, ReadsEmpty DEF ReadsAreOrdered
<1>2. Inv /\ ReadsAreOrdered /\ [Next]_vars => ReadsAreOrdered'
  <2> SUFFICES ASSUME Inv, ReadsAreOrdered, [Next]_vars
               PROVE  ReadsAreOrdered'
    OBVIOUS
  <2>1. TypeOK /\ CopiesAreSound
    BY DEF Inv
  <2>2. CASE Crash
    <3>1. \A r \in Requests : run'[r] = run[r] \/ run'[r] = Ended("failed")
      BY <2>2 DEF Crash
    <3>2. /\ Ended("failed").messages = << >> /\ Ended("failed").pc = "failed"
          /\ UNCHANGED store
      BY <2>2, EndedRun DEF Crash
    <3> QED
      BY <3>1, <3>2, ReadsEmpty DEF ReadsAreOrdered
  <2>3. CASE UNCHANGED vars
    BY <2>3 DEF vars, ReadsAreOrdered
  <2>4. ASSUME NEW r \in Requests, Arrive(r) \/ Step(r)
        PROVE  ReadsAreOrdered'
    BY <2>1, <2>4, ReadsArrive, ReadsHandler
  <2> QED
    BY <2>2, <2>3, <2>4 DEF Next, Quiet
<1> QED
  BY <1>1, <1>2, Invariance, PTL DEF Spec

(* Every stored history can be read back, however stale the copy was that  *)
(* a handler wrote: each result follows its request, no request is         *)
(* answered twice, the parallel calls of a batch are answered in its       *)
(* order, and a stored result comes from an execution.                     *)
THEOREM HistoriesWellFormed == Spec => []StoredHistoriesWellFormed
<1>1. Inv /\ ReadsAreOrdered => StoredHistoriesWellFormed
  BY DEF Inv, CopiesAreSound, SoundHistory, ReadsAreOrdered,
         ResultsAreBacked, Backed, StoredHistoriesWellFormed, Stored
<1> QED
  BY <1>1, Invariance, ReadsOrdered, PTL
=============================================================================
