---------------------------- MODULE AgentProofs ----------------------------
(***************************************************************************)
(* The inductive invariant of Agent, and the safety properties it implies, *)
(* for every number of requests, conversations, calls and retries, every   *)
(* interleaving, and every combination of faults.                          *)
(***************************************************************************)
EXTENDS Agent, ConversationProofs, FiniteSetTheorems

-----------------------------------------------------------------------------
(* Facts that every step uses.                                             *)

(* The partition of runLoop covers the calls without overlap.              *)
LEMMA Partition ==
  /\ NeedsApproval \subseteq Calls /\ Mutating \subseteq Calls /\ ReadOnly \subseteq Calls
  /\ Mutating \cap NeedsApproval = {} /\ ReadOnly \cap NeedsApproval = {}
  /\ Mutating \cap ReadOnly = {}
  /\ Calls = NeedsApproval \cup Mutating \cup ReadOnly
BY DEF NeedsApproval, Mutating, ReadOnly

(* The fields of a local state, spelled out for the provers.               *)
LEMMA RunFields ==
  ASSUME NEW x \in Runs
  PROVE  /\ x.pc \in {"idle", "resolving", "loop", "llm", "reading", "writing",
                      "pausing", "finishing", "done", "failed"}
         /\ x.messages \in Histories /\ x.response \in Seq(Calls)
         /\ x.iterations \in Nat /\ x.attempt \in Nat
         /\ x.inFlight \subseteq Calls /\ x.todo \subseteq Calls
         /\ x.approved \subseteq Calls
BY DEF Runs

LEMMA EmptyHistory ==
  /\ << >> \in Histories /\ WellFormed(<< >>)
  /\ Requested(<< >>) = {} /\ Answered(<< >>) = {} /\ Pending(<< >>) = {}
BY DEF Histories, WellFormed, Requested, Answered, Pending

(* A history of plain text turns requests and answers nothing.             *)
LEMMA ClientHistory ==
  ASSUME NEW h \in ClientHistories
  PROVE  /\ h \in Histories /\ WellFormed(h)
         /\ Requested(h) = {} /\ Answered(h) = {} /\ Pending(h) = {}
<1>1. h \in Seq({User, Assistant(<< >>)})
  BY AgentAssumption
<1>2. {User, Assistant(<< >>)} \subseteq Messages
  BY DEF User, Assistant, Messages
<1>3. h \in Histories
  BY <1>1, <1>2 DEF Histories
<1>4. \A i \in DOMAIN h : h[i].role # "tool" /\ (\A c \in Calls : ~IsRequest(h[i], c))
  BY <1>1 DEF User, Assistant, IsRequest, Range
<1> QED
  BY <1>3, <1>4 DEF WellFormed, Requested, Answered, IsAnswer, Pending

(* A handler that has not started holds nothing.                           *)
LEMMA StartRun ==
  Start \in Runs /\ Start.pc = "idle" /\ Start.messages = << >>
BY DEF Start, Runs, Histories

(* Neither does one that ended.                                            *)
LEMMA EndedRun ==
  ASSUME NEW how \in {"done", "failed"}
  PROVE  /\ Ended(how) \in Runs
         /\ Ended(how).pc = how
         /\ \A ids : SoundCopy(Ended(how), ids)
         /\ Ended(how).messages = << >>
<1>1. Ended(how) \in Runs /\ Ended(how).pc = how /\ Ended(how).messages = << >>
  BY StartRun DEF Ended, Runs
<1> QED
  BY <1>1 DEF SoundCopy

(* A step of one handler leaves the copies of the others sound.            *)
LEMMA BecomesSound ==
  ASSUME TypeOK, CopiesAreSound,
         NEW r \in Requests, NEW x \in Runs, Becomes(r, x),
         issued \subseteq issued', SoundCopy(x, issued')
  PROVE  /\ run' \in [Requests -> Runs]
         /\ run'[r] = x
         /\ \A q \in Requests \ {r} : run'[q] = run[q]
         /\ \A q \in Requests : SoundCopy(run'[q], issued')
<1>1. /\ run' \in [Requests -> Runs] /\ run'[r] = x
      /\ \A q \in Requests \ {r} : run'[q] = run[q]
  BY DEF Becomes, TypeOK
<1>2. \A q \in Requests \ {r} : SoundCopy(run[q], issued')
  BY DEF CopiesAreSound, SoundCopy, SoundHistory
<1> QED
  BY <1>1, <1>2

(* Rows that are not written stay sound.                                   *)
LEMMA RowsSound ==
  ASSUME CopiesAreSound, UNCHANGED store, issued \subseteq issued'
  PROVE  /\ \A c \in Conversations : SoundHistory(store'[c].messages, issued')
         /\ PauseIsDecidable'
BY DEF CopiesAreSound, SoundHistory, PauseIsDecidable

-----------------------------------------------------------------------------
(* Each step, up to TypeOK and CopiesAreSound.                             *)

LEMMA CopiesInit == Init => TypeOK /\ CopiesAreSound
<1> SUFFICES ASSUME Init PROVE TypeOK /\ CopiesAreSound
  OBVIOUS
<1>1. Absent \in Rows /\ Absent.messages = << >> /\ Absent.status = "NONE"
  BY EmptyHistory DEF Absent, Rows
<1>2. Start \in Runs /\ Start.pc = "idle"
  BY StartRun
<1>3. /\ store \in [Conversations -> Rows] /\ run \in [Requests -> Runs]
      /\ \A c \in Conversations : store[c] = Absent
      /\ \A r \in Requests : run[r] = Start
  BY <1>1, <1>2 DEF Init
<1>4. issued \subseteq Calls
  BY DEF Init
<1>5. ran \in [Calls -> Nat]
  BY DEF Init
<1>6. granted \in [Calls -> SUBSET Requests]
  BY DEF Init
<1>7. TypeOK
  BY <1>3, <1>4, <1>5, <1>6 DEF TypeOK
<1>8. CopiesAreSound
  BY <1>1, <1>2, <1>3, EmptyHistory
     DEF CopiesAreSound, SoundCopy, SoundHistory, PauseIsDecidable
<1> QED
  BY <1>7, <1>8

(* The copy a chat starts from is sound when its history is.               *)
LEMMA StartChatSound ==
  ASSUME NEW c \in Conversations, NEW h \in Histories, NEW ids,
         SoundHistory(h, ids), Pending(h) \subseteq NeedsApproval
  PROVE  LET x == [Start EXCEPT !.pc = "loop", !.kind = "chat", !.conv = c,
                                !.messages = Append(h, User)]
         IN  x \in Runs /\ x.pc = "loop" /\ SoundCopy(x, ids)
<1> DEFINE g == Append(h, User)
           x == [Start EXCEPT !.pc = "loop", !.kind = "chat", !.conv = c,
                              !.messages = g]
<1>1. g \in Histories /\ WellFormed(g) /\ Requested(g) = Requested(h)
      /\ Pending(g) = Pending(h)
  BY AppendUser DEF SoundHistory, Pending
<1> HIDE DEF g
<1>2. x \in Runs /\ x.pc = "loop" /\ x.conv = c /\ x.messages = g
  BY <1>1, StartRun DEF Runs
<1>3. SoundCopy(x, ids)
  BY <1>1, <1>2 DEF SoundCopy, SoundHistory
<1> QED
  BY <1>2, <1>3 DEF g

LEMMA ChatNewSound ==
  ASSUME TypeOK, CopiesAreSound, NEW r \in Requests, NEW c \in Conversations,
         NEW h \in ClientHistories, ChatNew(r, c, h)
  PROVE  TypeOK' /\ CopiesAreSound'
<1> DEFINE x == [Start EXCEPT !.pc = "loop", !.kind = "chat", !.conv = c,
                              !.messages = Append(h, User)]
           row == [status |-> "ACTIVE", messages |-> h]
<1>1. /\ h \in Histories /\ SoundHistory(h, issued)
      /\ Pending(h) = {}
  BY ClientHistory DEF SoundHistory
<1>2. x \in Runs /\ SoundCopy(x, issued)
  BY <1>1, StartChatSound
<1>3. Becomes(r, x) /\ UNCHANGED <<issued, ran, granted>>
  BY DEF ChatNew, StartChat
<1> HIDE DEF x
<1>4. /\ run' \in [Requests -> Runs]
      /\ \A q \in Requests : SoundCopy(run'[q], issued')
  BY <1>2, <1>3, BecomesSound
<1>5. row \in Rows /\ row.messages = h /\ row.status = "ACTIVE"
  BY <1>1 DEF Rows
<1>6. store' = [store EXCEPT ![c] = row]
  BY DEF ChatNew
<1> HIDE DEF row
<1>7. TypeOK'
  BY <1>3, <1>4, <1>5, <1>6 DEF TypeOK
<1>8. \A d \in Conversations : SoundHistory(store'[d].messages, issued')
  BY <1>1, <1>3, <1>5, <1>6 DEF CopiesAreSound, TypeOK
<1>9. PauseIsDecidable'
  BY <1>1, <1>5, <1>6 DEF CopiesAreSound, PauseIsDecidable, TypeOK
<1> QED
  BY <1>4, <1>7, <1>8, <1>9 DEF CopiesAreSound

(* The steps that write no row: it is enough to know the new local state.  *)
LEMMA LocalStepSound ==
  ASSUME TypeOK, CopiesAreSound, NEW r \in Requests, NEW x \in Runs,
         Becomes(r, x), UNCHANGED store,
         issued \subseteq issued', issued' \subseteq Calls,
         ran' \in [Calls -> Nat], granted' \in [Calls -> SUBSET Requests],
         SoundCopy(x, issued')
  PROVE  TypeOK' /\ CopiesAreSound'
<1>1. run' \in [Requests -> Runs] /\ \A q \in Requests : SoundCopy(run'[q], issued')
  BY BecomesSound
<1>2. TypeOK'
  BY <1>1 DEF TypeOK
<1>3. CopiesAreSound'
  BY <1>1, RowsSound DEF CopiesAreSound
<1> QED
  BY <1>2, <1>3

LEMMA ExecuteType ==
  ASSUME TypeOK, NEW c \in Calls, Execute(c)
  PROVE  /\ ran' \in [Calls -> Nat] /\ ran'[c] = ran[c] + 1
         /\ \A d \in Calls \ {c} : ran'[d] = ran[d]
BY DEF TypeOK, Execute

LEMMA ChatExistingSound ==
  ASSUME TypeOK, CopiesAreSound, NEW r \in Requests, NEW c \in Conversations,
         ChatExisting(r, c)
  PROVE  TypeOK' /\ CopiesAreSound'
<1> DEFINE h == store[c].messages
           x == [Start EXCEPT !.pc = "loop", !.kind = "chat", !.conv = c,
                              !.messages = Append(h, User)]
<1>1. h \in Histories /\ SoundHistory(h, issued) /\ Pending(h) \subseteq NeedsApproval
  BY DEF TypeOK, Rows, CopiesAreSound, PauseIsDecidable
<1>2. Becomes(r, x) /\ UNCHANGED <<store, issued, ran, granted>>
  BY DEF ChatExisting, StartChat
<1> HIDE DEF h
<1>3. x \in Runs /\ SoundCopy(x, issued)
  BY <1>1, StartChatSound
<1> HIDE DEF x
<1> QED
  BY <1>2, <1>3, LocalStepSound DEF TypeOK

(* A request that ends without writing.                                    *)
LEMMA EndSound ==
  ASSUME TypeOK, CopiesAreSound, NEW r \in Requests,
         Becomes(r, Ended("failed")), UNCHANGED <<store, issued, ran, granted>>
  PROVE  TypeOK' /\ CopiesAreSound'
BY EndedRun, LocalStepSound DEF TypeOK

LEMMA ApproveAcceptedSound ==
  ASSUME TypeOK, CopiesAreSound, NEW r \in Requests, NEW c \in Conversations,
         NEW n \in 1..MaxDecisions, NEW decisions \in [1..n -> Decisions],
         ApproveAccepted(r, c, decisions)
  PROVE  TypeOK' /\ CopiesAreSound'
<1> DEFINE h == store[c].messages
           x == [Start EXCEPT
                   !.pc = "resolving", !.kind = "approve", !.conv = c,
                   !.messages = h, !.iterations = 1,
                   !.todo = Pending(h), !.approved = ApprovedBy(decisions)]
<1>1. h \in Histories /\ SoundHistory(h, issued) /\ Pending(h) \subseteq NeedsApproval
  BY DEF TypeOK, Rows, CopiesAreSound, PauseIsDecidable
<1>2. ApprovedBy(decisions) \subseteq Calls
  BY DEF ApprovedBy, Decisions
<1>2a. Pending(h) \subseteq Calls
  BY DEF Pending, Requested
<1>3. Becomes(r, x) /\ UNCHANGED <<store, issued, ran>>
  BY DEF ApproveAccepted, Accept
<1>4. granted' \in [Calls -> SUBSET Requests]
  BY DEF ApproveAccepted, Accept, TypeOK
<1> HIDE DEF h
<1>5. /\ x \in Runs /\ x.pc = "resolving" /\ x.conv = c /\ x.messages = h
      /\ x.todo = Pending(h)
  BY <1>1, <1>2, <1>2a, StartRun DEF Runs
<1>6. SoundCopy(x, issued)
  BY <1>1, <1>5 DEF SoundCopy
<1> HIDE DEF x
<1> QED
  BY <1>3, <1>4, <1>5, <1>6, LocalStepSound DEF TypeOK


(* The steps inside the loop that leave the messages as they are.          *)
LEMMA LoopStepSound ==
  ASSUME TypeOK, CopiesAreSound, NEW r \in Requests,
         Resume(r) \/ StopEarly(r) \/ CallModel(r) \/ ModelFails(r) \/ ModelFinishes(r)
  PROVE  TypeOK' /\ CopiesAreSound'
<1>1. run[r] \in Runs /\ SoundCopy(run[r], issued)
  BY DEF TypeOK, CopiesAreSound
<1>2. UNCHANGED <<store, issued, ran, granted>>
  BY DEF Resume, StopEarly, CallModel, ModelFails, ModelFinishes
<1>3. SUFFICES \E x \in Runs : Becomes(r, x) /\ SoundCopy(x, issued)
  BY <1>2, LocalStepSound DEF TypeOK
<1>4. CASE Resume(r)
  <2> DEFINE x == [run[r] EXCEPT !.pc = "loop", !.approved = {}]
  <2>1. /\ x \in Runs /\ x.pc = "loop" /\ x.messages = run[r].messages
        /\ x.conv = run[r].conv
    BY <1>1, RunFields DEF Runs
  <2>2. Becomes(r, x) /\ run[r].pc = "resolving"
    BY <1>4 DEF Resume
  <2> HIDE DEF x
  <2>3. SoundCopy(x, issued)
    BY <1>1, <2>1, <2>2 DEF SoundCopy
  <2> QED
    BY <2>1, <2>2, <2>3
<1>5. CASE StopEarly(r)
  <2> DEFINE x == [run[r] EXCEPT !.pc = "finishing"]
  <2>1. /\ x \in Runs /\ x.pc = "finishing" /\ x.messages = run[r].messages
        /\ x.conv = run[r].conv
    BY <1>1, RunFields DEF Runs
  <2>2. Becomes(r, x) /\ run[r].pc = "loop"
    BY <1>5 DEF StopEarly
  <2> HIDE DEF x
  <2>3. SoundCopy(x, issued)
    BY <1>1, <2>1, <2>2 DEF SoundCopy
  <2> QED
    BY <2>1, <2>2, <2>3
<1>6. CASE CallModel(r)
  <2> DEFINE x == [run[r] EXCEPT !.pc = "llm", !.iterations = @ + 1, !.attempt = 1]
  <2>0. run[r].iterations + 1 \in Nat
    BY <1>1, RunFields
  <2>1. /\ x \in Runs /\ x.pc = "llm" /\ x.messages = run[r].messages
        /\ x.conv = run[r].conv
    BY <1>1, <2>0 DEF Runs
  <2>2. Becomes(r, x) /\ run[r].pc = "loop"
    BY <1>6 DEF CallModel
  <2> HIDE DEF x
  <2>3. SoundCopy(x, issued)
    BY <1>1, <2>1, <2>2 DEF SoundCopy
  <2> QED
    BY <2>1, <2>2, <2>3
<1>7. CASE ModelFails(r)
  <2>1. CASE run[r].attempt < MaxRetries
    <3> DEFINE x == [run[r] EXCEPT !.attempt = @ + 1]
    <3>0. run[r].attempt + 1 \in Nat
      BY <1>1, RunFields
    <3>1. /\ x \in Runs /\ x.pc = run[r].pc /\ x.messages = run[r].messages
          /\ x.conv = run[r].conv
      BY <1>1, <3>0 DEF Runs
    <3>2. Becomes(r, x) /\ run[r].pc = "llm"
      BY <1>7, <2>1 DEF ModelFails
    <3> HIDE DEF x
    <3>3. SoundCopy(x, issued)
      BY <1>1, <3>1, <3>2 DEF SoundCopy
    <3> QED
      BY <3>1, <3>2, <3>3
  <2>2. CASE ~(run[r].attempt < MaxRetries)
    <3>1. Becomes(r, Ended("failed"))
      BY <1>7, <2>2 DEF ModelFails
    <3> QED
      BY <3>1, EndedRun
  <2> QED
    BY <2>1, <2>2
<1>8. CASE ModelFinishes(r)
  <2> DEFINE x == [run[r] EXCEPT !.pc = "finishing", !.attempt = 0]
  <2>1. /\ x \in Runs /\ x.pc = "finishing" /\ x.messages = run[r].messages
        /\ x.conv = run[r].conv
    BY <1>1, RunFields DEF Runs
  <2>2. Becomes(r, x) /\ run[r].pc = "llm"
    BY <1>8 DEF ModelFinishes
  <2> HIDE DEF x
  <2>3. SoundCopy(x, issued)
    BY <1>1, <2>1, <2>2 DEF SoundCopy
  <2> QED
    BY <2>1, <2>2, <2>3
<1> QED
  BY <1>4, <1>5, <1>6, <1>7, <1>8

(* Answering one call of the for loop over todo.                           *)
LEMMA AnswerSound ==
  ASSUME NEW x \in Runs, NEW ids, SoundCopy(x, ids),
         x.pc \in {"resolving", "writing"}, NEW c \in x.todo,
         NEW content \in {"result", "REJECTED_BY_USER"}
  PROVE  LET y == AfterAnswer(x, c, content)
         IN  /\ y \in Runs /\ SoundCopy(y, ids)
             /\ y.pc = x.pc /\ y.todo = x.todo \ {c} /\ y.approved = x.approved
             /\ y.response = x.response /\ y.inFlight = x.inFlight
             /\ y.messages = Append(x.messages, ToolMessage(c, content))
<1> DEFINE g == Append(x.messages, ToolMessage(c, content))
           y == [x EXCEPT !.messages = g, !.todo = @ \ {c}]
<1>1. /\ x.messages \in Histories /\ WellFormed(x.messages)
      /\ c \in Pending(x.messages) /\ x.todo \subseteq Calls
      /\ x.conv \in Conversations /\ Requested(x.messages) \subseteq ids
  BY RunFields DEF SoundCopy, SoundHistory
<1>2. /\ g \in Histories /\ WellFormed(g)
      /\ Answered(g) = Answered(x.messages) \cup {c}
      /\ Requested(g) = Requested(x.messages)
  BY <1>1, AppendAnswer
<1>3. Pending(g) = Pending(x.messages) \ {c}
  BY <1>2 DEF Pending
<1> HIDE DEF g
<1>4. /\ y \in Runs /\ y.pc = x.pc /\ y.conv = x.conv /\ y.messages = g
      /\ y.todo = x.todo \ {c} /\ y.approved = x.approved
      /\ y.response = x.response /\ y.inFlight = x.inFlight
  BY <1>1, <1>2, RunFields DEF Runs
<1> HIDE DEF y
<1>5. SoundHistory(g, ids)
  BY <1>1, <1>2 DEF SoundHistory
<1>6. CASE x.pc = "resolving"
  <2>1. Pending(x.messages) \subseteq NeedsApproval /\ x.todo = Pending(x.messages)
    BY <1>6 DEF SoundCopy
  <2>2. SoundCopy(y, ids)
    BY <1>1, <1>3, <1>4, <1>5, <1>6, <2>1 DEF SoundCopy
  <2> QED
    BY <1>4, <2>2 DEF y, g, AfterAnswer
<1>7. CASE x.pc = "writing"
  <2>1. /\ x.todo = Pending(x.messages) \cap Mutating
        /\ Range(x.response) \cap NeedsApproval \subseteq Pending(x.messages)
        /\ Pending(x.messages) \subseteq NeedsApproval \cup Mutating
    BY <1>7 DEF SoundCopy
  <2>2. c \notin NeedsApproval
    BY <2>1, Partition
  <2>3. SoundCopy(y, ids)
    BY <1>1, <1>3, <1>4, <1>5, <1>7, <2>1, <2>2 DEF SoundCopy
  <2> QED
    BY <1>4, <2>3 DEF y, g, AfterAnswer
<1> QED
  BY <1>6, <1>7

LEMMA ResolveNextSound ==
  ASSUME TypeOK, CopiesAreSound, NEW r \in Requests, NEW c \in Calls,
         ResolveNext(r, c)
  PROVE  TypeOK' /\ CopiesAreSound'
<1>1. /\ run[r] \in Runs /\ SoundCopy(run[r], issued)
      /\ run[r].pc = "resolving" /\ c \in run[r].todo
      /\ UNCHANGED <<store, issued, granted>>
  BY DEF TypeOK, CopiesAreSound, ResolveNext, IsNext
<1>2. ran' \in [Calls -> Nat]
  BY ExecuteType DEF ResolveNext, TypeOK
<1>3. PICK content \in {"result", "REJECTED_BY_USER"} : Answer(r, c, content)
  BY DEF ResolveNext
<1> QED
  BY <1>1, <1>2, <1>3, AnswerSound, LocalStepSound DEF Answer, TypeOK

LEMMA ExecuteMutatingSound ==
  ASSUME TypeOK, CopiesAreSound, NEW r \in Requests, NEW c \in Calls,
         ExecuteMutating(r, c)
  PROVE  TypeOK' /\ CopiesAreSound'
<1>1. /\ run[r] \in Runs /\ SoundCopy(run[r], issued)
      /\ run[r].pc = "writing" /\ c \in run[r].todo
      /\ UNCHANGED <<store, issued, granted>> /\ Answer(r, c, "result")
  BY DEF TypeOK, CopiesAreSound, ExecuteMutating, IsNext
<1>2. ran' \in [Calls -> Nat]
  BY ExecuteType DEF ExecuteMutating
<1> QED
  BY <1>1, <1>2, AnswerSound, LocalStepSound DEF Answer, TypeOK


(* What is known of the ids of a model response.                           *)
LEMMA BatchFacts ==
  ASSUME NEW batch \in Batches, issued \subseteq Calls
  PROVE  /\ batch \in Seq(Calls)
         /\ Range(batch) \subseteq Calls \ issued
         /\ issued \cup Range(batch) \subseteq Calls
<1>1. PICK n \in 1..MaxCalls : batch \in Injection(1..n, Calls \ issued)
  BY DEF Batches
<1>2. batch \in [1..n -> Calls \ issued]
  BY <1>1 DEF Injection
<1> QED
  BY <1>2 DEF Range

LEMMA ModelRequestsToolsSound ==
  ASSUME TypeOK, CopiesAreSound, NEW r \in Requests, NEW batch \in Batches,
         ModelRequestsTools(r, batch)
  PROVE  TypeOK' /\ CopiesAreSound'
<1> DEFINE h == run[r].messages
           g == Append(h, Assistant(batch))
           x == [run[r] EXCEPT !.pc = "reading", !.attempt = 0,
                               !.messages = g, !.response = batch,
                               !.inFlight = Range(batch) \cap ReadOnly]
<1>1. /\ run[r] \in Runs /\ SoundCopy(run[r], issued) /\ run[r].pc = "llm"
      /\ issued' = issued \cup Range(batch)
      /\ UNCHANGED <<store, ran, granted>> /\ Becomes(r, x)
  BY DEF TypeOK, CopiesAreSound, ModelRequestsTools
<1>2. /\ batch \in Seq(Calls) /\ Range(batch) \subseteq Calls \ issued
      /\ issued' \subseteq Calls
  BY <1>1, BatchFacts DEF TypeOK
<1>3. /\ h \in Histories /\ WellFormed(h) /\ Requested(h) \subseteq issued
      /\ Pending(h) \subseteq NeedsApproval /\ run[r].conv \in Conversations
  BY <1>1, RunFields DEF SoundCopy, SoundHistory
<1>4. /\ g \in Histories /\ WellFormed(g) /\ Answered(g) = Answered(h)
      /\ Requested(g) = Requested(h) \cup Range(batch)
  BY <1>2, <1>3, AppendAssistant
<1>5. Answered(h) \subseteq Requested(h)
  BY <1>3 DEF Answered, IsAnswer, Requested, WellFormed, Histories
<1>6. /\ Range(batch) \subseteq Pending(g)
      /\ Pending(g) \subseteq NeedsApproval \cup Range(batch)
      /\ SoundHistory(g, issued')
  BY <1>1, <1>2, <1>3, <1>4, <1>5 DEF Pending, SoundHistory
<1>7. Range(batch) \cap ReadOnly \in SUBSET Calls
  BY Partition
<1> HIDE DEF g, h
<1>8. /\ x \in Runs /\ x.pc = "reading" /\ x.messages = g /\ x.response = batch
      /\ x.inFlight = Range(batch) \cap ReadOnly /\ x.conv = run[r].conv
  BY <1>1, <1>2, <1>4, <1>7 DEF Runs
<1> HIDE DEF x
<1>9. SoundCopy(x, issued')
  BY <1>3, <1>6, <1>8 DEF SoundCopy
<1> QED
  BY <1>1, <1>2, <1>8, <1>9, LocalStepSound DEF TypeOK

LEMMA ReadOnlySettlesSound ==
  ASSUME TypeOK, CopiesAreSound, NEW r \in Requests, NEW c \in Calls,
         ReadOnlySettles(r, c)
  PROVE  TypeOK' /\ CopiesAreSound'
<1> DEFINE x == [run[r] EXCEPT !.inFlight = @ \ {c}]
<1>1. /\ run[r] \in Runs /\ SoundCopy(run[r], issued) /\ run[r].pc = "reading"
      /\ UNCHANGED <<store, issued, granted>> /\ Becomes(r, x)
  BY DEF TypeOK, CopiesAreSound, ReadOnlySettles
<1>2. ran' \in [Calls -> Nat]
  BY ExecuteType DEF ReadOnlySettles
<1>3. run[r].inFlight \ {c} \in SUBSET Calls
  BY <1>1, RunFields
<1>4. /\ x \in Runs /\ x.pc = "reading" /\ x.messages = run[r].messages
      /\ x.response = run[r].response /\ x.inFlight = run[r].inFlight \ {c}
      /\ x.conv = run[r].conv
  BY <1>1, <1>3 DEF Runs
<1> HIDE DEF x
<1>5. SoundCopy(x, issued)
  BY <1>1, <1>4 DEF SoundCopy
<1> QED
  BY <1>1, <1>2, <1>4, <1>5, LocalStepSound DEF TypeOK

LEMMA RecordReadOnlySound ==
  ASSUME TypeOK, CopiesAreSound, NEW r \in Requests, RecordReadOnly(r)
  PROVE  TypeOK' /\ CopiesAreSound'
<1> DEFINE h == run[r].messages
           batch == Range(run[r].response)
           S == batch \cap ReadOnly
<1>1. /\ run[r] \in Runs /\ SoundCopy(run[r], issued) /\ run[r].pc = "reading"
      /\ UNCHANGED <<store, issued, ran, granted>>
  BY DEF TypeOK, CopiesAreSound, RecordReadOnly
<1>2. /\ h \in Histories /\ WellFormed(h) /\ Requested(h) \subseteq issued
      /\ run[r].conv \in Conversations
      /\ batch \subseteq Pending(h) /\ Pending(h) \subseteq NeedsApproval \cup batch
  BY <1>1, RunFields DEF SoundCopy, SoundHistory
<1>3. S \subseteq Pending(h) /\ IsFiniteSet(S)
  BY <1>2, CallsAssumption, Partition, FS_Subset
<1>4. Cardinality(S) \in Nat
  BY <1>3, FS_CardinalityType
<1>5. PICK s \in Bijection(1..Cardinality(S), S) :
         Becomes(r, [run[r] EXCEPT
                       !.pc = "writing",
                       !.messages = @ \o [i \in DOMAIN s |-> ToolMessage(s[i], "result")],
                       !.todo = batch \cap Mutating])
  BY DEF RecordReadOnly, InOrder
<1> DEFINE g == h \o [i \in DOMAIN s |-> ToolMessage(s[i], "result")]
           x == [run[r] EXCEPT !.pc = "writing", !.messages = g,
                               !.todo = batch \cap Mutating]
<1>6. /\ g \in Histories /\ WellFormed(g)
      /\ Answered(g) = Answered(h) \cup S /\ Requested(g) = Requested(h)
  <2> DEFINE n == Cardinality(S)
  <2>1. S \in SUBSET Pending(h) /\ n \in Nat /\ s \in Bijection(1..n, S)
    BY <1>3, <1>4
  <2>2. h \in Histories /\ WellFormed(h)
    BY <1>2
  <2> HIDE DEF S, h, n
  <2> QED
    BY <2>1, <2>2, AppendResults
<1>7. Becomes(r, x)
  BY <1>5
<1> HIDE DEF g, h
<1>8. Pending(g) = Pending(h) \ S /\ SoundHistory(g, issued)
  BY <1>2, <1>6 DEF Pending, SoundHistory
<1>9. /\ batch \cap Mutating = Pending(g) \cap Mutating
      /\ batch \cap NeedsApproval \subseteq Pending(g)
      /\ Pending(g) \subseteq NeedsApproval \cup Mutating
  <2>1. Pending(h) \subseteq Calls
    BY DEF Pending, Requested
  <2> QED
    BY <1>2, <1>8, <2>1, Partition
<1>10. batch \cap Mutating \in SUBSET Calls
  BY Partition
<1> HIDE DEF batch
<1>11. /\ x \in Runs /\ x.pc = "writing" /\ x.messages = g
       /\ x.response = run[r].response /\ x.todo = batch \cap Mutating
       /\ x.conv = run[r].conv
  BY <1>1, <1>6, <1>10 DEF Runs
<1> HIDE DEF x
<1>12. SoundCopy(x, issued)
  BY <1>2, <1>8, <1>9, <1>11 DEF SoundCopy, batch
<1> QED
  BY <1>1, <1>7, <1>11, <1>12, LocalStepSound DEF TypeOK

LEMMA EndBatchSound ==
  ASSUME TypeOK, CopiesAreSound, NEW r \in Requests, EndBatch(r)
  PROVE  TypeOK' /\ CopiesAreSound'
<1> DEFINE h == run[r].messages
           asks == Range(run[r].response) \cap NeedsApproval
           x == [run[r] EXCEPT !.pc = IF asks # {} THEN "pausing" ELSE "loop",
                               !.response = << >>]
<1>1. /\ run[r] \in Runs /\ SoundCopy(run[r], issued) /\ run[r].pc = "writing"
      /\ run[r].todo = {}
      /\ UNCHANGED <<store, issued, ran, granted>> /\ Becomes(r, x)
  BY DEF TypeOK, CopiesAreSound, EndBatch
<1>2. /\ SoundHistory(h, issued) /\ run[r].conv \in Conversations
      /\ asks \subseteq Pending(h)
      /\ Pending(h) \cap Mutating = {}
      /\ Pending(h) \subseteq NeedsApproval \cup Mutating
  BY <1>1 DEF SoundCopy
<1> HIDE DEF asks
<1>2a. << >> \in Seq(Calls)
  OBVIOUS
<1>3. /\ x \in Runs /\ x.pc = (IF asks # {} THEN "pausing" ELSE "loop")
      /\ x.messages = h /\ x.conv = run[r].conv
  BY <1>1, <1>2a DEF Runs
<1> HIDE DEF x, h
<1>4. SoundCopy(x, issued)
  BY <1>2, <1>3 DEF SoundCopy
<1> QED
  BY <1>1, <1>3, <1>4, LocalStepSound DEF TypeOK

(* The terminal write stores a sound copy.                                 *)
LEMMA PersistSound ==
  ASSUME TypeOK, CopiesAreSound, NEW r \in Requests, Persist(r)
  PROVE  TypeOK' /\ CopiesAreSound'
<1> DEFINE c == run[r].conv
           h == run[r].messages
           row == [status |-> StatusOf(run[r].pc), messages |-> h]
<1>1. /\ run[r] \in Runs /\ SoundCopy(run[r], issued)
      /\ run[r].pc \in {"pausing", "finishing"}
      /\ store' = [store EXCEPT ![c] = row]
      /\ UNCHANGED <<issued, ran, granted>> /\ Becomes(r, Ended("done"))
  BY DEF TypeOK, CopiesAreSound, Persist
<1>2. /\ h \in Histories /\ c \in Conversations /\ SoundHistory(h, issued)
      /\ Pending(h) \subseteq NeedsApproval
      /\ run[r].pc = "pausing" => Pending(h) # {}
  BY <1>1, RunFields DEF SoundCopy
<1>3. /\ row \in Rows /\ row.messages = h
      /\ row.status = "PAUSED" => Pending(h) # {}
  BY <1>1, <1>2 DEF Rows, StatusOf
<1>4. /\ run' \in [Requests -> Runs]
      /\ \A q \in Requests : SoundCopy(run'[q], issued')
  BY <1>1, EndedRun, BecomesSound
<1> HIDE DEF row, h, c
<1>5. TypeOK'
  BY <1>1, <1>2, <1>3, <1>4 DEF TypeOK
<1>6. \A d \in Conversations : SoundHistory(store'[d].messages, issued')
  BY <1>1, <1>2, <1>3 DEF CopiesAreSound, TypeOK
<1>7. PauseIsDecidable'
  BY <1>1, <1>2, <1>3 DEF CopiesAreSound, PauseIsDecidable, TypeOK
<1> QED
  BY <1>4, <1>5, <1>6, <1>7 DEF CopiesAreSound

LEMMA CrashSound ==
  ASSUME TypeOK, CopiesAreSound, Crash
  PROVE  TypeOK' /\ CopiesAreSound'
<1>1. /\ run' = [r \in Requests |-> IF Active(r) THEN Ended("failed") ELSE run[r]]
      /\ UNCHANGED <<store, issued, ran, granted>>
  BY DEF Crash
<1>2. run' \in [Requests -> Runs]
  BY <1>1, EndedRun DEF TypeOK
<1>3. \A r \in Requests : SoundCopy(run'[r], issued')
  BY <1>1, EndedRun DEF CopiesAreSound
<1> QED
  BY <1>1, <1>2, <1>3, RowsSound DEF TypeOK, CopiesAreSound

LEMMA CopiesNext ==
  ASSUME TypeOK, CopiesAreSound, [Next]_vars
  PROVE  TypeOK' /\ CopiesAreSound'
<1>1. CASE Crash
  BY <1>1, CrashSound
<1>2. CASE UNCHANGED vars
  BY <1>2 DEF vars, TypeOK, CopiesAreSound, PauseIsDecidable
<1>3. ASSUME NEW r \in Requests, Arrive(r)
      PROVE  TypeOK' /\ CopiesAreSound'
  <2>1. CASE NotFound(r)
    BY <2>1, EndSound DEF NotFound
  <2>2. ASSUME NEW c \in Conversations, NEW h \in ClientHistories, ChatNew(r, c, h)
        PROVE  TypeOK' /\ CopiesAreSound'
    BY <2>2, ChatNewSound
  <2>3. ASSUME NEW c \in Conversations, ChatExisting(r, c)
        PROVE  TypeOK' /\ CopiesAreSound'
    BY <2>3, ChatExistingSound
  <2>4. ASSUME NEW c \in Conversations, NEW n \in 1..MaxDecisions,
               NEW decisions \in [1..n -> Decisions], ApproveRefused(r, c, decisions)
        PROVE  TypeOK' /\ CopiesAreSound'
    BY <2>4, EndSound DEF ApproveRefused
  <2>5. ASSUME NEW c \in Conversations, NEW n \in 1..MaxDecisions,
               NEW decisions \in [1..n -> Decisions], ApproveAccepted(r, c, decisions)
        PROVE  TypeOK' /\ CopiesAreSound'
    BY <2>5, ApproveAcceptedSound
  <2> QED
    BY <1>3, <2>1, <2>2, <2>3, <2>4, <2>5 DEF Arrive
<1>4. ASSUME NEW r \in Requests, Step(r)
      PROVE  TypeOK' /\ CopiesAreSound'
  <2>1. CASE Resume(r) \/ StopEarly(r) \/ CallModel(r) \/ ModelFails(r) \/ ModelFinishes(r)
    BY <2>1, LoopStepSound
  <2>2. CASE \E c \in Calls : ResolveNext(r, c)
    BY <2>2, ResolveNextSound
  <2>3. CASE \E batch \in Batches : ModelRequestsTools(r, batch)
    BY <2>3, ModelRequestsToolsSound
  <2>4. CASE \E c \in Calls : ReadOnlySettles(r, c)
    BY <2>4, ReadOnlySettlesSound
  <2>5. CASE RecordReadOnly(r)
    BY <2>5, RecordReadOnlySound
  <2>6. CASE \E c \in Calls : ExecuteMutating(r, c)
    BY <2>6, ExecuteMutatingSound
  <2>7. CASE EndBatch(r)
    BY <2>7, EndBatchSound
  <2>8. CASE Persist(r)
    BY <2>8, PersistSound
  <2>9. CASE PersistFails(r)
    BY <2>9, EndSound DEF PersistFails
  <2> QED
    BY <1>4, <2>1, <2>2, <2>3, <2>4, <2>5, <2>6, <2>7, <2>8, <2>9 DEF Step
<1> QED
  BY <1>1, <1>2, <1>3, <1>4 DEF Next, Quiet

-----------------------------------------------------------------------------
(* How often each call runs.                                               *)

(* What the others have ahead, and what is unused, when one handler moves. *)
LEMMA OthersAhead ==
  ASSUME TypeOK, NEW r \in Requests, NEW x, Becomes(r, x)
  PROVE  /\ run'[r] = x
         /\ \A q \in Requests \ {r} : run'[q] = run[q]
         /\ \A d \in Calls : Unused(d)' \ {r} = Unused(d) \ {r}
         /\ x.pc # "resolving" => \A d \in Calls : Unused(d)' = Unused(d) \ {r}
<1>1. /\ run'[r] = x
      /\ \A q \in Requests \ {r} : run'[q] = run[q]
  BY DEF Becomes, TypeOK
<1> QED
  BY <1>1 DEF Unused

(* Fewer unused grants can only leave more of them spent.                  *)
LEMMA SpentGrows ==
  ASSUME TypeOK, NEW d \in Calls, NEW U, NEW V, V \subseteq U
  PROVE  /\ Cardinality(granted[d] \ U) <= Cardinality(granted[d] \ V)
         /\ Cardinality(granted[d] \ U) \in Nat
         /\ Cardinality(granted[d] \ V) \in Nat
<1>1. IsFiniteSet(granted[d] \ V) /\ IsFiniteSet(granted[d] \ U)
  BY AgentAssumption, FS_Subset DEF TypeOK
<1>2. granted[d] \ U \in SUBSET (granted[d] \ V)
  OBVIOUS
<1> QED
  BY <1>1, <1>2, FS_Subset, FS_CardinalityType

(* What is known of the grants of a call that needs approval.              *)
LEMMA GrantFacts ==
  ASSUME TypeOK, RunsAreAccounted, NEW d \in NeedsApproval
  PROVE  /\ d \in Calls /\ granted[d] \subseteq Requests /\ ran[d] \in Nat
         /\ \A p \in granted[d] : run[p].pc # "idle"
         /\ Unused(d) \subseteq granted[d]
         /\ ran[d] <= Cardinality(granted[d] \ Unused(d))
BY Partition DEF TypeOK, RunsAreAccounted

(* A step that executes nothing and grants nothing, and after which the    *)
(* handler has nothing new ahead but ids the model has just used.          *)
LEMMA QuietAccounted ==
  ASSUME TypeOK, RunsAreAccounted, NEW r \in Requests, NEW x,
         Becomes(r, x), UNCHANGED <<ran, granted>>, issued \subseteq issued',
         x.pc \notin {"idle", "resolving"},
         Ahead(x) \subseteq Ahead(run[r]) \cup (issued' \ issued)
  PROVE  RunsAreAccounted'
<1>1. /\ run'[r] = x
      /\ \A q \in Requests \ {r} : run'[q] = run[q]
      /\ \A d \in Calls : Unused(d)' = Unused(d) \ {r}
  BY OthersAhead
<1>2. ASSUME NEW d \in Calls \ NeedsApproval
      PROVE  /\ ran'[d] <= 1
             /\ d \notin issued' => ran'[d] = 0
             /\ \A p \in Requests : d \in Ahead(run'[p]) =>
                   /\ d \in issued' /\ ran'[d] = 0
                   /\ \A q \in Requests \ {p} : d \notin Ahead(run'[q])
  BY <1>1 DEF RunsAreAccounted
<1>3. ASSUME NEW d \in NeedsApproval
      PROVE  /\ \A p \in granted'[d] : run'[p].pc # "idle"
             /\ Unused(d)' \subseteq granted'[d]
             /\ ran'[d] <= Cardinality(granted'[d] \ Unused(d)')
  <2>1. /\ d \in Calls /\ granted[d] \subseteq Requests
        /\ \A p \in granted[d] : run[p].pc # "idle"
        /\ Unused(d) \subseteq granted[d]
        /\ ran[d] \in Nat /\ ran[d] <= Cardinality(granted[d] \ Unused(d))
    BY GrantFacts
  <2>2. granted'[d] = granted[d] /\ ran'[d] = ran[d] /\ Unused(d)' = Unused(d) \ {r}
    BY <1>1, <2>1
  <2>3. /\ Cardinality(granted[d] \ Unused(d)) <= Cardinality(granted[d] \ (Unused(d) \ {r}))
        /\ Cardinality(granted[d] \ Unused(d)) \in Nat
        /\ Cardinality(granted[d] \ (Unused(d) \ {r})) \in Nat
    BY <2>1, SpentGrows
  <2>4. ran'[d] <= Cardinality(granted'[d] \ Unused(d)')
    BY <2>1, <2>2, <2>3
  <2>5. \A p \in granted'[d] : run'[p].pc # "idle"
    BY <1>1, <2>1, <2>2
  <2> QED
    BY <2>1, <2>2, <2>4, <2>5
<1> QED
  BY <1>2, <1>3 DEF RunsAreAccounted

(* A step that executes a safe call that was ahead, and drops it.          *)
LEMMA ExecuteAccounted ==
  ASSUME TypeOK, RunsAreAccounted, NEW r \in Requests, NEW x,
         NEW c \in Calls \ NeedsApproval, Becomes(r, x), Execute(c),
         UNCHANGED <<issued, granted>>, c \in Ahead(run[r]),
         x.pc = run[r].pc, x.pc \in {"reading", "writing"},
         Ahead(x) \subseteq Ahead(run[r]) \ {c}
  PROVE  RunsAreAccounted'
<1>1. /\ run'[r] = x
      /\ \A q \in Requests \ {r} : run'[q] = run[q]
      /\ \A d \in Calls : Unused(d)' = Unused(d) \ {r}
  BY OthersAhead
<1>2. /\ ran'[c] = ran[c] + 1 /\ \A d \in Calls \ {c} : ran'[d] = ran[d]
  BY ExecuteType
<1>3. ran[c] = 0 /\ c \in issued /\ \A q \in Requests \ {r} : c \notin Ahead(run[q])
  BY DEF RunsAreAccounted
<1>4. ASSUME NEW d \in Calls \ NeedsApproval
      PROVE  /\ ran'[d] <= 1
             /\ d \notin issued' => ran'[d] = 0
             /\ \A p \in Requests : d \in Ahead(run'[p]) =>
                   /\ d \in issued' /\ ran'[d] = 0
                   /\ \A q \in Requests \ {p} : d \notin Ahead(run'[q])
  <2>1. CASE d = c
    BY <1>1, <1>2, <1>3, <2>1
  <2>2. CASE d # c
    BY <1>1, <1>2, <2>2 DEF RunsAreAccounted
  <2> QED
    BY <2>1, <2>2
<1>5. ASSUME NEW d \in NeedsApproval
      PROVE  /\ \A p \in granted'[d] : run'[p].pc # "idle"
             /\ Unused(d)' \subseteq granted'[d]
             /\ ran'[d] <= Cardinality(granted'[d] \ Unused(d)')
  <2>1. /\ d \in Calls /\ d # c /\ granted[d] \subseteq Requests
        /\ \A p \in granted[d] : run[p].pc # "idle"
        /\ Unused(d) \subseteq granted[d]
        /\ ran[d] <= Cardinality(granted[d] \ Unused(d))
    BY GrantFacts
  <2>2. Unused(d)' = Unused(d) /\ granted'[d] = granted[d] /\ ran'[d] = ran[d]
    BY <1>1, <1>2, <2>1 DEF Unused
  <2> QED
    BY <1>1, <2>1, <2>2
<1> QED
  BY <1>4, <1>5 DEF RunsAreAccounted

(* An accepted approval adds grants, all of them unused.                   *)
LEMMA ApproveAccounted ==
  ASSUME TypeOK, CopiesAreSound, RunsAreAccounted,
         NEW r \in Requests, NEW c \in Conversations,
         NEW n \in 1..MaxDecisions, NEW decisions \in [1..n -> Decisions],
         ApproveAccepted(r, c, decisions)
  PROVE  RunsAreAccounted'
<1> DEFINE h == store[c].messages
           yes == ApprovedBy(decisions)
           x == [Start EXCEPT
                   !.pc = "resolving", !.kind = "approve", !.conv = c,
                   !.messages = h, !.iterations = 1,
                   !.todo = Pending(h), !.approved = yes]
<1>1. /\ run[r].pc = "idle" /\ Becomes(r, x) /\ UNCHANGED <<store, issued, ran>>
      /\ granted' = [d \in Calls |-> IF d \in yes THEN granted[d] \cup {r} ELSE granted[d]]
      /\ yes \subseteq Pending(h)
  BY DEF ApproveAccepted, Accept, Admitted, Refused, ApprovedBy
<1>2. /\ h \in Histories /\ Pending(h) \in SUBSET Calls /\ yes \in SUBSET Calls
  BY <1>1 DEF TypeOK, Rows, Pending, Requested
<1> HIDE DEF h, yes
<1>3. /\ x \in Runs /\ x.pc = "resolving" /\ x.todo = Pending(h) /\ x.approved = yes
  BY <1>2, StartRun DEF Runs
<1> HIDE DEF x
<1>4. /\ run'[r] = x /\ \A q \in Requests \ {r} : run'[q] = run[q]
      /\ \A d \in Calls : Unused(d)' \ {r} = Unused(d) \ {r}
  BY <1>1, <1>3, OthersAhead
<1>5. Ahead(x) = {}
  BY <1>3 DEF Ahead
<1>6. ASSUME NEW d \in Calls \ NeedsApproval
      PROVE  /\ ran'[d] <= 1
             /\ d \notin issued' => ran'[d] = 0
             /\ \A p \in Requests : d \in Ahead(run'[p]) =>
                   /\ d \in issued' /\ ran'[d] = 0
                   /\ \A q \in Requests \ {p} : d \notin Ahead(run'[q])
  BY <1>1, <1>4, <1>5 DEF RunsAreAccounted
<1>7. ASSUME NEW d \in NeedsApproval
      PROVE  /\ \A p \in granted'[d] : run'[p].pc # "idle"
             /\ Unused(d)' \subseteq granted'[d]
             /\ ran'[d] <= Cardinality(granted'[d] \ Unused(d)')
  <2>0. /\ d \in Calls /\ granted[d] \subseteq Requests
        /\ \A p \in granted[d] : run[p].pc # "idle"
        /\ Unused(d) \subseteq granted[d]
        /\ ran[d] <= Cardinality(granted[d] \ Unused(d))
    BY GrantFacts
  <2>1. d \in Calls /\ r \notin Unused(d) /\ r \notin granted[d]
    BY <1>1, <2>0
  <2>2. /\ r \in Unused(d)' <=> d \in yes
        /\ Unused(d)' \subseteq Requests /\ Unused(d) \subseteq Requests
    BY <1>1, <1>3, <1>4 DEF Unused
  <2>3. granted'[d] = IF d \in yes THEN granted[d] \cup {r} ELSE granted[d]
    BY <1>1, <2>1
  <2>4. Unused(d)' = IF d \in yes THEN Unused(d) \cup {r} ELSE Unused(d)
    <3>1. Unused(d)' \ {r} = Unused(d)
      BY <1>4, <2>1
    <3> QED
      BY <2>2, <3>1
  <2>5. granted'[d] \ Unused(d)' = granted[d] \ Unused(d)
    BY <2>1, <2>3, <2>4
  <2>6. \A p \in granted'[d] : run'[p].pc # "idle"
    BY <1>3, <1>4, <2>0, <2>3
  <2> QED
    BY <1>1, <2>0, <2>3, <2>4, <2>5, <2>6
<1> QED
  BY <1>6, <1>7 DEF RunsAreAccounted

(* Resolving a pending call uses its grant up, if it has one.              *)
LEMMA ResolveAccounted ==
  ASSUME TypeOK, CopiesAreSound, RunsAreAccounted,
         NEW r \in Requests, NEW c \in Calls, ResolveNext(r, c)
  PROVE  RunsAreAccounted'
<1>1. /\ run[r] \in Runs /\ SoundCopy(run[r], issued)
      /\ run[r].pc = "resolving" /\ c \in run[r].todo
      /\ UNCHANGED <<store, issued, granted>>
  BY DEF TypeOK, CopiesAreSound, ResolveNext, IsNext
<1>2. PICK content \in {"result", "REJECTED_BY_USER"} : Answer(r, c, content)
  BY DEF ResolveNext
<1> DEFINE x == AfterAnswer(run[r], c, content)
<1>a. Becomes(r, x)
  BY <1>2 DEF Answer
<1>b. /\ x \in Runs /\ x.pc = run[r].pc
      /\ x.todo = run[r].todo \ {c}
      /\ x.approved = run[r].approved
  BY <1>1, AnswerSound
<1> HIDE DEF x
<1>3. /\ x \in Runs /\ Becomes(r, x) /\ x.pc = "resolving"
      /\ x.todo = run[r].todo \ {c}
      /\ x.approved = run[r].approved
  BY <1>1, <1>a, <1>b
<1>4. /\ run'[r] = x /\ \A q \in Requests \ {r} : run'[q] = run[q]
      /\ \A d \in Calls : Unused(d)' \ {r} = Unused(d) \ {r}
  BY <1>3, OthersAhead
<1>5. /\ Ahead(x) = {} /\ Ahead(run[r]) = {}
  BY <1>1, <1>3 DEF Ahead
<1>6. c \in NeedsApproval
  BY <1>1 DEF SoundCopy
<1>7. /\ c \in run[r].approved => ran'[c] = ran[c] + 1
      /\ c \notin run[r].approved => ran'[c] = ran[c]
      /\ \A d \in Calls \ {c} : ran'[d] = ran[d]
  BY ExecuteType DEF ResolveNext
<1>8. ASSUME NEW d \in Calls \ NeedsApproval
      PROVE  /\ ran'[d] <= 1
             /\ d \notin issued' => ran'[d] = 0
             /\ \A p \in Requests : d \in Ahead(run'[p]) =>
                   /\ d \in issued' /\ ran'[d] = 0
                   /\ \A q \in Requests \ {p} : d \notin Ahead(run'[q])
  BY <1>1, <1>4, <1>5, <1>6, <1>7 DEF RunsAreAccounted
<1>9. ASSUME NEW d \in NeedsApproval
      PROVE  /\ \A p \in granted'[d] : run'[p].pc # "idle"
             /\ Unused(d)' \subseteq granted'[d]
             /\ ran'[d] <= Cardinality(granted'[d] \ Unused(d)')
  <2>1. /\ d \in Calls /\ granted'[d] = granted[d]
        /\ \A p \in granted[d] : run[p].pc # "idle"
        /\ Unused(d) \subseteq granted[d] /\ granted[d] \subseteq Requests
        /\ ran[d] <= Cardinality(granted[d] \ Unused(d))
    BY <1>1, GrantFacts
  <2>2. \A p \in granted'[d] : run'[p].pc # "idle"
    BY <1>3, <1>4, <2>1
  <2>3. CASE d = c /\ c \in run[r].approved
    <3>1. r \in Unused(d) /\ Unused(d)' = Unused(d) \ {r}
      BY <1>1, <1>3, <1>4, <2>1, <2>3 DEF Unused
    <3>2. /\ granted[d] \ Unused(d)' = (granted[d] \ Unused(d)) \cup {r}
          /\ r \notin granted[d] \ Unused(d)
      BY <2>1, <3>1
    <3>3. IsFiniteSet(granted[d] \ Unused(d))
      BY <2>1, AgentAssumption, FS_Subset
    <3>4. Cardinality(granted[d] \ Unused(d)') = Cardinality(granted[d] \ Unused(d)) + 1
      BY <3>2, <3>3, FS_AddElement
    <3>5. ran[d] \in Nat /\ Cardinality(granted[d] \ Unused(d)) \in Nat
      BY <2>1, <3>3, FS_CardinalityType DEF TypeOK
    <3>6. ran'[d] <= Cardinality(granted'[d] \ Unused(d)')
      BY <1>7, <2>1, <2>3, <3>4, <3>5
    <3> QED
      BY <2>1, <2>2, <3>1, <3>6
  <2>4. CASE ~(d = c /\ c \in run[r].approved)
    <3>1. Unused(d)' = Unused(d)
      BY <1>1, <1>3, <1>4, <2>1, <2>4 DEF Unused
    <3>2. ran'[d] = ran[d]
      BY <1>7, <2>1, <2>4
    <3> QED
      BY <2>1, <2>2, <3>1, <3>2
  <2> QED
    BY <2>3, <2>4
<1> QED
  BY <1>8, <1>9 DEF RunsAreAccounted


(* The same, for steps after which nothing is ahead.                       *)
LEMMA IdleAccounted ==
  ASSUME TypeOK, RunsAreAccounted, NEW r \in Requests, NEW x,
         Becomes(r, x), UNCHANGED <<issued, ran, granted>>,
         x.pc \in {"loop", "llm", "pausing", "finishing", "done", "failed"}
  PROVE  RunsAreAccounted'
<1>1. Ahead(x) = {}
  BY DEF Ahead
<1> QED
  BY <1>1, QuietAccounted

LEMMA ChatAccounted ==
  ASSUME TypeOK, RunsAreAccounted, NEW r \in Requests, NEW c \in Conversations,
         \/ ChatExisting(r, c)
         \/ \E h \in ClientHistories : ChatNew(r, c, h)
  PROVE  RunsAreAccounted'
<1>1. PICK h : /\ Becomes(r, [Start EXCEPT !.pc = "loop", !.kind = "chat", !.conv = c,
                                           !.messages = Append(h, User)])
               /\ UNCHANGED <<issued, ran, granted>>
  BY DEF ChatExisting, ChatNew, StartChat
<1> DEFINE x == [Start EXCEPT !.pc = "loop", !.kind = "chat", !.conv = c,
                              !.messages = Append(h, User)]
<1>2. x.pc = "loop"
  BY DEF Start
<1> HIDE DEF x
<1> QED
  BY <1>1, <1>2, IdleAccounted DEF x

LEMMA EndAccounted ==
  ASSUME TypeOK, RunsAreAccounted, NEW r \in Requests,
         NEW how \in {"done", "failed"},
         Becomes(r, Ended(how)), UNCHANGED <<issued, ran, granted>>
  PROVE  RunsAreAccounted'
BY EndedRun, IdleAccounted

LEMMA LoopStepAccounted ==
  ASSUME TypeOK, RunsAreAccounted, NEW r \in Requests,
         \/ Resume(r) \/ StopEarly(r) \/ CallModel(r) \/ ModelFails(r)
         \/ ModelFinishes(r) \/ EndBatch(r)
  PROVE  RunsAreAccounted'
<1>1. run[r] \in Runs
  BY DEF TypeOK
<1>2. UNCHANGED <<issued, ran, granted>>
  BY DEF Resume, StopEarly, CallModel, ModelFails, ModelFinishes, EndBatch
<1>3. SUFFICES \E x : /\ Becomes(r, x)
                      /\ x.pc \in {"loop", "llm", "pausing", "finishing", "done", "failed"}
  BY <1>2, IdleAccounted
<1>4. CASE Resume(r)
  <2> DEFINE x == [run[r] EXCEPT !.pc = "loop", !.approved = {}]
  <2>1. Becomes(r, x) /\ x.pc = "loop"
    BY <1>1, <1>4 DEF Resume, Runs
  <2> QED
    BY <2>1
<1>5. CASE StopEarly(r)
  <2> DEFINE x == [run[r] EXCEPT !.pc = "finishing"]
  <2>1. Becomes(r, x) /\ x.pc = "finishing"
    BY <1>1, <1>5 DEF StopEarly, Runs
  <2> QED
    BY <2>1
<1>6. CASE CallModel(r)
  <2> DEFINE x == [run[r] EXCEPT !.pc = "llm", !.iterations = @ + 1, !.attempt = 1]
  <2>1. Becomes(r, x) /\ x.pc = "llm"
    BY <1>1, <1>6 DEF CallModel, Runs
  <2> QED
    BY <2>1
<1>7. CASE ModelFails(r)
  <2> DEFINE x == IF run[r].attempt < MaxRetries
                  THEN [run[r] EXCEPT !.attempt = @ + 1] ELSE Ended("failed")
  <2>1. Becomes(r, x) /\ x.pc \in {"llm", "failed"}
    BY <1>1, <1>7, EndedRun DEF ModelFails, Runs
  <2> QED
    BY <2>1
<1>8. CASE ModelFinishes(r)
  <2> DEFINE x == [run[r] EXCEPT !.pc = "finishing", !.attempt = 0]
  <2>1. Becomes(r, x) /\ x.pc = "finishing"
    BY <1>1, <1>8 DEF ModelFinishes, Runs
  <2> QED
    BY <2>1
<1>9. CASE EndBatch(r)
  <2> DEFINE x == [run[r] EXCEPT
                     !.pc = IF Range(run[r].response) \cap NeedsApproval # {}
                            THEN "pausing" ELSE "loop",
                     !.response = << >>]
  <2>1. Becomes(r, x) /\ x.pc \in {"loop", "pausing"}
    BY <1>1, <1>9 DEF EndBatch, Runs
  <2> QED
    BY <2>1
<1> QED
  BY <1>4, <1>5, <1>6, <1>7, <1>8, <1>9

LEMMA ModelRequestsToolsAccounted ==
  ASSUME TypeOK, RunsAreAccounted, NEW r \in Requests, NEW batch \in Batches,
         ModelRequestsTools(r, batch)
  PROVE  RunsAreAccounted'
<1> DEFINE x == [run[r] EXCEPT !.pc = "reading", !.attempt = 0,
                   !.messages = Append(@, Assistant(batch)), !.response = batch,
                   !.inFlight = Range(batch) \cap ReadOnly]
<1>1. /\ Becomes(r, x) /\ UNCHANGED <<ran, granted>>
      /\ issued' = issued \cup Range(batch)
      /\ Range(batch) \subseteq Calls \ issued
  BY BatchFacts DEF ModelRequestsTools, TypeOK
<1>2. /\ x.pc = "reading" /\ x.response = batch
      /\ x.inFlight = Range(batch) \cap ReadOnly
  BY DEF TypeOK, Runs
<1> HIDE DEF x
<1>3. Ahead(x) \subseteq issued' \ issued
  BY <1>1, <1>2 DEF Ahead
<1> QED
  BY <1>1, <1>2, <1>3, QuietAccounted

LEMMA RecordReadOnlyAccounted ==
  ASSUME TypeOK, RunsAreAccounted, NEW r \in Requests, RecordReadOnly(r)
  PROVE  RunsAreAccounted'
<1> DEFINE X(s) == [run[r] EXCEPT
                      !.pc = "writing",
                      !.messages = @ \o [i \in DOMAIN s |-> ToolMessage(s[i], "result")],
                      !.todo = Range(run[r].response) \cap Mutating]
<1>1. /\ run[r].pc = "reading" /\ UNCHANGED <<issued, ran, granted>>
      /\ \E s : Becomes(r, X(s))
  BY DEF RecordReadOnly
<1>2. PICK s : Becomes(r, X(s))
  BY <1>1
<1> DEFINE x == X(s)
<1>3. x.pc = "writing" /\ x.todo = Range(run[r].response) \cap Mutating
  BY DEF TypeOK, Runs
<1>4. Becomes(r, x)
  BY <1>2
<1> HIDE DEF x
<1>5. Ahead(x) \subseteq Ahead(run[r])
  BY <1>1, <1>3 DEF Ahead
<1> QED
  BY <1>1, <1>3, <1>4, <1>5, QuietAccounted

LEMMA ReadOnlySettlesAccounted ==
  ASSUME TypeOK, CopiesAreSound, RunsAreAccounted, NEW r \in Requests, NEW c \in Calls,
         ReadOnlySettles(r, c)
  PROVE  RunsAreAccounted'
<1> DEFINE x == [run[r] EXCEPT !.inFlight = @ \ {c}]
<1>1. /\ run[r].pc = "reading" /\ c \in run[r].inFlight
      /\ Becomes(r, x) /\ Execute(c) /\ UNCHANGED <<issued, granted>>
  BY DEF ReadOnlySettles
<1>2. run[r] \in Runs /\ run[r].inFlight \subseteq ReadOnly
  BY <1>1 DEF TypeOK, CopiesAreSound, SoundCopy
<1>3. /\ x.pc = "reading" /\ x.response = run[r].response
      /\ x.inFlight = run[r].inFlight \ {c}
  BY <1>1, <1>2 DEF Runs
<1> HIDE DEF x
<1>4. c \in Calls \ NeedsApproval /\ c \notin Mutating
  BY <1>1, <1>2, Partition
<1>5. c \in Ahead(run[r]) /\ Ahead(x) \subseteq Ahead(run[r]) \ {c}
  BY <1>1, <1>3, <1>4 DEF Ahead
<1> QED
  BY <1>1, <1>3, <1>4, <1>5, ExecuteAccounted

LEMMA ExecuteMutatingAccounted ==
  ASSUME TypeOK, CopiesAreSound, RunsAreAccounted, NEW r \in Requests, NEW c \in Calls,
         ExecuteMutating(r, c)
  PROVE  RunsAreAccounted'
<1> DEFINE x == AfterAnswer(run[r], c, "result")
<1>1. /\ run[r].pc = "writing" /\ c \in run[r].todo
      /\ Becomes(r, x) /\ Execute(c) /\ UNCHANGED <<issued, granted>>
  BY DEF ExecuteMutating, IsNext, Answer
<1>2. run[r] \in Runs /\ SoundCopy(run[r], issued)
  BY DEF TypeOK, CopiesAreSound
<1>3. x.pc = "writing" /\ x.todo = run[r].todo \ {c}
  BY <1>1, <1>2, AnswerSound
<1> HIDE DEF x
<1>4. c \in Calls \ NeedsApproval
  BY <1>1, <1>2, Partition DEF SoundCopy
<1>5. c \in Ahead(run[r]) /\ Ahead(x) \subseteq Ahead(run[r]) \ {c}
  BY <1>1, <1>3 DEF Ahead
<1> QED
  BY <1>1, <1>3, <1>4, <1>5, ExecuteAccounted

LEMMA CrashAccounted ==
  ASSUME TypeOK, RunsAreAccounted, Crash
  PROVE  RunsAreAccounted'
<1>1. /\ run' = [r \in Requests |-> IF Active(r) THEN Ended("failed") ELSE run[r]]
      /\ UNCHANGED <<issued, ran, granted>>
  BY DEF Crash
<1>2. \A r \in Requests : /\ run'[r].pc \in {"idle", "done", "failed"}
                          /\ run'[r].pc = "idle" => run[r].pc = "idle"
  BY <1>1, EndedRun DEF Active
<1>3. /\ \A r \in Requests : Ahead(run'[r]) = {}
      /\ \A d \in Calls : Unused(d)' = {}
  BY <1>2 DEF Ahead, Unused
<1>4. ASSUME NEW d \in Calls \ NeedsApproval
      PROVE  /\ ran'[d] <= 1
             /\ d \notin issued' => ran'[d] = 0
             /\ \A p \in Requests : d \in Ahead(run'[p]) =>
                   /\ d \in issued' /\ ran'[d] = 0
                   /\ \A q \in Requests \ {p} : d \notin Ahead(run'[q])
  BY <1>1, <1>3 DEF RunsAreAccounted
<1>5. ASSUME NEW d \in NeedsApproval
      PROVE  /\ \A p \in granted'[d] : run'[p].pc # "idle"
             /\ Unused(d)' \subseteq granted'[d]
             /\ ran'[d] <= Cardinality(granted'[d] \ Unused(d)')
  <2>1. /\ d \in Calls /\ granted[d] \subseteq Requests /\ ran[d] \in Nat
        /\ \A p \in granted[d] : run[p].pc # "idle"
        /\ ran[d] <= Cardinality(granted[d] \ Unused(d))
    BY GrantFacts
  <2>2. granted'[d] = granted[d] /\ ran'[d] = ran[d] /\ Unused(d)' = {}
    BY <1>1, <1>3, <2>1
  <2>3. /\ Cardinality(granted[d] \ Unused(d)) <= Cardinality(granted[d] \ {})
        /\ Cardinality(granted[d] \ Unused(d)) \in Nat
        /\ Cardinality(granted[d] \ {}) \in Nat
    BY <2>1, SpentGrows
  <2>4. ran'[d] <= Cardinality(granted'[d] \ Unused(d)')
    BY <2>1, <2>2, <2>3
  <2>5. \A p \in granted'[d] : run'[p].pc # "idle"
    BY <1>2, <2>1, <2>2
  <2> QED
    BY <2>2, <2>4, <2>5
<1> QED
  BY <1>4, <1>5 DEF RunsAreAccounted

LEMMA AccountedInit == Init => RunsAreAccounted
<1> SUFFICES ASSUME Init PROVE RunsAreAccounted
  OBVIOUS
<1>1. /\ \A r \in Requests : run[r].pc = "idle"
      /\ \A d \in Calls : ran[d] = 0 /\ granted[d] = {}
  BY StartRun DEF Init
<1>2. /\ \A r \in Requests : Ahead(run[r]) = {}
      /\ \A d \in Calls : Unused(d) = {}
  BY <1>1 DEF Ahead, Unused
<1>3. Cardinality({}) = 0
  BY FS_EmptySet
<1>4. \A d \in NeedsApproval : d \in Calls /\ granted[d] \ Unused(d) = {}
  BY <1>1, Partition
<1>5. \A d \in NeedsApproval :
         /\ \A r \in granted[d] : run[r].pc # "idle"
         /\ Unused(d) \subseteq granted[d]
         /\ ran[d] <= Cardinality(granted[d] \ Unused(d))
  <2> SUFFICES ASSUME NEW d \in NeedsApproval
               PROVE  /\ granted[d] = {} /\ Unused(d) = {}
                      /\ ran[d] <= Cardinality(granted[d] \ Unused(d))
    OBVIOUS
  <2>1. granted[d] = {} /\ Unused(d) = {} /\ ran[d] = 0
    BY <1>1, <1>2, <1>4
  <2>2. granted[d] \ Unused(d) = {}
    BY <1>4
  <2>3. Cardinality(granted[d] \ Unused(d)) = 0
    BY <1>3, <2>2
  <2> QED
    BY <2>1, <2>3
<1>6. \A d \in Calls \ NeedsApproval :
         /\ ran[d] <= 1 /\ ran[d] = 0
         /\ \A r \in Requests : d \notin Ahead(run[r])
  BY <1>1, <1>2
<1> QED
  BY <1>5, <1>6 DEF RunsAreAccounted

LEMMA AccountedNext ==
  ASSUME TypeOK, CopiesAreSound, RunsAreAccounted, [Next]_vars
  PROVE  RunsAreAccounted'
<1>1. CASE Crash
  BY <1>1, CrashAccounted
<1>2. CASE UNCHANGED vars
  BY <1>2 DEF vars, RunsAreAccounted, Unused
<1>3. ASSUME NEW r \in Requests, Arrive(r)
      PROVE  RunsAreAccounted'
  <2>1. CASE NotFound(r)
    BY <2>1, EndAccounted DEF NotFound
  <2>2. ASSUME NEW c \in Conversations,
               \/ ChatExisting(r, c)
               \/ \E h \in ClientHistories : ChatNew(r, c, h)
        PROVE  RunsAreAccounted'
    BY <2>2, ChatAccounted
  <2>3. ASSUME NEW c \in Conversations, NEW n \in 1..MaxDecisions,
               NEW decisions \in [1..n -> Decisions], ApproveRefused(r, c, decisions)
        PROVE  RunsAreAccounted'
    BY <2>3, EndAccounted DEF ApproveRefused
  <2>4. ASSUME NEW c \in Conversations, NEW n \in 1..MaxDecisions,
               NEW decisions \in [1..n -> Decisions], ApproveAccepted(r, c, decisions)
        PROVE  RunsAreAccounted'
    BY <2>4, ApproveAccounted
  <2> QED
    BY <1>3, <2>1, <2>2, <2>3, <2>4 DEF Arrive
<1>4. ASSUME NEW r \in Requests, Step(r)
      PROVE  RunsAreAccounted'
  <2>1. CASE \/ Resume(r) \/ StopEarly(r) \/ CallModel(r) \/ ModelFails(r)
             \/ ModelFinishes(r) \/ EndBatch(r)
    BY <2>1, LoopStepAccounted
  <2>2. CASE \E c \in Calls : ResolveNext(r, c)
    BY <2>2, ResolveAccounted
  <2>3. CASE \E batch \in Batches : ModelRequestsTools(r, batch)
    BY <2>3, ModelRequestsToolsAccounted
  <2>4. CASE \E c \in Calls : ReadOnlySettles(r, c)
    BY <2>4, ReadOnlySettlesAccounted
  <2>5. CASE RecordReadOnly(r)
    BY <2>5, RecordReadOnlyAccounted
  <2>6. CASE \E c \in Calls : ExecuteMutating(r, c)
    BY <2>6, ExecuteMutatingAccounted
  <2>7. CASE Persist(r)
    BY <2>7, EndAccounted DEF Persist
  <2>8. CASE PersistFails(r)
    BY <2>8, EndAccounted DEF PersistFails
  <2> QED
    BY <1>4, <2>1, <2>2, <2>3, <2>4, <2>5, <2>6, <2>7, <2>8 DEF Step
<1> QED
  BY <1>1, <1>2, <1>3, <1>4 DEF Next, Quiet


-----------------------------------------------------------------------------
(* Every recorded result comes from an execution.                          *)

LEMMA BackedAppend ==
  ASSUME NEW h \in Histories, NEW m \in Messages, NEW count, Backed(h, count),
         \A d \in Calls : m = ToolMessage(d, "result") => count[d] > 0
  PROVE  Backed(Append(h, m), count)
<1> DEFINE g == Append(h, m)
<1>1. /\ DOMAIN g = 1..(Len(h) + 1) /\ DOMAIN h = 1..Len(h) /\ Len(h) \in Nat
      /\ \A i \in DOMAIN h : g[i] = h[i]
      /\ g[Len(h) + 1] = m
  BY AppendIndex
<1> HIDE DEF g
<1>2. Backed(g, count)
  BY <1>1 DEF Backed
<1> QED
  BY <1>2 DEF g

(* Executions are never undone.                                            *)
LEMMA BackedLater ==
  ASSUME TypeOK, NEW h, Backed(h, ran), NEW count,
         \A d \in Calls : ran[d] > 0 => count[d] > 0
  PROVE  Backed(h, count)
BY DEF Backed

(* A step that writes no row keeps all results backed when the copy it     *)
(* leaves is.                                                              *)
LEMMA BackedStep ==
  ASSUME TypeOK, ResultsAreBacked, NEW r \in Requests, NEW x,
         Becomes(r, x), UNCHANGED store,
         \A d \in Calls : ran[d] > 0 => ran'[d] > 0,
         Backed(x.messages, ran'),
         x.pc = "reading" =>
            \A d \in (Range(x.response) \cap ReadOnly) \ x.inFlight : ran'[d] > 0
  PROVE  ResultsAreBacked'
<1>1. /\ run'[r] = x /\ \A q \in Requests \ {r} : run'[q] = run[q]
  BY OthersAhead
<1>2. \A c \in Conversations : Backed(store'[c].messages, ran')
  BY BackedLater DEF ResultsAreBacked
<1>3. ASSUME NEW q \in Requests
      PROVE  /\ Backed(run'[q].messages, ran')
             /\ run'[q].pc = "reading" =>
                  \A d \in (Range(run'[q].response) \cap ReadOnly) \ run'[q].inFlight :
                     ran'[d] > 0
  <2>1. CASE q = r
    BY <1>1, <2>1
  <2>2. CASE q # r
    <3>1. Backed(run[q].messages, ran')
      BY BackedLater DEF ResultsAreBacked
    <3>2. run[q].pc = "reading" =>
            \A d \in (Range(run[q].response) \cap ReadOnly) \ run[q].inFlight : ran'[d] > 0
      BY Partition DEF ResultsAreBacked
    <3> QED
      BY <1>1, <2>2, <3>1, <3>2
  <2> QED
    BY <2>1, <2>2
<1> QED
  BY <1>2, <1>3 DEF ResultsAreBacked

LEMMA EmptyBacked == \A count : Backed(<< >>, count)
BY DEF Backed

LEMMA BackedEnd ==
  ASSUME TypeOK, ResultsAreBacked, NEW r \in Requests,
         Becomes(r, Ended("failed")), UNCHANGED <<store, ran>>
  PROVE  ResultsAreBacked'
BY EndedRun, EmptyBacked, BackedStep

LEMMA BackedChat ==
  ASSUME TypeOK, ResultsAreBacked, NEW r \in Requests, NEW c \in Conversations,
         \/ ChatExisting(r, c)
         \/ \E h \in ClientHistories : ChatNew(r, c, h)
  PROVE  ResultsAreBacked'
<1>1. User \in Messages /\ \A d \in Calls : User # ToolMessage(d, "result")
  BY DEF User, Messages, ToolMessage
<1>2. ASSUME NEW h \in Histories, Backed(h, ran)
      PROVE  LET x == [Start EXCEPT !.pc = "loop", !.kind = "chat", !.conv = c,
                                    !.messages = Append(h, User)]
             IN  Backed(x.messages, ran) /\ x.pc = "loop"
  <2>1. Backed(Append(h, User), ran)
    BY <1>1, <1>2, BackedAppend
  <2> QED
    BY <2>1 DEF Start
<1>3. CASE ChatExisting(r, c)
  <2> DEFINE h == store[c].messages
             x == [Start EXCEPT !.pc = "loop", !.kind = "chat", !.conv = c,
                                !.messages = Append(h, User)]
  <2>1. /\ h \in Histories /\ Backed(h, ran)
        /\ Becomes(r, x) /\ UNCHANGED <<store, ran>>
    BY <1>3 DEF ChatExisting, StartChat, TypeOK, Rows, ResultsAreBacked
  <2> HIDE DEF h
  <2>2. Backed(x.messages, ran) /\ x.pc = "loop"
    BY <1>2, <2>1
  <2> HIDE DEF x
  <2> QED
    BY <2>1, <2>2, BackedStep
<1>4. ASSUME NEW h \in ClientHistories, ChatNew(r, c, h)
      PROVE  ResultsAreBacked'
  <2> DEFINE x == [Start EXCEPT !.pc = "loop", !.kind = "chat", !.conv = c,
                                !.messages = Append(h, User)]
             row == [status |-> "ACTIVE", messages |-> h]
  <2>1. h \in Histories /\ Backed(h, ran)
    BY <1>4, ClientHistory DEF Backed, ToolMessage, Answered, IsAnswer
  <2>2. /\ Becomes(r, x) /\ UNCHANGED ran
        /\ store' = [store EXCEPT ![c] = row] /\ row.messages = h
    BY <1>4 DEF ChatNew, StartChat
  <2>3. Backed(x.messages, ran) /\ x.pc = "loop"
    BY <1>2, <2>1
  <2> HIDE DEF x, row
  <2>4. run'[r] = x /\ \A q \in Requests \ {r} : run'[q] = run[q]
    BY <2>2, OthersAhead
  <2>5. \A e \in Conversations : Backed(store'[e].messages, ran')
    BY <2>1, <2>2 DEF TypeOK, ResultsAreBacked
  <2> QED
    BY <2>2, <2>3, <2>4, <2>5 DEF ResultsAreBacked
<1> QED
  BY <1>3, <1>4

LEMMA BackedApprove ==
  ASSUME TypeOK, ResultsAreBacked, NEW r \in Requests, NEW c \in Conversations,
         NEW n \in 1..MaxDecisions, NEW decisions \in [1..n -> Decisions],
         ApproveAccepted(r, c, decisions)
  PROVE  ResultsAreBacked'
<1> DEFINE x == [Start EXCEPT
                   !.pc = "resolving", !.kind = "approve", !.conv = c,
                   !.messages = store[c].messages, !.iterations = 1,
                   !.todo = Pending(store[c].messages), !.approved = ApprovedBy(decisions)]
<1>1. Becomes(r, x) /\ UNCHANGED <<store, ran>>
  BY DEF ApproveAccepted, Accept
<1>2. x.pc = "resolving" /\ x.messages = store[c].messages
  BY DEF Start
<1> HIDE DEF x
<1>3. Backed(x.messages, ran)
  BY <1>2 DEF ResultsAreBacked
<1> QED
  BY <1>1, <1>2, <1>3, BackedStep

(* The steps that keep the messages and run nothing.                       *)
LEMMA BackedLoopStep ==
  ASSUME TypeOK, ResultsAreBacked, NEW r \in Requests,
         \/ Resume(r) \/ StopEarly(r) \/ CallModel(r) \/ ModelFails(r)
         \/ ModelFinishes(r) \/ EndBatch(r)
  PROVE  ResultsAreBacked'
<1>1. run[r] \in Runs /\ Backed(run[r].messages, ran)
  BY DEF TypeOK, ResultsAreBacked
<1>2. UNCHANGED <<store, ran>>
  BY DEF Resume, StopEarly, CallModel, ModelFails, ModelFinishes, EndBatch
<1>3. SUFFICES \E x : /\ Becomes(r, x) /\ x.pc # "reading"
                      /\ x.messages \in {run[r].messages, << >>}
  BY <1>1, <1>2, EmptyBacked, BackedStep
<1>4. CASE Resume(r)
  <2> DEFINE x == [run[r] EXCEPT !.pc = "loop", !.approved = {}]
  <2>1. Becomes(r, x) /\ x.pc # "reading" /\ x.messages = run[r].messages
    BY <1>1, <1>4 DEF Resume, Runs
  <2> QED
    BY <2>1
<1>5. CASE StopEarly(r)
  <2> DEFINE x == [run[r] EXCEPT !.pc = "finishing"]
  <2>1. Becomes(r, x) /\ x.pc # "reading" /\ x.messages = run[r].messages
    BY <1>1, <1>5 DEF StopEarly, Runs
  <2> QED
    BY <2>1
<1>6. CASE CallModel(r)
  <2> DEFINE x == [run[r] EXCEPT !.pc = "llm", !.iterations = @ + 1, !.attempt = 1]
  <2>1. Becomes(r, x) /\ x.pc # "reading" /\ x.messages = run[r].messages
    BY <1>1, <1>6 DEF CallModel, Runs
  <2> QED
    BY <2>1
<1>7. CASE ModelFails(r)
  <2>1. CASE run[r].attempt < MaxRetries
    <3> DEFINE x == [run[r] EXCEPT !.attempt = @ + 1]
    <3>1. Becomes(r, x) /\ x.pc # "reading" /\ x.messages = run[r].messages
      BY <1>1, <1>7, <2>1 DEF ModelFails, Runs
    <3> QED
      BY <3>1
  <2>2. CASE ~(run[r].attempt < MaxRetries)
    <3>1. Becomes(r, Ended("failed"))
      BY <1>7, <2>2 DEF ModelFails
    <3> QED
      BY <3>1, EndedRun
  <2> QED
    BY <2>1, <2>2
<1>8. CASE ModelFinishes(r)
  <2> DEFINE x == [run[r] EXCEPT !.pc = "finishing", !.attempt = 0]
  <2>1. Becomes(r, x) /\ x.pc # "reading" /\ x.messages = run[r].messages
    BY <1>1, <1>8 DEF ModelFinishes, Runs
  <2> QED
    BY <2>1
<1>9. CASE EndBatch(r)
  <2> DEFINE x == [run[r] EXCEPT
                     !.pc = IF Range(run[r].response) \cap NeedsApproval # {}
                            THEN "pausing" ELSE "loop",
                     !.response = << >>]
  <2>1. Becomes(r, x) /\ x.pc # "reading" /\ x.messages = run[r].messages
    BY <1>1, <1>9 DEF EndBatch, Runs
  <2> QED
    BY <2>1
<1> QED
  BY <1>4, <1>5, <1>6, <1>7, <1>8, <1>9

LEMMA BackedAnswer ==
  ASSUME TypeOK, CopiesAreSound, ResultsAreBacked,
         NEW r \in Requests, NEW c \in Calls,
         ResolveNext(r, c) \/ ExecuteMutating(r, c)
  PROVE  ResultsAreBacked'
<1>1. /\ run[r] \in Runs /\ SoundCopy(run[r], issued) /\ Backed(run[r].messages, ran)
      /\ run[r].pc \in {"resolving", "writing"} /\ c \in run[r].todo
      /\ UNCHANGED store
  BY DEF TypeOK, CopiesAreSound, ResultsAreBacked, ResolveNext, ExecuteMutating, IsNext
<1>2. \/ Execute(c) /\ Answer(r, c, "result")
      \/ UNCHANGED ran /\ Answer(r, c, "REJECTED_BY_USER")
  BY DEF ResolveNext, ExecuteMutating
<1>3. \A d \in Calls : ran[d] > 0 => ran'[d] > 0
  BY <1>2, ExecuteType DEF TypeOK
<1>4. Backed(run[r].messages, ran')
  BY <1>1, <1>3, BackedLater
<1>5. ASSUME NEW content \in {"result", "REJECTED_BY_USER"}, Answer(r, c, content),
             content = "result" => ran'[c] > 0
      PROVE  ResultsAreBacked'
  <2> DEFINE x == AfterAnswer(run[r], c, content)
             m == ToolMessage(c, content)
  <2>1. /\ x.messages = Append(run[r].messages, m) /\ x.pc # "reading"
    BY <1>1, AnswerSound
  <2>2. m \in Messages /\ \A d \in Calls : m = ToolMessage(d, "result") => ran'[d] > 0
    BY <1>5 DEF Messages, ToolMessage
  <2>3. run[r].messages \in Histories
    BY <1>1, RunFields
  <2>4. Becomes(r, x)
    BY <1>5 DEF Answer
  <2> HIDE DEF x, m
  <2>5. Backed(x.messages, ran')
    BY <1>4, <2>1, <2>2, <2>3, BackedAppend
  <2> QED
    BY <1>1, <1>3, <2>1, <2>4, <2>5, BackedStep
<1>6. Execute(c) => ran'[c] > 0
  BY ExecuteType DEF TypeOK
<1> QED
  BY <1>2, <1>5, <1>6

LEMMA BackedModelRequestsTools ==
  ASSUME TypeOK, ResultsAreBacked, NEW r \in Requests, NEW batch \in Batches,
         ModelRequestsTools(r, batch)
  PROVE  ResultsAreBacked'
<1> DEFINE m == Assistant(batch)
           x == [run[r] EXCEPT !.pc = "reading", !.attempt = 0,
                   !.messages = Append(@, m), !.response = batch,
                   !.inFlight = Range(batch) \cap ReadOnly]
<1>1. Becomes(r, x) /\ UNCHANGED <<store, ran>>
  BY DEF ModelRequestsTools
<1>2. /\ m \in Messages /\ \A d \in Calls : m # ToolMessage(d, "result")
  BY BatchFacts DEF TypeOK, Messages, Assistant, ToolMessage
<1>3. run[r] \in Runs /\ run[r].messages \in Histories /\ Backed(run[r].messages, ran)
  BY RunFields DEF TypeOK, ResultsAreBacked
<1> HIDE DEF m
<1>4. Backed(Append(run[r].messages, m), ran)
  BY <1>2, <1>3, BackedAppend
<1>5. /\ x.messages = Append(run[r].messages, m) /\ x.response = batch
      /\ x.inFlight = Range(batch) \cap ReadOnly
  BY <1>3 DEF Runs
<1> HIDE DEF x
<1> QED
  BY <1>1, <1>4, <1>5, BackedStep

LEMMA BackedReadOnlySettles ==
  ASSUME TypeOK, ResultsAreBacked, NEW r \in Requests, NEW c \in Calls,
         ReadOnlySettles(r, c)
  PROVE  ResultsAreBacked'
<1> DEFINE x == [run[r] EXCEPT !.inFlight = @ \ {c}]
<1>1. /\ run[r].pc = "reading" /\ Becomes(r, x) /\ Execute(c) /\ UNCHANGED store
      /\ run[r] \in Runs /\ Backed(run[r].messages, ran)
  BY DEF ReadOnlySettles, TypeOK, ResultsAreBacked
<1>2. /\ ran'[c] > 0 /\ \A d \in Calls : ran[d] > 0 => ran'[d] > 0
  BY <1>1, ExecuteType DEF TypeOK
<1>3. /\ x.messages = run[r].messages /\ x.response = run[r].response
      /\ x.inFlight = run[r].inFlight \ {c}
  BY <1>1 DEF Runs
<1> HIDE DEF x
<1>4. \A d \in (Range(x.response) \cap ReadOnly) \ x.inFlight : ran'[d] > 0
  <2> SUFFICES ASSUME NEW d \in (Range(x.response) \cap ReadOnly) \ x.inFlight
               PROVE  ran'[d] > 0
    OBVIOUS
  <2>1. CASE d = c
    BY <1>2, <2>1
  <2>2. CASE d # c
    <3>1. d \in (Range(run[r].response) \cap ReadOnly) \ run[r].inFlight /\ d \in Calls
      BY <1>3, <2>2, Partition
    <3>2. ran[d] > 0
      BY <1>1, <3>1 DEF ResultsAreBacked
    <3> QED
      BY <1>2, <3>1, <3>2
  <2> QED
    BY <2>1, <2>2
<1>5. Backed(x.messages, ran')
  BY <1>1, <1>2, <1>3, BackedLater
<1> QED
  BY <1>1, <1>2, <1>4, <1>5, BackedStep

LEMMA BackedRecordReadOnly ==
  ASSUME TypeOK, ResultsAreBacked, NEW r \in Requests, RecordReadOnly(r)
  PROVE  ResultsAreBacked'
<1> DEFINE h == run[r].messages
           S == Range(run[r].response) \cap ReadOnly
           T(s) == [i \in DOMAIN s |-> ToolMessage(s[i], "result")]
           X(s) == [run[r] EXCEPT
                      !.pc = "writing", !.messages = @ \o T(s),
                      !.todo = Range(run[r].response) \cap Mutating]
<1>1. /\ run[r] \in Runs /\ h \in Histories /\ Backed(h, ran)
      /\ run[r].pc = "reading" /\ run[r].inFlight = {} /\ UNCHANGED <<store, ran>>
  BY RunFields DEF TypeOK, ResultsAreBacked, RecordReadOnly
<1>2. \A d \in S : d \in Calls /\ ran[d] > 0
  BY <1>1, Partition DEF ResultsAreBacked
<1>3. PICK s \in Bijection(1..Cardinality(S), S) : Becomes(r, X(s))
  BY DEF RecordReadOnly, InOrder
<1>4. Cardinality(S) \in Nat
  BY CallsAssumption, Partition, FS_Subset, FS_CardinalityType
<1> DEFINE n == Cardinality(S)
           g == h \o T(s)
           x == X(s)
<1>5. s \in [1..n -> S]
  BY <1>3 DEF Bijection, Injection
<1>6. T(s) \in Histories /\ Len(T(s)) = n /\ \A i \in 1..n : T(s)[i] = ToolMessage(s[i], "result")
  <2>1. \A i \in 1..n : ToolMessage(s[i], "result") \in Messages
    BY <1>2, <1>5 DEF Messages, ToolMessage
  <2> HIDE DEF n, S
  <2>2. n \in Nat
    BY <1>4 DEF n
  <2>3. T(s) \in [1..n -> Messages]
    BY <1>5, <2>1
  <2> QED
    BY <1>5, <2>2, <2>3 DEF Histories
<1>7. x.messages = g /\ x.pc = "writing"
  BY <1>1 DEF Runs
<1>8. Becomes(r, x)
  BY <1>3
<1>9. Backed(g, ran)
  <2> SUFFICES ASSUME NEW d \in Calls, NEW i \in DOMAIN g, g[i] = ToolMessage(d, "result")
               PROVE  ran[d] > 0
    BY DEF Backed
  <2>1. /\ h \in Histories /\ T(s) \in Histories /\ Len(T(s)) = n
        /\ DOMAIN T(s) = 1..n /\ \A k \in 1..n : T(s)[k] = ToolMessage(s[k], "result")
    BY <1>1, <1>4, <1>5, <1>6
  <2> HIDE DEF S, T, n, h
  <2>2. CASE i \in DOMAIN h /\ g[i] = h[i]
    BY <1>1, <2>2 DEF Backed
  <2>3. CASE \E k \in DOMAIN T(s) : g[i] = T(s)[k]
    <3>1. PICK k \in 1..n : ToolMessage(d, "result") = ToolMessage(s[k], "result")
      BY <2>1, <2>3
    <3>2. d = s[k]
      BY <3>1 DEF ToolMessage
    <3> QED
      BY <1>2, <1>5, <3>2
  <2> QED
    BY <2>1, <2>2, <2>3, Concatenation
<1> HIDE DEF x, g
<1> QED
  BY <1>1, <1>7, <1>8, <1>9, BackedStep

LEMMA BackedPersist ==
  ASSUME TypeOK, CopiesAreSound, ResultsAreBacked, NEW r \in Requests, Persist(r)
  PROVE  ResultsAreBacked'
<1> DEFINE row == [status |-> StatusOf(run[r].pc), messages |-> run[r].messages]
<1>1. /\ store' = [store EXCEPT ![run[r].conv] = row] /\ row.messages = run[r].messages
      /\ UNCHANGED ran /\ Becomes(r, Ended("done"))
  BY DEF Persist
<1> HIDE DEF row
<1>2. run'[r] = Ended("done") /\ \A q \in Requests \ {r} : run'[q] = run[q]
  BY <1>1, OthersAhead
<1>3. \A c \in Conversations : Backed(store'[c].messages, ran')
  BY <1>1 DEF TypeOK, ResultsAreBacked
<1>4. Ended("done").pc = "done" /\ Backed(Ended("done").messages, ran')
  BY EndedRun, EmptyBacked
<1> QED
  BY <1>1, <1>2, <1>3, <1>4 DEF ResultsAreBacked

LEMMA BackedCrash ==
  ASSUME TypeOK, ResultsAreBacked, Crash
  PROVE  ResultsAreBacked'
<1>1. /\ run' = [r \in Requests |-> IF Active(r) THEN Ended("failed") ELSE run[r]]
      /\ UNCHANGED <<store, ran>>
  BY DEF Crash
<1>2. Ended("failed").pc = "failed" /\ Backed(Ended("failed").messages, ran')
  BY EndedRun, EmptyBacked
<1> QED
  BY <1>1, <1>2 DEF ResultsAreBacked

LEMMA BackedInit == Init => ResultsAreBacked
<1> SUFFICES ASSUME Init PROVE ResultsAreBacked
  OBVIOUS
<1>1. /\ \A c \in Conversations : store[c].messages = << >>
      /\ \A r \in Requests : run[r].messages = << >> /\ run[r].pc = "idle"
  BY StartRun DEF Init, Absent
<1> QED
  BY <1>1, EmptyBacked DEF ResultsAreBacked

LEMMA BackedNext ==
  ASSUME TypeOK, CopiesAreSound, ResultsAreBacked, [Next]_vars
  PROVE  ResultsAreBacked'
<1>1. CASE Crash
  BY <1>1, BackedCrash
<1>2. CASE UNCHANGED vars
  BY <1>2 DEF vars, ResultsAreBacked
<1>3. ASSUME NEW r \in Requests, Arrive(r)
      PROVE  ResultsAreBacked'
  <2>1. CASE NotFound(r)
    BY <2>1, BackedEnd DEF NotFound
  <2>2. ASSUME NEW c \in Conversations,
               \/ ChatExisting(r, c)
               \/ \E h \in ClientHistories : ChatNew(r, c, h)
        PROVE  ResultsAreBacked'
    BY <2>2, BackedChat
  <2>3. ASSUME NEW c \in Conversations, NEW n \in 1..MaxDecisions,
               NEW decisions \in [1..n -> Decisions], ApproveRefused(r, c, decisions)
        PROVE  ResultsAreBacked'
    BY <2>3, BackedEnd DEF ApproveRefused
  <2>4. ASSUME NEW c \in Conversations, NEW n \in 1..MaxDecisions,
               NEW decisions \in [1..n -> Decisions], ApproveAccepted(r, c, decisions)
        PROVE  ResultsAreBacked'
    BY <2>4, BackedApprove
  <2> QED
    BY <1>3, <2>1, <2>2, <2>3, <2>4 DEF Arrive
<1>4. ASSUME NEW r \in Requests, Step(r)
      PROVE  ResultsAreBacked'
  <2>1. CASE \/ Resume(r) \/ StopEarly(r) \/ CallModel(r) \/ ModelFails(r)
             \/ ModelFinishes(r) \/ EndBatch(r)
    BY <2>1, BackedLoopStep
  <2>2. ASSUME NEW c \in Calls, ResolveNext(r, c) \/ ExecuteMutating(r, c)
        PROVE  ResultsAreBacked'
    BY <2>2, BackedAnswer
  <2>3. CASE \E batch \in Batches : ModelRequestsTools(r, batch)
    BY <2>3, BackedModelRequestsTools
  <2>4. CASE \E c \in Calls : ReadOnlySettles(r, c)
    BY <2>4, BackedReadOnlySettles
  <2>5. CASE RecordReadOnly(r)
    BY <2>5, BackedRecordReadOnly
  <2>6. CASE Persist(r)
    BY <2>6, BackedPersist
  <2>7. CASE PersistFails(r)
    BY <2>7, BackedEnd DEF PersistFails
  <2> QED
    BY <1>4, <2>1, <2>2, <2>3, <2>4, <2>5, <2>6, <2>7 DEF Step
<1> QED
  BY <1>1, <1>2, <1>3, <1>4 DEF Next, Quiet


-----------------------------------------------------------------------------
(* The invariant, and what follows from it.                                *)

(* Inv is an invariant of Agent: the handlers' private copies are sound,   *)
(* executions are covered by grants, and recorded results by executions.   *)
THEOREM Invariance == Spec => []Inv
<1>1. Init => Inv
  BY CopiesInit, AccountedInit, BackedInit DEF Inv
<1>2. Inv /\ [Next]_vars => Inv'
  <2> SUFFICES ASSUME Inv, [Next]_vars PROVE Inv'
    OBVIOUS
  <2>1. TypeOK' /\ CopiesAreSound'
    BY CopiesNext DEF Inv
  <2>2. RunsAreAccounted'
    BY AccountedNext DEF Inv
  <2>3. ResultsAreBacked'
    BY BackedNext DEF Inv
  <2> QED
    BY <2>1, <2>2, <2>3 DEF Inv
<1> QED
  BY <1>1, <1>2, PTL DEF Spec

(* Type correctness: the table, the handlers and the history variables     *)
(* keep their types.                                                       *)
THEOREM TypeCorrect == Spec => []TypeOK
<1>1. Inv => TypeOK
  BY DEF Inv
<1> QED
  BY <1>1, Invariance, PTL

(* A pause can always be decided: no stored history is ever left waiting   *)
(* for a call approve would refuse, and PAUSED always has a call to decide.*)
THEOREM PauseDecidable == Spec => []PauseIsDecidable
<1>1. Inv => PauseIsDecidable
  BY DEF Inv, CopiesAreSound
<1> QED
  BY <1>1, Invariance, PTL

(* No call that needs approval is executed more often than it was approved *)
(* by a human, and no other call is executed twice.                        *)
THEOREM HumanInTheLoop == Spec => []RunsAreGranted
<1>1. Inv => RunsAreGranted
  <2> SUFFICES ASSUME Inv, NEW d \in Calls
               PROVE  ran[d] <= IF d \in NeedsApproval THEN Cardinality(granted[d]) ELSE 1
    BY DEF RunsAreGranted
  <2>1. CASE d \in NeedsApproval
    <3>1. /\ TypeOK /\ ran[d] \in Nat
          /\ ran[d] <= Cardinality(granted[d] \ Unused(d))
      BY <2>1, GrantFacts DEF Inv
    <3>2. /\ Cardinality(granted[d] \ Unused(d)) <= Cardinality(granted[d] \ {})
          /\ Cardinality(granted[d] \ Unused(d)) \in Nat
          /\ Cardinality(granted[d] \ {}) \in Nat
      BY <3>1, SpentGrows
    <3>3. granted[d] \ {} = granted[d]
      OBVIOUS
    <3> QED
      BY <2>1, <3>1, <3>2, <3>3
  <2>2. CASE d \notin NeedsApproval
    BY <2>2 DEF Inv, RunsAreAccounted
  <2> QED
    BY <2>1, <2>2
<1> QED
  BY <1>1, Invariance, PTL
=============================================================================
