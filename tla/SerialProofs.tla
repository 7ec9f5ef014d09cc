---------------------------- MODULE SerialProofs ----------------------------
(***************************************************************************)
(* What holds when a client waits for its answer before it sends the next  *)
(* request for a conversation: histories only grow, decisions are final,   *)
(* and the rows implement the approval protocol.                           *)
(***************************************************************************)
EXTENDS PairingProofs

-----------------------------------------------------------------------------
(* Prefixes of histories.                                                  *)

(* A prefix is compared index by index.                                    *)
LEMMA PrefixIndex ==
  ASSUME NEW h \in Histories, NEW g \in Histories
  PROVE  IsPrefix(h, g) <=> /\ Len(h) <= Len(g)
                            /\ \A i \in 1..Len(h) : g[i] = h[i]
<1>1. /\ Len(h) \in Nat /\ DOMAIN h = 1..Len(h)
      /\ Len(g) \in Nat /\ DOMAIN g = 1..Len(g)
  BY DEF Histories
<1>2. SubSeq(h, 1, Len(h)) = h
  BY SubSeqFull DEF Histories
<1>3. ASSUME Len(h) <= Len(g)
      PROVE  SubSeq(g, 1, Len(h)) = h <=> \A i \in 1..Len(h) : g[i] = h[i]
  <2> DEFINE p == SubSeq(g, 1, Len(h))
  <2>1. \A i \in 1..Len(h) : g[i] \in Messages
    BY <1>1, <1>3 DEF Histories
  <2>2. /\ p \in Seq(Messages) /\ Len(p) = Len(h)
        /\ \A i \in 1..Len(h) : p[i] = g[i]
    <3>1. /\ p \in Seq(Messages)
          /\ Len(p) = IF 1 <= Len(h) THEN Len(h) - 1 + 1 ELSE 0
          /\ \A i \in 1..(Len(h) - 1 + 1) : p[i] = g[1 + i - 1]
      BY <1>1, <2>1, SubSeqProperties
    <3> HIDE DEF p
    <3>2. Len(p) = Len(h) /\ Len(h) - 1 + 1 = Len(h)
      BY <1>1, <3>1
    <3>3. \A i \in 1..Len(h) : 1 + i - 1 = i
      BY <1>1
    <3> QED
      BY <3>1, <3>2, <3>3
  <2> HIDE DEF p
  <2>3. p = h <=> \A i \in 1..Len(h) : p[i] = h[i]
    BY <1>1, <2>2 DEF Histories
  <2> QED
    BY <2>2, <2>3 DEF p
<1> QED
  BY <1>2, <1>3 DEF IsPrefix

LEMMA PrefixSelf ==
  ASSUME NEW h \in Histories
  PROVE  IsPrefix(h, h)
BY PrefixIndex DEF Histories

LEMMA PrefixTrans ==
  ASSUME NEW f \in Histories, NEW g \in Histories, NEW h \in Histories,
         IsPrefix(f, g), IsPrefix(g, h)
  PROVE  IsPrefix(f, h)
<1>1. Len(f) \in Nat /\ Len(g) \in Nat /\ Len(h) \in Nat
  BY DEF Histories
<1>2. Len(f) <= Len(g) /\ \A i \in 1..Len(f) : g[i] = f[i]
  BY PrefixIndex
<1>3. Len(g) <= Len(h) /\ \A i \in 1..Len(g) : h[i] = g[i]
  BY PrefixIndex
<1>4. Len(f) <= Len(h) /\ \A i \in 1..Len(f) : h[i] = f[i]
  BY <1>1, <1>2, <1>3
<1> QED
  BY <1>4, PrefixIndex

LEMMA PrefixAppend ==
  ASSUME NEW h \in Histories, NEW m \in Messages
  PROVE  IsPrefix(h, Append(h, m))
<1> DEFINE g == Append(h, m)
<1>1. /\ g \in Histories /\ Len(h) \in Nat /\ DOMAIN h = 1..Len(h)
      /\ DOMAIN g = 1..(Len(h) + 1) /\ \A i \in DOMAIN h : g[i] = h[i]
  BY AppendIndex
<1> HIDE DEF g
<1>2. Len(g) = Len(h) + 1
  BY <1>1 DEF Histories
<1>3. Len(h) <= Len(g) /\ \A i \in 1..Len(h) : g[i] = h[i]
  BY <1>1, <1>2
<1>4. IsPrefix(h, g)
  BY <1>1, <1>3, PrefixIndex
<1> QED
  BY <1>4 DEF g

LEMMA PrefixConcat ==
  ASSUME NEW h \in Histories, NEW t \in Histories
  PROVE  h \o t \in Histories /\ IsPrefix(h, h \o t)
<1>1. h \o t \in Histories
  BY DEF Histories
<1>2. /\ Len(h) \in Nat /\ Len(t) \in Nat /\ Len(h \o t) = Len(h) + Len(t)
      /\ \A i \in 1..Len(h) : (h \o t)[i] = h[i]
  BY DEF Histories
<1>3. Len(h) <= Len(h \o t)
  BY <1>2
<1> QED
  BY <1>1, <1>2, <1>3, PrefixIndex

(* What a prefix requests, answers and rejects, the whole does.            *)
LEMMA PrefixKeeps ==
  ASSUME NEW h \in Histories, NEW g \in Histories, IsPrefix(h, g)
  PROVE  /\ Requested(h) \subseteq Requested(g)
         /\ Answered(h) \subseteq Answered(g)
         /\ \A d \in Calls : Rejects(h, d) => Rejects(g, d)
<1>1. /\ Len(h) \in Nat /\ DOMAIN h = 1..Len(h)
      /\ Len(g) \in Nat /\ DOMAIN g = 1..Len(g)
  BY DEF Histories
<1>2. Len(h) <= Len(g) /\ \A i \in 1..Len(h) : g[i] = h[i]
  BY PrefixIndex
<1>3. \A i \in DOMAIN h : i \in DOMAIN g /\ g[i] = h[i]
  BY <1>1, <1>2
<1> QED
  BY <1>3 DEF Requested, Answered, Rejects

(* A rejected call is answered, and an answered one was requested.         *)
LEMMA RejectedIsAnswered ==
  ASSUME NEW h \in Histories, WellFormed(h)
  PROVE  /\ Answered(h) \subseteq Requested(h)
         /\ \A d \in Calls : Rejects(h, d) => d \in Answered(h)
<1>1. \A d \in Calls : Rejects(h, d) => d \in Answered(h)
  BY DEF Rejects, Answered, IsAnswer, ToolMessage
<1>2. ASSUME NEW d \in Answered(h) PROVE d \in Requested(h)
  <2>1. PICK i \in DOMAIN h : h[i].role = "tool" /\ h[i].toolCallId = d
    BY <1>2 DEF Answered, IsAnswer
  <2>2. PICK j \in 1..(i-1) : IsRequest(h[j], d)
    BY <2>1 DEF WellFormed
  <2>3. j \in DOMAIN h
    BY <2>1, <2>2 DEF Histories
  <2> QED
    BY <1>2, <2>2, <2>3 DEF Requested, Answered
<1> QED
  BY <1>1, <1>2

(* The message at the end is the only one that an append adds.             *)
LEMMA AppendRejects ==
  ASSUME NEW h \in Histories, NEW m \in Messages, NEW d \in Calls,
         Rejects(Append(h, m), d)
  PROVE  Rejects(h, d) \/ m = ToolMessage(d, "REJECTED_BY_USER")
<1> DEFINE g == Append(h, m)
<1>1. /\ Len(h) \in Nat /\ DOMAIN h = 1..Len(h)
      /\ DOMAIN g = 1..(Len(h) + 1)
      /\ \A i \in DOMAIN h : g[i] = h[i]
      /\ g[Len(h) + 1] = m
  BY AppendIndex
<1> HIDE DEF g
<1>2. PICK i \in DOMAIN g : g[i] = ToolMessage(d, "REJECTED_BY_USER")
  BY DEF Rejects, g
<1>3. i \in DOMAIN h \/ i = Len(h) + 1
  BY <1>1
<1> QED
  BY <1>1, <1>2, <1>3 DEF Rejects

-----------------------------------------------------------------------------
(* The steps, told apart by what they do to copies and rows.               *)

(* Nothing but handlers that fail: they store nothing.                     *)
Drops ==
    /\ UNCHANGED <<store, issued, ran, granted>>
    /\ \A q \in Requests : run'[q] = run[q] \/ run'[q].pc = "failed"

(* The handler of r takes a step within its copy, where the model asks for *)
(* some calls and others are answered.                                     *)
Moves(r, asked, answered) ==
    LET h == run[r].messages
        g == run'[r].messages
    IN  /\ Active(r) /\ Active(r)' /\ UNCHANGED <<store, granted>>
        /\ \A q \in Requests \ {r} : run'[q] = run[q]
        /\ run'[r].conv = run[r].conv /\ run'[r].kind = run[r].kind
        /\ issued' = issued \cup asked /\ asked \cap issued = {}
        /\ g \in Histories /\ IsPrefix(h, g)
        /\ Requested(g) = Requested(h) \cup asked
        /\ Answered(g) = Answered(h) \cup answered /\ answered \subseteq Pending(h)
        /\ \A d \in NeedsApproval :
              /\ Rejects(g, d) => Rejects(h, d) \/ (d \in answered /\ ran'[d] = ran[d])
              /\ \/ ran'[d] = ran[d]
                 \/ /\ ran'[d] = ran[d] + 1 /\ d \in answered
                    /\ run[r].pc = "resolving" /\ d \in run[r].todo \cap run[r].approved
        /\ run[r].pc = "resolving" =>
              IF run'[r].pc = "resolving" THEN run'[r].todo = run[r].todo \ answered
              ELSE run[r].todo = {} /\ answered = {}
        /\ run[r].pc # "resolving" =>
              run'[r].pc # "resolving" /\ answered \cap NeedsApproval = {}

(* A handler starts on the row of c, which exists or is created.           *)
Starts(r, c) ==
    LET h == store'[c].messages
        g == run'[r].messages
    IN  /\ run[r].pc = "idle" /\ Active(r)' /\ run'[r].conv = c
        /\ \A q \in Requests \ {r} : run'[q] = run[q]
        /\ \A e \in Conversations \ {c} : store'[e] = store[e]
        /\ \/ store' = store /\ Admitted(r, c)
           \/ ~Exists(c) /\ Requested(h) = {} /\ store'[c].status = "ACTIVE"
        /\ UNCHANGED <<issued, ran>>
        /\ \A d \in Calls : granted[d] \subseteq granted'[d]
        /\ h \in Histories /\ WellFormed(h) /\ g \in Histories /\ IsPrefix(h, g)
        /\ Requested(g) = Requested(h) /\ Answered(g) = Answered(h)
        /\ \A d \in Calls : Rejects(g, d) => Rejects(h, d)
        /\ \/ /\ run'[r].kind = "chat" /\ run'[r].pc # "resolving"
              /\ ~ChatOnPaused => store'[c].status # "PAUSED"
           \/ /\ run'[r].kind = "approve" /\ run'[r].pc = "resolving"
              /\ run'[r].todo = Pending(h) /\ Pending(h) # {}

(* A chat.                                                                 *)
LEMMA ChatStarts ==
  ASSUME TypeOK, CopiesAreSound, NEW r \in Requests, NEW c \in Conversations,
         ChatExisting(r, c) \/ \E h \in ClientHistories : ChatNew(r, c, h)
  PROVE  Starts(r, c)
<1>1. \E h \in Histories :
         /\ WellFormed(h) /\ StartChat(r, c, h) /\ store'[c].messages = h
         /\ run[r].pc = "idle"
         /\ \A e \in Conversations \ {c} : store'[e] = store[e]
         /\ \/ store' = store /\ Admitted(r, c)
            \/ ~Exists(c) /\ Requested(h) = {} /\ store'[c].status = "ACTIVE"
         /\ UNCHANGED <<issued, ran, granted>>
         /\ ~ChatOnPaused => store'[c].status # "PAUSED"
  <2>1. CASE ChatExisting(r, c)
    <3>1. store[c].messages \in Histories /\ WellFormed(store[c].messages)
      BY DEF TypeOK, Rows, CopiesAreSound, SoundHistory
    <3> QED
      BY <2>1, <3>1 DEF ChatExisting, Admitted
  <2>2. ASSUME NEW h \in ClientHistories, ChatNew(r, c, h)
        PROVE  /\ h \in Histories /\ WellFormed(h) /\ Requested(h) = {}
               /\ StartChat(r, c, h) /\ run[r].pc = "idle" /\ ~Exists(c)
               /\ store'[c].messages = h /\ store'[c].status = "ACTIVE"
               /\ \A e \in Conversations \ {c} : store'[e] = store[e]
               /\ UNCHANGED <<issued, ran, granted>>
    BY <2>2, ClientHistory DEF ChatNew, TypeOK
  <2> QED
    BY <2>1, <2>2
<1>2. PICK h \in Histories :
         /\ WellFormed(h) /\ StartChat(r, c, h) /\ store'[c].messages = h
         /\ run[r].pc = "idle"
         /\ \A e \in Conversations \ {c} : store'[e] = store[e]
         /\ \/ store' = store /\ Admitted(r, c)
            \/ ~Exists(c) /\ Requested(h) = {} /\ store'[c].status = "ACTIVE"
         /\ UNCHANGED <<issued, ran, granted>>
         /\ ~ChatOnPaused => store'[c].status # "PAUSED"
  BY <1>1
<1> DEFINE g == Append(h, User)
           x == [Start EXCEPT !.pc = "loop", !.kind = "chat", !.conv = c,
                              !.messages = g]
<1>3. User \in Messages
  BY DEF Messages, User
<1>4. /\ g \in Histories /\ IsPrefix(h, g)
      /\ Requested(g) = Requested(h) /\ Answered(g) = Answered(h)
  BY <1>2, <1>3, AppendUser, PrefixAppend
<1>5. \A d \in Calls : Rejects(g, d) => Rejects(h, d)
  BY <1>3, AppendRejects DEF User, ToolMessage
<1>6. run'[r] = x /\ \A q \in Requests \ {r} : run'[q] = run[q]
  BY <1>2 DEF StartChat, Becomes, TypeOK
<1> HIDE DEF g
<1>7. x.pc = "loop" /\ x.kind = "chat" /\ x.conv = c /\ x.messages = g
  BY DEF Start
<1> HIDE DEF x
<1> QED
  BY <1>2, <1>4, <1>5, <1>6, <1>7 DEF Starts, Active

(* An approve request whose decisions are valid.                           *)
LEMMA ApproveStarts ==
  ASSUME TypeOK, CopiesAreSound, NEW r \in Requests, NEW c \in Conversations,
         NEW n \in 1..MaxDecisions, NEW decisions \in [1..n -> Decisions],
         ApproveAccepted(r, c, decisions)
  PROVE  Starts(r, c)
<1> DEFINE h == store[c].messages
           x == [Start EXCEPT
                   !.pc = "resolving", !.kind = "approve", !.conv = c,
                   !.messages = h, !.iterations = 1,
                   !.todo = Pending(h), !.approved = ApprovedBy(decisions)]
<1>1. h \in Histories /\ WellFormed(h)
  BY DEF TypeOK, Rows, CopiesAreSound, SoundHistory
<1>2. /\ run'[r] = x /\ \A q \in Requests \ {r} : run'[q] = run[q]
      /\ UNCHANGED <<store, issued, ran>>
  BY DEF ApproveAccepted, Accept, Becomes, TypeOK
<1>3. Admitted(r, c) /\ run[r].pc = "idle" /\ Pending(h) # {}
  BY DEF ApproveAccepted, Accept, Admitted, Refused
<1>4. \A d \in Calls : granted[d] \subseteq granted'[d]
  BY DEF ApproveAccepted, Accept
<1> HIDE DEF h
<1>5. /\ x.pc = "resolving" /\ x.kind = "approve" /\ x.conv = c
      /\ x.messages = h /\ x.todo = Pending(h)
  BY DEF Start
<1> HIDE DEF x
<1>6. IsPrefix(h, h) /\ store'[c].messages = h
  BY <1>1, <1>2, PrefixSelf DEF h
<1> QED
  BY <1>1, <1>2, <1>3, <1>4, <1>5, <1>6 DEF Starts, Active

(* A handler that gives up.                                                *)
LEMMA FailureDrops ==
  ASSUME TypeOK, NEW r \in Requests, Becomes(r, Ended("failed")),
         UNCHANGED <<store, issued, ran, granted>>
  PROVE  Drops
<1>1. run'[r].pc = "failed"
  BY EndedRun DEF Becomes, TypeOK
<1> QED
  BY <1>1 DEF Drops, Becomes, TypeOK

(* The steps around the model leave the copy as it is, or lose it.         *)
LEMMA LoopMoves ==
  ASSUME TypeOK, CopiesAreSound, NEW r \in Requests,
         \/ Resume(r) \/ StopEarly(r) \/ CallModel(r) \/ ModelFails(r)
         \/ ModelFinishes(r) \/ EndBatch(r)
         \/ \E c \in Calls : ReadOnlySettles(r, c)
  PROVE  Drops \/ Moves(r, {}, {})
<1>1. run[r] \in Runs /\ run \in [Requests -> Runs] /\ ran \in [Calls -> Nat]
  BY DEF TypeOK
<1>2. run[r].messages \in Histories /\ IsPrefix(run[r].messages, run[r].messages)
  BY <1>1, RunFields, PrefixSelf
<1> DEFINE Same == /\ run'[r].conv = run[r].conv /\ run'[r].kind = run[r].kind
                   /\ run'[r].messages = run[r].messages
<1>3. ASSUME UNCHANGED <<store, issued, granted>>, Same,
             \A q \in Requests \ {r} : run'[q] = run[q],
             \A d \in NeedsApproval : ran'[d] = ran[d],
             Active(r), Active(r)', run'[r].pc # "resolving",
             run[r].pc = "resolving" => run[r].todo = {}
      PROVE  Moves(r, {}, {})
  BY <1>2, <1>3 DEF Moves
<1>4. CASE Resume(r)
  BY <1>1, <1>3, <1>4 DEF Resume, Becomes, Runs, Active
<1>5. CASE StopEarly(r)
  BY <1>1, <1>3, <1>5 DEF StopEarly, Becomes, Runs, Active
<1>6. CASE CallModel(r)
  BY <1>1, <1>3, <1>6 DEF CallModel, Becomes, Runs, Active
<1>7. CASE ModelFails(r)
  <2>1. CASE run[r].attempt < MaxRetries
    BY <1>1, <1>3, <1>7, <2>1 DEF ModelFails, Becomes, Runs, Active
  <2>2. CASE ~(run[r].attempt < MaxRetries)
    BY <1>7, <2>2, FailureDrops DEF ModelFails
  <2> QED
    BY <2>1, <2>2
<1>8. CASE ModelFinishes(r)
  BY <1>1, <1>3, <1>8 DEF ModelFinishes, Becomes, Runs, Active
<1>9. CASE EndBatch(r)
  <2>1. run[r].pc = "writing" /\ UNCHANGED <<store, issued, ran, granted>>
    BY <1>9 DEF EndBatch
  <2>2. \E pc : Becomes(r, [run[r] EXCEPT !.pc = pc, !.response = << >>])
    BY <1>9 DEF EndBatch
  <2>3. Same /\ \A q \in Requests \ {r} : run'[q] = run[q]
    BY <1>1, <2>2 DEF Becomes, Runs
  <2>4. run'[r].pc \in {"pausing", "loop"}
    BY <1>9, EndBatchKeeps
  <2> QED
    BY <1>3, <2>1, <2>3, <2>4 DEF Active
<1>10. ASSUME NEW c \in Calls, ReadOnlySettles(r, c)
       PROVE  Moves(r, {}, {})
  <2>0. c \in ReadOnly
    BY <1>10 DEF ReadOnlySettles, CopiesAreSound, SoundCopy
  <2>1. \A d \in NeedsApproval : ran'[d] = ran[d]
    BY <1>1, <1>10, <2>0, Partition DEF ReadOnlySettles, Execute
  <2> QED
    BY <1>1, <1>3, <1>10, <2>1 DEF ReadOnlySettles, Becomes, Runs, Active
<1> QED
  BY <1>4, <1>5, <1>6, <1>7, <1>8, <1>9, <1>10

(* The batch of the model's answer is asked for.                           *)
LEMMA BatchMoves ==
  ASSUME TypeOK, CopiesAreSound, NEW r \in Requests, NEW batch \in Batches,
         ModelRequestsTools(r, batch)
  PROVE  Moves(r, Range(batch), {})
<1> DEFINE h == run[r].messages
           m == Assistant(batch)
           g == Append(h, m)
           x == [run[r] EXCEPT !.pc = "reading", !.attempt = 0,
                               !.messages = g, !.response = batch,
                               !.inFlight = Range(batch) \cap ReadOnly]
<1>1. /\ run[r] \in Runs /\ run \in [Requests -> Runs]
      /\ SoundCopy(run[r], issued) /\ run[r].pc = "llm"
  BY DEF TypeOK, CopiesAreSound, ModelRequestsTools
<1>2. /\ h \in Histories /\ WellFormed(h)
      /\ batch \in Seq(Calls) /\ Range(batch) \subseteq Calls \ issued
  BY <1>1, RunFields, BatchFacts DEF SoundCopy, SoundHistory, TypeOK
<1>3. m \in Messages /\ \A d \in Calls : m # ToolMessage(d, "REJECTED_BY_USER")
  BY <1>2 DEF Assistant, Messages, ToolMessage
<1>4. /\ g \in Histories /\ IsPrefix(h, g)
      /\ Requested(g) = Requested(h) \cup Range(batch) /\ Answered(g) = Answered(h)
  BY <1>2, <1>3, AppendAssistant, PrefixAppend
<1>5. \A d \in Calls : Rejects(g, d) => Rejects(h, d)
  BY <1>2, <1>3, AppendRejects
<1>6. /\ run'[r] = x /\ \A q \in Requests \ {r} : run'[q] = run[q]
      /\ issued' = issued \cup Range(batch) /\ UNCHANGED <<store, ran, granted>>
  BY DEF ModelRequestsTools, Becomes, TypeOK
<1> HIDE DEF g, m
<1>7. /\ x.pc = "reading" /\ x.messages = g
      /\ x.conv = run[r].conv /\ x.kind = run[r].kind
  BY <1>1 DEF Runs
<1> HIDE DEF x
<1>8. NeedsApproval \subseteq Calls
  BY Partition
<1> QED
  BY <1>1, <1>2, <1>4, <1>5, <1>6, <1>7, <1>8 DEF Moves, Active

(* The next call of a for loop is answered.                                *)
LEMMA AnswerMoves ==
  ASSUME TypeOK, CopiesAreSound, NEW r \in Requests, NEW c \in Calls,
         ResolveNext(r, c) \/ ExecuteMutating(r, c)
  PROVE  Moves(r, {}, {c})
<1> DEFINE h == run[r].messages
<1>1. /\ run[r] \in Runs /\ SoundCopy(run[r], issued)
      /\ ran \in [Calls -> Nat] /\ NeedsApproval \subseteq Calls
  BY Partition DEF TypeOK, CopiesAreSound
<1>2. PICK content \in {"result", "REJECTED_BY_USER"} :
         /\ run[r].pc \in {"resolving", "writing"} /\ c \in run[r].todo
         /\ UNCHANGED <<store, issued, granted>>
         /\ Answer(r, c, content)
         /\ \A d \in Calls \ {c} : ran'[d] = ran[d]
         /\ content = "REJECTED_BY_USER" => ran' = ran
         /\ content = "result" => ran'[c] = ran[c] + 1
         /\ run[r].pc = "resolving" => (content = "result" => c \in run[r].approved)
         /\ run[r].pc = "writing" => content = "result"
  <2>1. CASE ResolveNext(r, c) /\ c \in run[r].approved
    BY <2>1, ExecuteType DEF ResolveNext, IsNext
  <2>2. CASE ResolveNext(r, c) /\ c \notin run[r].approved
    BY <2>2 DEF ResolveNext, IsNext
  <2>3. CASE ExecuteMutating(r, c)
    BY <2>3, ExecuteType DEF ExecuteMutating, IsNext
  <2> QED
    BY <2>1, <2>2, <2>3
<1>3. /\ h \in Histories /\ WellFormed(h) /\ c \in Pending(h)
      /\ run[r].pc = "writing" => c \in Mutating
  BY <1>1, <1>2, RunFields DEF SoundCopy, SoundHistory
<1> DEFINE m == ToolMessage(c, content)
           g == Append(h, m)
           y == AfterAnswer(run[r], c, content)
<1>4. m \in Messages
  BY DEF ToolMessage, Messages
<1>5. /\ g \in Histories /\ IsPrefix(h, g)
      /\ Requested(g) = Requested(h) /\ Answered(g) = Answered(h) \cup {c}
  BY <1>3, <1>4, AppendAnswer, PrefixAppend
<1>6. \A d \in Calls :
         Rejects(g, d) => Rejects(h, d) \/ (d = c /\ content = "REJECTED_BY_USER")
  BY <1>3, <1>4, AppendRejects DEF ToolMessage
<1>7. /\ y.pc = run[r].pc /\ y.todo = run[r].todo \ {c} /\ y.messages = g
      /\ y.conv = run[r].conv /\ y.kind = run[r].kind
  BY <1>1 DEF AfterAnswer, Runs
<1>8. run'[r] = y /\ \A q \in Requests \ {r} : run'[q] = run[q]
  BY <1>2 DEF Answer, Becomes, TypeOK
<1> HIDE DEF g, m, y
<1>9. \A d \in NeedsApproval :
         /\ Rejects(g, d) => Rejects(h, d) \/ (d = c /\ ran'[d] = ran[d])
         /\ \/ ran'[d] = ran[d]
            \/ /\ ran'[d] = ran[d] + 1 /\ d = c
               /\ run[r].pc = "resolving" /\ d \in run[r].todo \cap run[r].approved
  BY <1>1, <1>2, <1>3, <1>6, Partition
<1>10. /\ {c} \subseteq Pending(h)
       /\ run[r].pc # "resolving" => {c} \cap NeedsApproval = {}
  BY <1>2, <1>3, Partition
<1>11. Active(r) /\ Active(r)'
  BY <1>2, <1>7, <1>8 DEF Active
<1> QED
  BY <1>2, <1>5, <1>7, <1>8, <1>9, <1>10, <1>11 DEF Moves

(* The results of the read-only calls are recorded.                        *)
LEMMA RecordMoves ==
  ASSUME TypeOK, CopiesAreSound, NEW r \in Requests, RecordReadOnly(r)
  PROVE  Moves(r, {}, Range(run[r].response) \cap ReadOnly)
<1> DEFINE h == run[r].messages
           S == Range(run[r].response) \cap ReadOnly
<1>1. /\ run[r] \in Runs /\ SoundCopy(run[r], issued) /\ run[r].pc = "reading"
      /\ UNCHANGED <<store, issued, ran, granted>>
  BY DEF TypeOK, CopiesAreSound, RecordReadOnly
<1>2. h \in Histories /\ WellFormed(h) /\ Range(run[r].response) \subseteq Pending(h)
  BY <1>1, RunFields DEF SoundCopy, SoundHistory
<1>3. S \in SUBSET Pending(h) /\ Cardinality(S) \in Nat /\ S \subseteq Calls
  BY <1>2, CallsAssumption, Partition, FS_Subset, FS_CardinalityType
<1>4. PICK s \in Bijection(1..Cardinality(S), S) : \E todo :
         Becomes(r, [run[r] EXCEPT
                       !.pc = "writing",
                       !.messages = @ \o [i \in DOMAIN s |-> ToolMessage(s[i], "result")],
                       !.todo = todo])
  BY DEF RecordReadOnly, InOrder
<1> DEFINE g == h \o [i \in DOMAIN s |-> ToolMessage(s[i], "result")]
<1>5. /\ g \in Histories /\ WellFormed(g)
      /\ Answered(g) = Answered(h) \cup S /\ Requested(g) = Requested(h)
  <2> DEFINE n == Cardinality(S)
  <2>1. S \in SUBSET Pending(h) /\ n \in Nat /\ s \in Bijection(1..n, S)
    BY <1>3
  <2>2. h \in Histories /\ WellFormed(h)
    BY <1>2
  <2> HIDE DEF S, h, n
  <2> QED
    BY <2>1, <2>2, AppendResults
<1> DEFINE t == [i \in DOMAIN s |-> ToolMessage(s[i], "result")]
<1>6. /\ t \in Histories
      /\ \A i \in DOMAIN t : \A d \in Calls : t[i] # ToolMessage(d, "REJECTED_BY_USER")
  <2> DEFINE n == Cardinality(S)
  <2>1. n \in Nat /\ s \in [1..n -> S] /\ DOMAIN s = 1..n
    BY <1>3 DEF Bijection, Injection
  <2> HIDE DEF n
  <2>2. \A i \in 1..n : ToolMessage(s[i], "result") \in Messages
    BY <1>3, <2>1 DEF ToolMessage, Messages
  <2> QED
    BY <2>1, <2>2 DEF Histories, ToolMessage
<1>7. IsPrefix(h, g)
  BY <1>2, <1>6, PrefixConcat
<1>8. ASSUME NEW d \in Calls, Rejects(g, d) PROVE Rejects(h, d)
  <2>1. PICK i \in DOMAIN g : g[i] = ToolMessage(d, "REJECTED_BY_USER")
    BY <1>8 DEF Rejects
  <2>2. \/ i \in DOMAIN h /\ g[i] = h[i]
        \/ \E k \in DOMAIN t : g[i] = t[k]
    BY <1>2, <1>6, Concatenation
  <2> QED
    BY <1>6, <2>1, <2>2 DEF Rejects
<1>9. /\ \E todo : run'[r] = [run[r] EXCEPT !.pc = "writing", !.messages = g, !.todo = todo]
      /\ \A q \in Requests \ {r} : run'[q] = run[q]
  BY <1>4 DEF Becomes, TypeOK
<1> HIDE DEF g, t
<1>10. /\ run'[r].pc = "writing" /\ run'[r].messages = g
       /\ run'[r].conv = run[r].conv /\ run'[r].kind = run[r].kind
  BY <1>1, <1>9 DEF Runs
<1>11. S \cap NeedsApproval = {} /\ NeedsApproval \subseteq Calls
  BY Partition
<1> HIDE DEF S
<1>12. Moves(r, {}, S)
  BY <1>1, <1>3, <1>5, <1>7, <1>8, <1>9, <1>10, <1>11 DEF Moves, Active
<1> QED
  BY <1>12 DEF S

(* A request that arrives is refused, or its handler starts on a row.      *)
LEMMA ArriveKinds ==
  ASSUME TypeOK, CopiesAreSound, NEW r \in Requests, Arrive(r)
  PROVE  Drops \/ \E c \in Conversations : Starts(r, c)
<1>1. CASE NotFound(r)
  BY <1>1, FailureDrops DEF NotFound
<1>2. ASSUME NEW c \in Conversations,
             ChatExisting(r, c) \/ \E h \in ClientHistories : ChatNew(r, c, h)
      PROVE  Starts(r, c)
  BY <1>2, ChatStarts
<1>3. ASSUME NEW c \in Conversations, NEW n \in 1..MaxDecisions,
             NEW decisions \in [1..n -> Decisions], ApproveRefused(r, c, decisions)
      PROVE  Drops
  BY <1>3, FailureDrops DEF ApproveRefused
<1>4. ASSUME NEW c \in Conversations, NEW n \in 1..MaxDecisions,
             NEW decisions \in [1..n -> Decisions], ApproveAccepted(r, c, decisions)
      PROVE  Starts(r, c)
  BY <1>4, ApproveStarts
<1> QED
  BY <1>1, <1>2, <1>3, <1>4 DEF Arrive

(* A handler fails, stores its copy, or goes on with it.                   *)
LEMMA HandlerKinds ==
  ASSUME TypeOK, CopiesAreSound, NEW r \in Requests, Step(r)
  PROVE  \/ Drops \/ Persist(r)
         \/ \E asked, answered \in SUBSET Calls : Moves(r, asked, answered)
<1>1. CASE PersistFails(r)
  BY <1>1, FailureDrops DEF PersistFails
<1>2. CASE RecordReadOnly(r)
  <2>1. Range(run[r].response) \cap ReadOnly \in SUBSET Calls
    BY Partition
  <2> QED
    BY <1>2, <2>1, RecordMoves
<1>3. ASSUME NEW batch \in Batches, ModelRequestsTools(r, batch)
      PROVE  \E asked, answered \in SUBSET Calls : Moves(r, asked, answered)
  <2>1. Range(batch) \in SUBSET Calls
    BY BatchFacts DEF TypeOK
  <2> QED
    BY <1>3, <2>1, BatchMoves
<1>4. ASSUME NEW c \in Calls, ResolveNext(r, c) \/ ExecuteMutating(r, c)
      PROVE  \E asked, answered \in SUBSET Calls : Moves(r, asked, answered)
  BY <1>4, AnswerMoves
<1>5. CASE \/ Resume(r) \/ StopEarly(r) \/ CallModel(r) \/ ModelFails(r)
           \/ ModelFinishes(r) \/ EndBatch(r)
           \/ \E c \in Calls : ReadOnlySettles(r, c)
  BY <1>5, LoopMoves
<1> QED
  BY <1>1, <1>2, <1>3, <1>4, <1>5 DEF Step

(* Every step is one of these, or stores a copy.                           *)
LEMMA StepKinds ==
  ASSUME TypeOK, CopiesAreSound, [Next]_vars
  PROVE  \/ Drops
         \/ \E r \in Requests :
               \/ Persist(r)
               \/ \E c \in Conversations : Starts(r, c)
               \/ \E asked, answered \in SUBSET Calls : Moves(r, asked, answered)
<1>1. CASE UNCHANGED vars
  BY <1>1 DEF vars, Drops
<1>2. CASE Crash
  BY <1>2, EndedRun DEF Crash, Drops
<1> QED
  BY <1>1, <1>2, ArriveKinds, HandlerKinds DEF Next, Quiet

-----------------------------------------------------------------------------
(* Copies extend their rows.                                               *)

(* What is stored, and that its handler is done.                           *)
LEMMA PersistFacts ==
  ASSUME TypeOK, CopiesAreSound, NEW r \in Requests, Persist(r)
  PROVE  /\ Active(r) /\ run[r].conv \in Conversations
         /\ run[r].pc \in {"pausing", "finishing"}
         /\ store'[run[r].conv].messages = run[r].messages
         /\ store'[run[r].conv].status = StatusOf(run[r].pc)
         /\ \A e \in Conversations \ {run[r].conv} : store'[e] = store[e]
         /\ run'[r].pc = "done" /\ \A q \in Requests \ {r} : run'[q] = run[q]
         /\ UNCHANGED <<issued, ran, granted>>
<1>1. run[r].pc \in {"pausing", "finishing"} /\ run[r].conv \in Conversations
  BY DEF Persist, CopiesAreSound, SoundCopy
<1>2. run'[r].pc = "done" /\ \A q \in Requests \ {r} : run'[q] = run[q]
  BY EndedRun DEF Persist, Becomes, TypeOK
<1>3. /\ store'[run[r].conv].messages = run[r].messages
      /\ store'[run[r].conv].status = StatusOf(run[r].pc)
      /\ \A e \in Conversations \ {run[r].conv} : store'[e] = store[e]
      /\ UNCHANGED <<issued, ran, granted>>
  BY <1>1 DEF Persist, TypeOK
<1> QED
  BY <1>1, <1>2, <1>3 DEF Active

(* The histories in rows and copies.                                       *)
LEMMA HistoriesHeld ==
  ASSUME TypeOK, CopiesAreSound
  PROVE  /\ \A c \in Conversations :
               /\ store[c].messages \in Histories /\ WellFormed(store[c].messages)
               /\ Requested(store[c].messages) \subseteq issued
         /\ \A r \in Requests : Active(r) =>
               /\ run[r].conv \in Conversations
               /\ run[r].messages \in Histories /\ WellFormed(run[r].messages)
               /\ Requested(run[r].messages) \subseteq issued
BY RunFields DEF TypeOK, Rows, CopiesAreSound, SoundCopy, SoundHistory, Active

LEMMA EmptyPrefix ==
  ASSUME NEW h \in Histories
  PROVE  IsPrefix(<< >>, h)
<1>1. << >> \in Histories /\ Len(<< >>) = 0 /\ Len(h) \in Nat
  BY DEF Histories
<1> QED
  BY <1>1, PrefixIndex

LEMMA GrowthInit == Init => CopiesExtendRows
<1> SUFFICES ASSUME Init PROVE CopiesExtendRows
  OBVIOUS
<1>1. \A c \in Conversations : store[c].messages = << >>
  BY DEF Init, Absent
<1>2. \A r \in Requests : ~Active(r)
  BY StartRun DEF Init, Active
<1> QED
  BY <1>1, <1>2 DEF CopiesExtendRows

(* When requests for a conversation do not overlap, every step keeps       *)
(* copies ahead of their rows, and no row is rewritten.                    *)
LEMMA GrowthNext ==
  ASSUME ~Overlap, TypeOK, CopiesAreSound, CopiesExtendRows, [Next]_vars
  PROVE  /\ CopiesExtendRows'
         /\ \A c \in Conversations : IsPrefix(store[c].messages, store'[c].messages)
<1>1. /\ \A c \in Conversations :
            /\ store[c].messages \in Histories
            /\ IsPrefix(store[c].messages, store[c].messages)
            /\ ~Exists(c) => store[c].messages = << >>
      /\ \A r \in Requests : Active(r) =>
            /\ run[r].conv \in Conversations /\ run[r].messages \in Histories
            /\ Exists(run[r].conv)
            /\ IsPrefix(store[run[r].conv].messages, run[r].messages)
            /\ \A q \in Requests \ {r} : Active(q) => run[q].conv # run[r].conv
  BY HistoriesHeld, PrefixSelf DEF CopiesExtendRows
<1>2. CASE Drops
  <2>1. \A r \in Requests : Active(r)' => Active(r) /\ run'[r] = run[r]
    BY <1>2 DEF Drops, Active
  <2> QED
    BY <1>1, <1>2, <2>1 DEF CopiesExtendRows, Drops, Exists
<1>3. ASSUME NEW r \in Requests, NEW asked, NEW answered, Moves(r, asked, answered)
      PROVE  /\ CopiesExtendRows'
             /\ \A c \in Conversations : IsPrefix(store[c].messages, store'[c].messages)
  <2>1. /\ Active(r) /\ store' = store /\ run'[r].conv = run[r].conv
        /\ \A q \in Requests \ {r} : run'[q] = run[q]
        /\ run'[r].messages \in Histories /\ IsPrefix(run[r].messages, run'[r].messages)
    BY <1>3 DEF Moves
  <2>2. IsPrefix(store[run[r].conv].messages, run'[r].messages)
    BY <1>1, <2>1, PrefixTrans
  <2>3. \A q \in Requests : Active(q)' => Active(q) /\ run'[q].conv = run[q].conv
    BY <2>1 DEF Active
  <2> QED
    BY <1>1, <2>1, <2>2, <2>3 DEF CopiesExtendRows, Exists
<1>4. ASSUME NEW r \in Requests, NEW c \in Conversations, Starts(r, c)
      PROVE  /\ CopiesExtendRows'
             /\ \A e \in Conversations : IsPrefix(store[e].messages, store'[e].messages)
  <2>1. /\ ~Active(r) /\ run'[r].conv = c /\ IsPrefix(store'[c].messages, run'[r].messages)
        /\ \A q \in Requests \ {r} : run'[q] = run[q]
        /\ \A e \in Conversations \ {c} : store'[e] = store[e]
        /\ \/ store' = store /\ Admitted(r, c)
           \/ ~Exists(c) /\ store'[c].status = "ACTIVE"
        /\ store'[c].messages \in Histories
    BY <1>4 DEF Starts, Active
  <2>2. \A q \in Requests \ {r} : Active(q) => run[q].conv # c
    BY <1>1, <2>1 DEF Admitted
  <2>3. \A q \in Requests \ {r} : Active(q)' <=> Active(q)
    BY <2>1 DEF Active
  <2>4. store'[c].status # "NONE"
    BY <2>1 DEF Admitted, Exists
  <2>5. IsPrefix(store[c].messages, store'[c].messages)
    BY <1>1, <2>1, EmptyPrefix
  <2> QED
    BY <1>1, <2>1, <2>2, <2>3, <2>4, <2>5 DEF CopiesExtendRows, Exists
<1>5. ASSUME NEW r \in Requests, Persist(r)
      PROVE  /\ CopiesExtendRows'
             /\ \A e \in Conversations : IsPrefix(store[e].messages, store'[e].messages)
  <2> DEFINE c == run[r].conv
  <2>1. /\ Active(r) /\ c \in Conversations /\ ~Active(r)'
        /\ store'[c].messages = run[r].messages /\ store'[c].status # "NONE"
        /\ \A e \in Conversations \ {c} : store'[e] = store[e]
        /\ \A q \in Requests \ {r} : run'[q] = run[q]
    BY <1>5, PersistFacts DEF Active, StatusOf
  <2>2. \A q \in Requests \ {r} : Active(q)' => Active(q) /\ run[q].conv # c
    BY <1>1, <2>1 DEF Active
  <2> HIDE DEF c
  <2> QED
    BY <1>1, <2>1, <2>2 DEF CopiesExtendRows, Exists, c
<1> QED
  BY <1>2, <1>3, <1>4, <1>5, StepKinds

(* A stored history is never rewritten (updateMessages), when a client     *)
(* waits for its answers.                                                  *)
THEOREM HistoryGrows ==
  ASSUME ~Overlap
  PROVE  Spec => HistoryOnlyGrows
<1>1. Inv => TypeOK /\ CopiesAreSound
  BY DEF Inv
<1>2. CopiesExtendRows /\ Inv /\ [Next]_vars =>
         /\ CopiesExtendRows'
         /\ [\A c \in Conversations : IsPrefix(store[c].messages, store'[c].messages)]_vars
  BY <1>1, GrowthNext
<1> QED
  BY <1>2, GrowthInit, Invariance, PTL DEF Spec, HistoryOnlyGrows

-----------------------------------------------------------------------------
(* A call belongs to one conversation.                                     *)

(* What a conversation holds grows only by what its model asks for.        *)
LEMMA HoldsNext ==
  ASSUME TypeOK, CopiesAreSound, [Next]_vars
  PROVE  \E home \in Conversations \cup {"none"}, asked \in SUBSET Calls :
            /\ asked \cap issued = {}
            /\ \A c \in Conversations :
                  Holds(c)' \subseteq Holds(c) \cup (IF c = home THEN asked ELSE {})
<1> DEFINE Grows(home, asked) ==
             /\ asked \cap issued = {}
             /\ \A c \in Conversations :
                   Holds(c)' \subseteq Holds(c) \cup (IF c = home THEN asked ELSE {})
<1> SUFFICES \E home \in Conversations \cup {"none"}, asked \in SUBSET Calls :
                Grows(home, asked)
  OBVIOUS
<1>0. ASSUME \A c \in Conversations : Holds(c)' \subseteq Holds(c)
      PROVE  Grows("none", {})
  BY <1>0
<1>1. CASE Drops
  <2>1. store' = store /\ \A q \in Requests : Active(q)' => Active(q) /\ run'[q] = run[q]
    BY <1>1 DEF Drops, Active
  <2>2. \A c \in Conversations : Holds(c)' \subseteq Holds(c)
    BY <2>1 DEF Holds
  <2>3. Grows("none", {})
    BY <1>0, <2>2
  <2> HIDE DEF Grows
  <2> QED
    BY <2>3
<1>2. ASSUME NEW r \in Requests, NEW asked \in SUBSET Calls, NEW answered,
             Moves(r, asked, answered)
      PROVE  run[r].conv \in Conversations /\ Grows(run[r].conv, asked)
  <2>1. /\ Active(r) /\ store' = store /\ run'[r].conv = run[r].conv
        /\ \A q \in Requests \ {r} : run'[q] = run[q]
        /\ Requested(run'[r].messages) = Requested(run[r].messages) \cup asked
        /\ asked \cap issued = {}
    BY <1>2 DEF Moves
  <2>2. \A q \in Requests \ {r} : Active(q)' <=> Active(q)
    BY <2>1 DEF Active
  <2>3. run[r].conv \in Conversations
    BY <2>1, HistoriesHeld
  <2>4. ASSUME NEW c \in Conversations, NEW d \in Holds(c)', d \notin Holds(c)
        PROVE  c = run[r].conv /\ d \in asked
    <3>1. \/ d \in Requested(store[c].messages)
          \/ \E q \in Requests : /\ Active(q)' /\ run'[q].conv = c
                                 /\ d \in Requested(run'[q].messages)
      BY <2>1, <2>4 DEF Holds
    <3>2. /\ d \notin Requested(store[c].messages)
          /\ \A q \in Requests : Active(q) /\ run[q].conv = c =>
                d \notin Requested(run[q].messages)
      BY <2>4 DEF Holds
    <3> QED
      BY <2>1, <2>2, <3>1, <3>2
  <2> QED
    BY <2>1, <2>3, <2>4
<1>3. ASSUME NEW r \in Requests, NEW c \in Conversations, Starts(r, c)
      PROVE  \A e \in Conversations : Holds(e)' \subseteq Holds(e)
  <2>1. /\ run'[r].conv = c /\ \A q \in Requests \ {r} : run'[q] = run[q]
        /\ \A e \in Conversations \ {c} : store'[e] = store[e]
        /\ store' = store \/ Requested(store'[c].messages) = {}
        /\ Requested(run'[r].messages) = Requested(store'[c].messages)
    BY <1>3 DEF Starts
  <2>2. \A e \in Conversations :
           Requested(store'[e].messages) \subseteq Requested(store[e].messages)
    BY <2>1
  <2>3. \A q \in Requests \ {r} : Active(q)' <=> Active(q)
    BY <2>1 DEF Active
  <2>4. ASSUME NEW e \in Conversations, NEW d \in Holds(e)'
        PROVE  d \in Holds(e)
    <3>1. \/ d \in Requested(store'[e].messages)
          \/ \E q \in Requests : /\ Active(q)' /\ run'[q].conv = e
                                 /\ d \in Requested(run'[q].messages)
      BY <2>4 DEF Holds
    <3>2. \/ d \in Requested(store'[e].messages)
          \/ \E q \in Requests : /\ Active(q) /\ run[q].conv = e
                                 /\ d \in Requested(run[q].messages)
      BY <2>1, <2>3, <3>1
    <3> QED
      BY <2>2, <3>2 DEF Holds
  <2> QED
    BY <2>4
<1>4. ASSUME NEW r \in Requests, Persist(r)
      PROVE  \A e \in Conversations : Holds(e)' \subseteq Holds(e)
  <2>1. /\ Active(r) /\ ~Active(r)'
        /\ store'[run[r].conv].messages = run[r].messages
        /\ \A e \in Conversations \ {run[r].conv} : store'[e] = store[e]
        /\ \A q \in Requests \ {r} : run'[q] = run[q]
    BY <1>4, PersistFacts DEF Active
  <2>2. ASSUME NEW e \in Conversations, NEW d \in Holds(e)'
        PROVE  d \in Holds(e)
    <3>1. \/ d \in Requested(store'[e].messages)
          \/ \E q \in Requests : /\ Active(q)' /\ run'[q].conv = e
                                 /\ d \in Requested(run'[q].messages)
      BY <2>2 DEF Holds
    <3>2. CASE d \in Requested(store'[e].messages)
      BY <2>1, <3>2 DEF Holds
    <3>3. ASSUME NEW q \in Requests, Active(q)', run'[q].conv = e,
                 d \in Requested(run'[q].messages)
          PROVE  d \in Holds(e)
      BY <2>1, <3>3 DEF Holds, Active
    <3> QED
      BY <3>1, <3>2, <3>3
  <2> QED
    BY <2>2
<1>5. ASSUME NEW r \in Requests,
             Persist(r) \/ \E c \in Conversations : Starts(r, c)
      PROVE  Grows("none", {})
  BY <1>0, <1>3, <1>4, <1>5
<1> HIDE DEF Grows
<1>6. ASSUME NEW r \in Requests,
             \E asked, answered \in SUBSET Calls : Moves(r, asked, answered)
      PROVE  \E home \in Conversations, asked \in SUBSET Calls : Grows(home, asked)
  BY <1>2, <1>6
<1> QED
  BY <1>1, <1>5, <1>6, StepKinds

LEMMA HomeNext ==
  ASSUME TypeOK, CopiesAreSound, CallsHaveAHome, [Next]_vars
  PROVE  CallsHaveAHome'
<1>1. PICK home \in Conversations \cup {"none"}, asked \in SUBSET Calls :
         /\ asked \cap issued = {}
         /\ \A c \in Conversations :
               Holds(c)' \subseteq Holds(c) \cup (IF c = home THEN asked ELSE {})
  BY HoldsNext
<1>2. \A c \in Conversations : Holds(c) \subseteq issued
  BY HistoriesHeld DEF Holds
<1>3. ASSUME NEW c \in Conversations, NEW e \in Conversations, c # e
      PROVE  Holds(c)' \cap Holds(e)' = {}
  <2>1. Holds(c) \cap Holds(e) = {}
    BY <1>3 DEF CallsHaveAHome
  <2>2. \/ c # home /\ Holds(c)' \subseteq Holds(c)
        \/ e # home /\ Holds(e)' \subseteq Holds(e)
    BY <1>1, <1>3
  <2> QED
    BY <1>1, <1>2, <2>1, <2>2
<1> QED
  BY <1>3 DEF CallsHaveAHome

LEMMA HomeInit == Init => CallsHaveAHome
<1> SUFFICES ASSUME Init PROVE CallsHaveAHome
  OBVIOUS
<1>1. \A c \in Conversations : Requested(store[c].messages) = {}
  BY EmptyHistory DEF Init, Absent
<1>2. \A r \in Requests : ~Active(r)
  BY StartRun DEF Init, Active
<1> QED
  BY <1>1, <1>2 DEF CallsHaveAHome, Holds

-----------------------------------------------------------------------------
(* Decisions are final.                                                    *)

(* A handler that fails is not one that spoils the call.                   *)
LEMMA DecidedDrops ==
  ASSUME TypeOK, Drops, NEW d \in NeedsApproval, Unspoilt(d)',
         Unspoilt(d) => DecidedOnce(d)
  PROVE  DecidedOnce(d)'
<1>1. /\ UNCHANGED <<store, ran, granted>>
      /\ \A q \in Requests : run'[q] = run[q] \/ run'[q].pc = "failed"
      /\ \A q \in Requests : Active(q)' => Active(q) /\ run'[q] = run[q]
  BY DEF Drops, Active
<1>2. \A r \in granted[d] : r \in Requests /\ run'[r] = run[r]
  BY <1>1, Partition DEF Unspoilt, TypeOK
<1>3. Unspoilt(d)
  BY <1>1, <1>2 DEF Unspoilt
<1>4. DecidedOnce(d)
  BY <1>3
<1>5. \A r \in granted[d] : Active(r) => Active(r)'
  BY <1>2 DEF Active
<1> QED
  BY <1>1, <1>2, <1>4, <1>5 DEF DecidedOnce

(* A step within a copy: the call runs only when it is open there, and is  *)
(* then answered in that copy alone.                                       *)
LEMMA DecidedMoves ==
  ASSUME TypeOK, CopiesAreSound, RunsAreAccounted, CopiesExtendRows, CallsHaveAHome,
         NEW r \in Requests, NEW asked, NEW answered, Moves(r, asked, answered),
         NEW d \in NeedsApproval, d \notin issued => ran[d] = 0,
         Unspoilt(d)', Unspoilt(d) => DecidedOnce(d)
  PROVE  DecidedOnce(d)'
<1> DEFINE h == run[r].messages
           g == run'[r].messages
           home == run[r].conv
<1>1. /\ Active(r) /\ Active(r)' /\ UNCHANGED <<store, granted>>
      /\ \A q \in Requests \ {r} : run'[q] = run[q]
      /\ run'[r].conv = home
      /\ Requested(g) = Requested(h) \cup asked /\ asked \cap issued = {}
      /\ Answered(g) = Answered(h) \cup answered /\ answered \subseteq Pending(h)
      /\ Rejects(g, d) => Rejects(h, d) \/ (d \in answered /\ ran'[d] = ran[d])
      /\ \/ ran'[d] = ran[d]
         \/ /\ ran'[d] = ran[d] + 1 /\ d \in answered
            /\ run[r].pc = "resolving" /\ d \in run[r].todo \cap run[r].approved
  BY DEF Moves
<1>2. \A q \in Requests \ {r} : Active(q)' <=> Active(q)
  BY <1>1 DEF Active
<1>3. /\ home \in Conversations /\ h \in Histories /\ WellFormed(h)
      /\ d \in Calls /\ ran[d] \in Nat /\ granted[d] \subseteq Requests
  BY <1>1, HistoriesHeld, Partition DEF TypeOK
<1>4. Unspoilt(d)
  BY <1>1, <1>3 DEF Unspoilt, Active
<1>5. /\ ran[d] <= 1
      /\ \A c \in Conversations : d \in Pending(store[c].messages) /\ ran[d] # 0 =>
            \E q \in granted[d] : /\ Active(q) /\ run[q].conv = c
                                  /\ d \in Answered(run[q].messages)
      /\ \A c \in Conversations : Rejects(store[c].messages, d) => ran[d] = 0
      /\ \A q \in Requests : Active(q) =>
            (d \in Pending(run[q].messages) \/ Rejects(run[q].messages, d) => ran[d] = 0)
  BY <1>4 DEF DecidedOnce
<1> HIDE DEF h, g, home
<1>6. CASE ran'[d] = ran[d]
  <2>1. d \in Pending(g) => ran[d] = 0
    BY <1>1, <1>5 DEF Pending, h
  <2>2. Rejects(g, d) => ran[d] = 0
    BY <1>1, <1>5 DEF h
  <2>3. ASSUME NEW c \in Conversations, d \in Pending(store[c].messages), ran[d] # 0
        PROVE  \E q \in granted[d] : /\ Active(q)' /\ run'[q].conv = c
                                     /\ d \in Answered(run'[q].messages)
    <3>1. PICK q \in granted[d] : /\ Active(q) /\ run[q].conv = c
                                  /\ d \in Answered(run[q].messages)
      BY <1>5, <2>3
    <3>2. CASE q = r
      BY <1>1, <3>1, <3>2 DEF h, g, home
    <3>3. CASE q # r
      BY <1>1, <1>2, <1>3, <3>1, <3>3
    <3> QED
      BY <3>2, <3>3
  <2>4. \A q \in Requests : Active(q)' =>
           (d \in Pending(run'[q].messages) \/ Rejects(run'[q].messages, d) => ran'[d] = 0)
    BY <1>1, <1>2, <1>5, <1>6, <2>1, <2>2 DEF g
  <2> QED
    BY <1>1, <1>5, <1>6, <2>3, <2>4 DEF DecidedOnce
<1>7. CASE ran'[d] = ran[d] + 1 /\ d \in answered /\ run[r].pc = "resolving"
           /\ d \in run[r].todo \cap run[r].approved
  <2>1. d \in Pending(h) /\ ran[d] = 0 /\ ran'[d] = 1
    BY <1>1, <1>3, <1>5, <1>7 DEF h
  <2>2. r \in granted[d]
    BY <1>7 DEF RunsAreAccounted, Unused
  <2>3. d \in Holds(home) /\ d \notin Answered(h)
    BY <1>1, <1>3, <2>1 DEF Holds, Pending, h, home
  <2>4. \A c \in Conversations : d \in Holds(c) => c = home
    BY <1>3, <2>3 DEF CallsHaveAHome
  <2>5. \A c \in Conversations : d \in Requested(store[c].messages) => c = home
    BY <2>4 DEF Holds
  <2>6. ASSUME NEW c \in Conversations PROVE ~Rejects(store[c].messages, d)
    <3>1. SUFFICES ASSUME Rejects(store[c].messages, d) PROVE FALSE
      OBVIOUS
    <3>2. store[c].messages \in Histories /\ WellFormed(store[c].messages)
      BY HistoriesHeld
    <3>3. d \in Answered(store[c].messages) /\ d \in Requested(store[c].messages)
      BY <1>3, <3>1, <3>2, RejectedIsAnswered
    <3>4. IsPrefix(store[c].messages, h)
      BY <1>1, <2>5, <3>3 DEF CopiesExtendRows, h, home
    <3>5. d \in Answered(h)
      BY <1>3, <3>2, <3>3, <3>4, PrefixKeeps
    <3> QED
      BY <2>3, <3>5
  <2>7. ASSUME NEW q \in Requests \ {r}, Active(q)
        PROVE  d \notin Pending(run[q].messages) /\ ~Rejects(run[q].messages, d)
    <3>1. /\ run[q].conv \in Conversations /\ run[q].conv # home
          /\ run[q].messages \in Histories /\ WellFormed(run[q].messages)
      BY <1>1, <2>7, HistoriesHeld DEF CopiesExtendRows, home
    <3>2. d \notin Requested(run[q].messages)
      BY <2>4, <2>7, <3>1 DEF Holds
    <3> QED
      BY <1>3, <3>1, <3>2, RejectedIsAnswered DEF Pending
  <2>8. d \notin Pending(g) /\ ~Rejects(g, d)
    <3>1. ~Rejects(h, d)
      BY <1>3, <2>3, RejectedIsAnswered
    <3> QED
      BY <1>1, <1>3, <1>7, <2>1, <3>1 DEF Pending
  <2>9. \A q \in Requests : Active(q)' =>
           d \notin Pending(run'[q].messages) /\ ~Rejects(run'[q].messages, d)
    BY <1>1, <1>2, <2>7, <2>8 DEF g
  <2>10. ASSUME NEW c \in Conversations, d \in Pending(store[c].messages)
         PROVE  /\ r \in granted'[d] /\ Active(r)' /\ run'[r].conv = c
                /\ d \in Answered(run'[r].messages)
    BY <1>1, <1>7, <2>2, <2>5, <2>10 DEF Pending, g
  <2>11. \A c \in Conversations : d \in Pending(store'[c].messages) =>
            \E q \in granted'[d] : /\ Active(q)' /\ run'[q].conv = c
                                   /\ d \in Answered(run'[q].messages)
    BY <1>1, <2>10
  <2> QED
    BY <1>1, <2>1, <2>6, <2>9, <2>11 DEF DecidedOnce
<1> QED
  BY <1>1, <1>6, <1>7

(* A handler starts from a row that no copy is ahead of.                   *)
LEMMA DecidedStarts ==
  ASSUME ~Overlap, TypeOK, CopiesAreSound,
         NEW r \in Requests, NEW c \in Conversations, Starts(r, c),
         NEW d \in NeedsApproval, Unspoilt(d)', Unspoilt(d) => DecidedOnce(d)
  PROVE  DecidedOnce(d)'
<1> DEFINE h == store'[c].messages
           g == run'[r].messages
<1>1. /\ run[r].pc = "idle" /\ run'[r].conv = c
      /\ \A q \in Requests \ {r} : run'[q] = run[q]
      /\ \A e \in Conversations \ {c} : store'[e] = store[e]
      /\ (store' = store /\ Admitted(r, c)) \/ Requested(h) = {}
      /\ ran' = ran /\ d \in Calls /\ granted[d] \subseteq granted'[d]
      /\ h \in Histories /\ WellFormed(h)
      /\ Requested(g) = Requested(h) /\ Answered(g) = Answered(h)
      /\ Rejects(g, d) => Rejects(h, d)
  BY Partition DEF Starts
<1>2. ~Active(r) /\ \A q \in Requests \ {r} : Active(q)' <=> Active(q)
  BY <1>1 DEF Active
<1>3. granted[d] \subseteq Requests
  BY <1>1 DEF TypeOK
<1>4. Unspoilt(d)
  BY <1>1, <1>3 DEF Unspoilt
<1>5. /\ ran[d] <= 1
      /\ \A e \in Conversations : d \in Pending(store[e].messages) /\ ran[d] # 0 =>
            \E q \in granted[d] : /\ Active(q) /\ run[q].conv = e
                                  /\ d \in Answered(run[q].messages)
      /\ \A e \in Conversations : Rejects(store[e].messages, d) => ran[d] = 0
      /\ \A q \in Requests : Active(q) =>
            (d \in Pending(run[q].messages) \/ Rejects(run[q].messages, d) => ran[d] = 0)
  BY <1>4 DEF DecidedOnce
<1> HIDE DEF h, g
<1>6. Requested(h) = {} => d \notin Pending(h) /\ ~Rejects(h, d)
  BY <1>1, RejectedIsAnswered DEF Pending
<1>7. Rejects(h, d) => ran[d] = 0
  BY <1>1, <1>5, <1>6 DEF h
<1>8. d \in Pending(h) => ran[d] = 0
  <2>1. CASE Requested(h) = {}
    BY <1>6, <2>1
  <2>2. CASE store' = store /\ Admitted(r, c)
    <3>1. \A q \in granted[d] : Active(q) => run[q].conv # c
      BY <1>3, <2>2 DEF Admitted
    <3> QED
      BY <1>5, <2>2, <3>1 DEF h
  <2> QED
    BY <1>1, <2>1, <2>2
<1>9. ASSUME NEW e \in Conversations, d \in Pending(store'[e].messages), ran[d] # 0
      PROVE  \E q \in granted'[d] : /\ Active(q)' /\ run'[q].conv = e
                                    /\ d \in Answered(run'[q].messages)
  <2>1. e # c /\ d \in Pending(store[e].messages)
    BY <1>1, <1>8, <1>9 DEF h
  <2>2. PICK q \in granted[d] : /\ Active(q) /\ run[q].conv = e
                                /\ d \in Answered(run[q].messages)
    BY <1>5, <1>9, <2>1
  <2> QED
    BY <1>1, <1>2, <1>3, <2>2
<1>10. \A e \in Conversations : Rejects(store'[e].messages, d) => ran[d] = 0
  BY <1>1, <1>5, <1>7 DEF h
<1>11. d \in Pending(g) \/ Rejects(g, d) => ran[d] = 0
  BY <1>1, <1>7, <1>8 DEF Pending
<1>12. \A q \in Requests : Active(q)' =>
          (d \in Pending(run'[q].messages) \/ Rejects(run'[q].messages, d) => ran[d] = 0)
  BY <1>1, <1>2, <1>5, <1>11 DEF g
<1> QED
  BY <1>1, <1>5, <1>9, <1>10, <1>12 DEF DecidedOnce

(* The row becomes the copy.                                               *)
LEMMA DecidedPersist ==
  ASSUME TypeOK, CopiesAreSound, NEW r \in Requests, Persist(r),
         NEW d \in NeedsApproval, Unspoilt(d)', Unspoilt(d) => DecidedOnce(d)
  PROVE  DecidedOnce(d)'
<1> DEFINE c == run[r].conv
<1>1. /\ Active(r) /\ ~Active(r)' /\ c \in Conversations
      /\ store'[c].messages = run[r].messages
      /\ \A e \in Conversations \ {c} : store'[e] = store[e]
      /\ \A q \in Requests \ {r} : run'[q] = run[q]
      /\ UNCHANGED <<ran, granted>>
      /\ d \in Calls /\ granted[d] \subseteq Requests
  BY PersistFacts, Partition DEF Active, TypeOK
<1>2. \A q \in Requests \ {r} : Active(q)' <=> Active(q)
  BY <1>1 DEF Active
<1>3. Unspoilt(d)
  BY <1>1 DEF Unspoilt, Active
<1>4. /\ ran[d] <= 1
      /\ \A e \in Conversations : d \in Pending(store[e].messages) /\ ran[d] # 0 =>
            \E q \in granted[d] : /\ Active(q) /\ run[q].conv = e
                                  /\ d \in Answered(run[q].messages)
      /\ \A e \in Conversations : Rejects(store[e].messages, d) => ran[d] = 0
      /\ \A q \in Requests : Active(q) =>
            (d \in Pending(run[q].messages) \/ Rejects(run[q].messages, d) => ran[d] = 0)
  BY <1>3 DEF DecidedOnce
<1>5. ASSUME NEW e \in Conversations, d \in Pending(store'[e].messages), ran[d] # 0
      PROVE  \E q \in granted[d] : /\ Active(q)' /\ run'[q].conv = e
                                   /\ d \in Answered(run'[q].messages)
  <2>1. e # c /\ d \in Pending(store[e].messages)
    BY <1>1, <1>4, <1>5
  <2>2. PICK q \in granted[d] : /\ Active(q) /\ run[q].conv = e
                                /\ d \in Answered(run[q].messages)
    BY <1>4, <1>5, <2>1
  <2> QED
    BY <1>1, <1>2, <2>1, <2>2
<1>6. \A e \in Conversations : Rejects(store'[e].messages, d) => ran[d] = 0
  BY <1>1, <1>4
<1>7. \A q \in Requests : Active(q)' =>
         (d \in Pending(run'[q].messages) \/ Rejects(run'[q].messages, d) => ran[d] = 0)
  BY <1>1, <1>2, <1>4
<1> QED
  BY <1>1, <1>4, <1>5, <1>6, <1>7 DEF DecidedOnce

LEMMA SerialInit == Init => SerialInv /\ CopiesFollowRows
<1> SUFFICES ASSUME Init PROVE SerialInv /\ CopiesFollowRows
  OBVIOUS
<1>1. Inv
  BY CopiesInit, AccountedInit, BackedInit DEF Inv
<1>2. /\ \A c \in Conversations : store[c].messages = << >>
      /\ \A r \in Requests : ~Active(r)
      /\ \A d \in Calls : ran[d] = 0
  BY StartRun DEF Init, Absent, Active
<1>3. \A d \in NeedsApproval : d \in Calls /\ DecidedOnce(d)
  BY <1>2, EmptyHistory, Partition DEF DecidedOnce, Rejects
<1> QED
  BY <1>1, <1>2, <1>3, GrowthInit, HomeInit DEF SerialInv, CopiesFollowRows

LEMMA SerialNext ==
  ASSUME ~Overlap, SerialInv, Inv', [Next]_vars
  PROVE  SerialInv'
<1>1. /\ TypeOK /\ CopiesAreSound /\ RunsAreAccounted
      /\ CopiesExtendRows /\ CallsHaveAHome
  BY DEF SerialInv, Inv
<1>2. CopiesExtendRows' /\ CallsHaveAHome'
  BY <1>1, GrowthNext, HomeNext
<1>3. ASSUME NEW d \in NeedsApproval
      PROVE  (d \notin issued => ran[d] = 0)' /\ (Unspoilt(d) => DecidedOnce(d))'
  <2>1. (d \notin issued => ran[d] = 0) /\ (Unspoilt(d) => DecidedOnce(d))
    BY DEF SerialInv
  <2>2. CASE Drops
    BY <1>1, <2>1, <2>2, DecidedDrops DEF Drops
  <2>3. ASSUME NEW r \in Requests, NEW asked, NEW answered, Moves(r, asked, answered)
        PROVE  (d \notin issued => ran[d] = 0)' /\ (Unspoilt(d) => DecidedOnce(d))'
    <3>1. /\ Active(r) /\ issued' = issued \cup asked /\ answered \subseteq Pending(run[r].messages)
          /\ ran'[d] = ran[d] \/ d \in answered
      BY <2>3 DEF Moves
    <3>2. Pending(run[r].messages) \subseteq issued
      BY <1>1, <3>1, HistoriesHeld DEF Pending
    <3> QED
      BY <1>1, <2>1, <2>3, <3>1, <3>2, DecidedMoves
  <2>4. ASSUME NEW r \in Requests, NEW c \in Conversations, Starts(r, c)
        PROVE  (d \notin issued => ran[d] = 0)' /\ (Unspoilt(d) => DecidedOnce(d))'
    <3>1. UNCHANGED <<issued, ran>>
      BY <2>4 DEF Starts
    <3> QED
      BY <1>1, <2>1, <2>4, <3>1, DecidedStarts
  <2>5. ASSUME NEW r \in Requests, Persist(r)
        PROVE  (d \notin issued => ran[d] = 0)' /\ (Unspoilt(d) => DecidedOnce(d))'
    <3>1. UNCHANGED <<issued, ran>>
      BY <2>5 DEF Persist
    <3> QED
      BY <1>1, <2>1, <2>5, <3>1, DecidedPersist
  <2> QED
    BY <1>1, <2>2, <2>3, <2>4, <2>5, StepKinds
<1> QED
  BY <1>2, <1>3 DEF SerialInv

(* What holds in every state when a client waits for its answers.          *)
THEOREM SerialInvariance ==
  ASSUME ~Overlap
  PROVE  Spec => []SerialInv
<1>1. Init => SerialInv
  BY SerialInit
<1>2. SerialInv /\ Inv' /\ [Next]_vars => SerialInv'
  BY SerialNext
<1> QED
  BY <1>1, <1>2, Invariance, PTL DEF Spec

(* An approved call runs once and a rejected one never, as long as no      *)
(* request that approved it failed (approve's loop and its persist).       *)
THEOREM DecisionsFinal ==
  ASSUME ~Overlap
  PROVE  Spec => []DecisionsAreFinal
<1>1. SerialInv => DecisionsAreFinal
  BY DEF SerialInv, DecisionsAreFinal, Unspoilt, DecidedOnce, Rejects, Stored
<1> QED
  BY <1>1, SerialInvariance, PTL

-----------------------------------------------------------------------------
(* The rows implement the approval protocol.                               *)

LEMMA FollowMoves ==
  ASSUME TypeOK, CopiesAreSound, NEW r \in Requests, NEW asked, NEW answered,
         Moves(r, asked, answered), Follows(run[r], store[run[r].conv])
  PROVE  Follows(run'[r], store[run[r].conv])
<1> DEFINE h == run[r].messages
           g == run'[r].messages
           f == store[run[r].conv].messages
<1>1. /\ Answered(g) = Answered(h) \cup answered /\ answered \subseteq Pending(h)
      /\ run'[r].kind = run[r].kind
      /\ run[r].pc = "resolving" =>
            IF run'[r].pc = "resolving" THEN run'[r].todo = run[r].todo \ answered
            ELSE run[r].todo = {} /\ answered = {}
      /\ run[r].pc # "resolving" =>
            run'[r].pc # "resolving" /\ answered \cap NeedsApproval = {}
  BY DEF Moves
<1>2. run[r].pc = "resolving" => /\ run[r].todo = Pending(h)
                                 /\ Pending(h) \subseteq NeedsApproval
  BY DEF CopiesAreSound, SoundCopy
<1>3. CASE run[r].pc = "resolving" /\ run'[r].pc = "resolving"
  <2>1. /\ answered \subseteq run[r].todo /\ answered \subseteq NeedsApproval
        /\ run[r].kind = "approve" /\ run[r].todo \subseteq Pending(f)
        /\ run'[r].todo = run[r].todo \ answered
        /\ store[run[r].conv].status = "PAUSED"
    BY <1>1, <1>2, <1>3 DEF Follows
  <2>2. Answered(h) \cap NeedsApproval
           = (Answered(f) \cap NeedsApproval) \cup (Pending(f) \ run[r].todo)
    BY <1>3, <2>1 DEF Follows
  <2>3. Answered(g) \cap NeedsApproval
           = (Answered(f) \cap NeedsApproval) \cup (Pending(f) \ run'[r].todo)
    BY <1>1, <2>1, <2>2
  <2> QED
    BY <1>1, <1>3, <2>1, <2>3 DEF Follows
<1>4. CASE run[r].pc = "resolving" /\ run'[r].pc # "resolving"
  BY <1>1, <1>4 DEF Follows
<1>5. CASE run[r].pc # "resolving"
  <2>1. Answered(g) \cap NeedsApproval = Answered(h) \cap NeedsApproval
    BY <1>1, <1>5
  <2> QED
    BY <1>1, <1>5, <2>1 DEF Follows
<1> QED
  BY <1>3, <1>4, <1>5

(* A handler follows the row it starts from, unless it chats on a pause.   *)
LEMMA FollowStarts ==
  ASSUME NoOrphanedCalls, NEW r \in Requests, NEW c \in Conversations, Starts(r, c),
         run'[r].kind = "chat" => store'[c].status # "PAUSED"
  PROVE  Follows(run'[r], store'[c])
<1> DEFINE h == store'[c].messages
<1>1. /\ store' = store \/ Requested(h) = {}
      /\ Answered(run'[r].messages) = Answered(h)
      /\ \/ /\ run'[r].kind = "chat" /\ run'[r].pc # "resolving"
            /\ store'[c].status # "PAUSED"
         \/ /\ run'[r].kind = "approve" /\ run'[r].pc = "resolving"
            /\ run'[r].todo = Pending(h) /\ Pending(h) # {}
  BY DEF Starts
<1>2. Pending(h) # {} => store'[c].status = "PAUSED"
  BY <1>1 DEF NoOrphanedCalls, Pending
<1> HIDE DEF h
<1> QED
  BY <1>1, <1>2 DEF Follows, h

LEMMA FollowNext ==
  ASSUME ~Overlap, ~ChatOnPaused, TypeOK, CopiesAreSound,
         CopiesExtendRows, CopiesFollowRows, NoOrphanedCalls, [Next]_vars
  PROVE  CopiesFollowRows'
<1>1. \A r \in Requests : Active(r) =>
         /\ Follows(run[r], store[run[r].conv])
         /\ run[r].conv \in Conversations /\ Exists(run[r].conv)
         /\ \A q \in Requests \ {r} : Active(q) => run[q].conv # run[r].conv
  BY HistoriesHeld DEF CopiesExtendRows, CopiesFollowRows
<1>2. SUFFICES \A r \in Requests : Active(r)' => Follows(run'[r], store'[run'[r].conv])
  BY DEF CopiesFollowRows
<1>3. CASE Drops
  BY <1>1, <1>3 DEF Drops, Active
<1>4. ASSUME NEW r \in Requests, NEW asked, NEW answered, Moves(r, asked, answered)
      PROVE  \A q \in Requests : Active(q)' => Follows(run'[q], store'[run'[q].conv])
  <2>1. /\ Active(r) /\ store' = store /\ run'[r].conv = run[r].conv
        /\ \A q \in Requests \ {r} : run'[q] = run[q]
    BY <1>4 DEF Moves
  <2>2. Follows(run'[r], store[run[r].conv])
    BY <1>1, <1>4, <2>1, FollowMoves
  <2> QED
    BY <1>1, <2>1, <2>2 DEF Active
<1>5. ASSUME NEW r \in Requests, NEW c \in Conversations, Starts(r, c)
      PROVE  \A q \in Requests : Active(q)' => Follows(run'[q], store'[run'[q].conv])
  <2>1. /\ ~Active(r) /\ run'[r].conv = c
        /\ \A q \in Requests \ {r} : run'[q] = run[q]
        /\ \A e \in Conversations \ {c} : store'[e] = store[e]
        /\ (store' = store /\ Admitted(r, c)) \/ ~Exists(c)
        /\ run'[r].kind = "chat" => store'[c].status # "PAUSED"
    BY <1>5 DEF Starts, Active
  <2>2. \A q \in Requests \ {r} : Active(q) => run[q].conv # c
    BY <1>1, <2>1 DEF Admitted
  <2>4. Follows(run'[r], store'[c])
    BY <1>5, <2>1, FollowStarts
  <2>5. \A q \in Requests \ {r} : Active(q)' => Active(q)
    BY <2>1 DEF Active
  <2> QED
    BY <1>1, <2>1, <2>2, <2>4, <2>5
<1>6. ASSUME NEW r \in Requests, Persist(r)
      PROVE  \A q \in Requests : Active(q)' => Follows(run'[q], store'[run'[q].conv])
  <2>1. /\ Active(r) /\ ~Active(r)'
        /\ \A e \in Conversations \ {run[r].conv} : store'[e] = store[e]
        /\ \A q \in Requests \ {r} : run'[q] = run[q]
    BY <1>6, PersistFacts DEF Active
  <2> QED
    BY <1>1, <2>1 DEF Active
<1> QED
  BY <1>3, <1>4, <1>5, <1>6, StepKinds

(* A history that answers d with this content.                             *)
AnsweredWith(h, d, content) == \E i \in DOMAIN h : h[i] = ToolMessage(d, content)

(* What a longer history says of a call that was answered already, or that *)
(* it does not answer either, is what the shorter one says.                *)
LEMMA SameAnswer ==
  ASSUME NEW h \in Histories, NEW g \in Histories, IsPrefix(h, g), WellFormed(g),
         NEW d \in Calls, d \in Answered(g) => d \in Answered(h), NEW content
  PROVE  AnsweredWith(g, d, content) <=> AnsweredWith(h, d, content)
<1>1. /\ Len(h) \in Nat /\ DOMAIN h = 1..Len(h)
      /\ Len(g) \in Nat /\ DOMAIN g = 1..Len(g)
  BY DEF Histories
<1>2. \A i \in DOMAIN h : i \in DOMAIN g /\ g[i] = h[i]
  BY <1>1, PrefixIndex
<1>3. ASSUME AnsweredWith(g, d, content) PROVE AnsweredWith(h, d, content)
  <2>1. PICK i \in DOMAIN g : g[i] = ToolMessage(d, content)
    BY <1>3 DEF AnsweredWith
  <2>2. IsAnswer(g[i], d)
    BY <2>1 DEF IsAnswer, ToolMessage
  <2>3. PICK j \in DOMAIN h : IsAnswer(h[j], d)
    BY <2>2 DEF Answered
  <2>4. i = j
    BY <1>2, <2>2, <2>3 DEF WellFormed, IsAnswer
  <2> QED
    BY <1>2, <2>1, <2>4 DEF AnsweredWith
<1> QED
  BY <1>2, <1>3 DEF AnsweredWith

(* An outcome is what the rows say of a call.                              *)
LEMMA SameOutcome ==
  ASSUME NEW d \in NeedsApproval,
         \A c \in Conversations, content \in {"result", "REJECTED_BY_USER"} :
            AnsweredWith(store'[c].messages, d, content)
               <=> AnsweredWith(store[c].messages, d, content)
  PROVE  Outcome(d)' = Outcome(d)
<1>1. /\ Stored(d, "result")' <=> Stored(d, "result")
      /\ Stored(d, "REJECTED_BY_USER")' <=> Stored(d, "REJECTED_BY_USER")
  BY DEF Stored, AnsweredWith
<1> QED
  BY <1>1 DEF Outcome

LEMMA NewOutcome ==
  ASSUME NEW d \in NeedsApproval, NEW c \in Conversations,
         store'[c].messages \in Histories, d \in Answered(store'[c].messages)
  PROVE  Outcome(d)' \in {"executed", "rejected"}
<1> DEFINE h == store'[c].messages
<1>1. PICK i \in DOMAIN h : h[i].role = "tool" /\ h[i].toolCallId = d
  BY DEF Answered, IsAnswer
<1>2. h[i] \in Messages
  BY <1>1 DEF Histories
<1>3. \E content \in {"result", "REJECTED_BY_USER"} : h[i] = ToolMessage(d, content)
  BY <1>1, <1>2 DEF Messages, User, ToolMessage
<1>4. Stored(d, "result")' \/ Stored(d, "REJECTED_BY_USER")'
  BY <1>1, <1>3 DEF Stored
<1> QED
  BY <1>4 DEF Outcome

LEMMA NoOutcome ==
  ASSUME NEW d \in NeedsApproval,
         \A c \in Conversations : d \notin Answered(store[c].messages)
  PROVE  Outcome(d) = "none"
<1>1. d \in Calls
  BY Partition
<1>2. ~Stored(d, "result") /\ ~Stored(d, "REJECTED_BY_USER")
  BY <1>1 DEF Stored, Answered, IsAnswer, ToolMessage
<1> QED
  BY <1>2 DEF Outcome

(* A conversation that is created.                                         *)
LEMMA CreateRefines ==
  ASSUME TypeOK, TypeOK', CopiesAreSound, CopiesExtendRows,
         NEW c \in Conversations, ~Exists(c),
         store'[c].status = "ACTIVE", WellFormed(store'[c].messages),
         Requested(store'[c].messages) = {},
         \A e \in Conversations \ {c} : store'[e] = store[e]
  PROVE  Protocol!Create(c)
<1> DEFINE h == store'[c].messages
<1>1. store[c].status = "NONE" /\ store[c].messages = << >>
  BY DEF Exists, CopiesExtendRows
<1>2. h \in Histories /\ Answered(h) = {} /\ Pending(h) = {}
  <2>1. h \in Histories
    BY DEF TypeOK, Rows
  <2> QED
    BY <2>1, RejectedIsAnswered DEF Pending
<1>3. Pending(store[c].messages) = {} /\ Answered(store[c].messages) = {}
  BY <1>1, EmptyHistory
<1>4. ASSUME NEW d \in NeedsApproval PROVE Outcome(d)' = Outcome(d)
  <2>1. \A content : ~AnsweredWith(h, d, content) /\ ~AnsweredWith(store[c].messages, d, content)
    BY <1>2, <1>3, Partition DEF AnsweredWith, Answered, IsAnswer, ToolMessage
  <2> QED
    BY <2>1, SameOutcome
<1>5. [d \in NeedsApproval |-> Outcome(d)]' = [d \in NeedsApproval |-> Outcome(d)]
  BY <1>4
<1>6. [e \in Conversations |-> Pending(store[e].messages)]'
         = [e \in Conversations |-> Pending(store[e].messages)]
  BY <1>2, <1>3
<1>7. [e \in Conversations |-> store[e].status]'
         = [[e \in Conversations |-> store[e].status] EXCEPT ![c] = "ACTIVE"]
  OBVIOUS
<1> QED
  BY <1>1, <1>5, <1>6, <1>7 DEF Protocol!Create

(* What a pause leaves open was neither decided nor open anywhere.         *)
LEMMA PauseIsFresh ==
  ASSUME TypeOK, CopiesAreSound, CopiesExtendRows, CallsHaveAHome,
         NoOrphanedCalls, NEW r \in Requests, Active(r), run[r].pc # "resolving",
         Follows(run[r], store[run[r].conv]),
         NEW d \in Pending(run[r].messages), d \in NeedsApproval
  PROVE  d \in Protocol!Fresh
<1> DEFINE c == run[r].conv
           g == run[r].messages
           h == store[c].messages
<1>1. /\ c \in Conversations /\ g \in Histories /\ h \in Histories /\ IsPrefix(h, g)
      /\ d \in Requested(g) /\ d \notin Answered(g) /\ d \in Calls
  BY HistoriesHeld, Partition DEF CopiesExtendRows, Pending
<1>2. d \in Holds(c)
  BY <1>1 DEF Holds
<1>3. \A e \in Conversations \ {c} : d \notin Requested(store[e].messages)
  BY <1>1, <1>2 DEF CallsHaveAHome, Holds
<1>4. \A e \in Conversations \ {c} :
         d \notin Answered(store[e].messages) /\ d \notin Pending(store[e].messages)
  BY <1>3, HistoriesHeld, RejectedIsAnswered DEF Pending
<1>5. d \notin Answered(h)
  BY <1>1, PrefixKeeps
<1> HIDE DEF c, g, h
<1>6. d \notin Pending(h)
  <2>1. CASE run[r].kind = "approve"
    BY <1>1, <2>1 DEF Follows, c, g, h
  <2>2. CASE run[r].kind # "approve"
    BY <1>1, <2>2 DEF Follows, NoOrphanedCalls, c, h
  <2> QED
    BY <2>1, <2>2
<1>7. Outcome(d) = "none"
  BY <1>4, <1>5, NoOutcome DEF h
<1>8. \A e \in Conversations : d \notin Pending(store[e].messages)
  BY <1>4, <1>6 DEF h
<1> QED
  BY <1>7, <1>8 DEF Protocol!Fresh

LEMMA AllowedStep ==
  ASSUME NEW e \in Conversations, NEW fresh \in SUBSET Protocol!Fresh,
         Protocol!Turn(e, fresh) \/ Protocol!Decide(e, fresh)
  PROVE  Protocol!Next
<1>1. \E x \in SUBSET Protocol!Fresh : Protocol!Turn(e, x) \/ Protocol!Decide(e, x)
  OBVIOUS
<1> QED
  BY <1>1 DEF Protocol!Next

(* A copy that is stored ends a turn, or decides a pause.                  *)
LEMMA PersistRefines ==
  ASSUME TypeOK, TypeOK', CopiesAreSound, CopiesExtendRows, CallsHaveAHome,
         NoOrphanedCalls, NEW r \in Requests, Persist(r),
         Follows(run[r], store[run[r].conv]), OpenInBatch(run[r])
  PROVE  Protocol!Next
<1> DEFINE c == run[r].conv
           g == run[r].messages
           h == store[c].messages
           new == Pending(g)
<1>1. /\ Active(r) /\ c \in Conversations /\ run[r].pc \in {"pausing", "finishing"}
      /\ store'[c].messages = g /\ store'[c].status = StatusOf(run[r].pc)
      /\ \A e \in Conversations \ {c} : store'[e] = store[e]
  BY PersistFacts
<1>2. /\ g \in Histories /\ WellFormed(g) /\ h \in Histories /\ WellFormed(h)
      /\ IsPrefix(h, g) /\ Exists(c) /\ Follows(run[r], store[c])
  BY <1>1, HistoriesHeld DEF CopiesExtendRows
<1>3. new \subseteq NeedsApproval /\ (new = {} <=> run[r].pc = "finishing")
  BY <1>1 DEF CopiesAreSound, SoundCopy, OpenInBatch
<1>4. new \subseteq Protocol!Fresh
  <2>1. run[r].pc # "resolving"
    BY <1>1
  <2> QED
    BY <1>1, <1>2, <1>3, <2>1, PauseIsFresh
<1>5. Protocol!EndTurn(c, new)
  <2>1. store'[c].status = IF new = {} THEN "COMPLETED" ELSE "PAUSED"
    BY <1>1, <1>3 DEF StatusOf
  <2> HIDE DEF g
  <2>2. [e \in Conversations |-> store[e].status]'
           = [[e \in Conversations |-> store[e].status] EXCEPT
                ![c] = IF new = {} THEN "COMPLETED" ELSE "PAUSED"]
    BY <1>1, <2>1
  <2>3. [e \in Conversations |-> Pending(store[e].messages)]'
           = [[e \in Conversations |-> Pending(store[e].messages)] EXCEPT ![c] = new]
    BY <1>1
  <2> QED
    BY <2>2, <2>3 DEF Protocol!EndTurn
<1>6. ASSUME NEW d \in NeedsApproval, d \in Answered(g) => d \in Answered(h)
      PROVE  Outcome(d)' = Outcome(d)
  <2>1. \A content : AnsweredWith(g, d, content) <=> AnsweredWith(h, d, content)
    BY <1>2, <1>6, SameAnswer, Partition
  <2> HIDE DEF g, c
  <2>2. \A x \in Conversations, content \in {"result", "REJECTED_BY_USER"} :
           AnsweredWith(store'[x].messages, d, content)
              <=> AnsweredWith(store[x].messages, d, content)
    BY <1>1, <2>1
  <2> QED
    BY <2>2, SameOutcome
<1>9. PICK e \in Conversations, fresh \in SUBSET Protocol!Fresh : e = c /\ fresh = new
  BY <1>1, <1>4
<1>7. CASE run[r].kind = "approve"
  <2>1. /\ store[c].status = "PAUSED" /\ Pending(h) \subseteq NeedsApproval
        /\ Answered(g) \cap NeedsApproval
              = (Answered(h) \cap NeedsApproval) \cup Pending(h)
    BY <1>1, <1>2, <1>7 DEF Follows, CopiesAreSound, PauseIsDecidable
  <2>2. ASSUME NEW d \in Pending(h)
        PROVE  Outcome(d)' \in {"executed", "rejected"}
    <3>1. d \in NeedsApproval /\ d \in Answered(store'[c].messages)
      BY <1>1, <2>1, <2>2
    <3>2. store'[c].messages \in Histories
      BY <1>1, <1>2
    <3> QED
      BY <1>1, <3>1, <3>2, NewOutcome
  <2>3. \A d \in NeedsApproval \ Pending(h) : Outcome(d)' = Outcome(d)
    BY <1>6, <2>1
  <2> DEFINE open == [x \in Conversations |-> Pending(store[x].messages)]
             outcome == [d \in NeedsApproval |-> Outcome(d)]
             decided == [d \in open[c] |-> Outcome(d)']
  <2>4. open[c] = Pending(h) /\ decided \in [open[c] -> {"executed", "rejected"}]
    BY <1>1, <2>2
  <2>5. outcome' = [d \in NeedsApproval |-> IF d \in open[c] THEN decided[d] ELSE outcome[d]]
    BY <2>3, <2>4
  <2>6. \E f \in [open[c] -> {"executed", "rejected"}] :
           outcome' = [d \in NeedsApproval |-> IF d \in open[c] THEN f[d] ELSE outcome[d]]
    <3> HIDE DEF decided, open, outcome
    <3> QED
      BY <2>4, <2>5
  <2>7. [x \in Conversations |-> store[x].status][c] = "PAUSED"
    BY <1>1, <2>1
  <2> HIDE DEF c, g, h, new, decided
  <2>8. Protocol!Decide(e, fresh)
    BY <1>5, <1>9, <2>6, <2>7 DEF Protocol!Decide, Protocol!EndTurn
  <2> QED
    BY <2>8, AllowedStep
<1>8. CASE run[r].kind # "approve"
  <2>1. /\ store[c].status \in {"ACTIVE", "COMPLETED"}
        /\ Answered(g) \cap NeedsApproval = Answered(h) \cap NeedsApproval
    BY <1>1, <1>2, <1>8 DEF Follows, Exists, TypeOK, Rows
  <2>2. [d \in NeedsApproval |-> Outcome(d)]' = [d \in NeedsApproval |-> Outcome(d)]
    BY <1>6, <2>1
  <2>3. [x \in Conversations |-> store[x].status][c] \in {"ACTIVE", "COMPLETED"}
    BY <1>1, <2>1
  <2> HIDE DEF c, g, h, new
  <2>4. Protocol!Turn(e, fresh)
    BY <1>5, <1>9, <2>2, <2>3 DEF Protocol!Turn, Protocol!EndTurn
  <2> QED
    BY <2>4, AllowedStep
<1> QED
  BY <1>7, <1>8

LEMMA ProtocolInit == Init => Protocol!Init
<1> SUFFICES ASSUME Init PROVE Protocol!Init
  OBVIOUS
<1>1. \A c \in Conversations : store[c].status = "NONE" /\ store[c].messages = << >>
  BY DEF Init, Absent
<1>2. \A d \in NeedsApproval : Outcome(d) = "none"
  BY <1>1, EmptyHistory, NoOutcome
<1> QED
  BY <1>1, <1>2, EmptyHistory DEF Protocol!Init

LEMMA ProtocolNext ==
  ASSUME ~Overlap, ~ChatOnPaused, SerialInv, TypeOK', CopiesFollowRows, CopiesArePaired,
         [Next]_vars
  PROVE  [Protocol!Next]_(Protocol!vars)
<1>1. /\ TypeOK /\ CopiesAreSound /\ CopiesExtendRows /\ CallsHaveAHome
      /\ NoOrphanedCalls
  BY DEF SerialInv, Inv, CopiesArePaired
<1>2. CASE store' = store
  <2>1. \A d \in NeedsApproval : Outcome(d)' = Outcome(d)
    BY <1>2 DEF Outcome, Stored
  <2> QED
    BY <1>2, <2>1 DEF Protocol!vars
<1>3. ASSUME NEW r \in Requests, NEW c \in Conversations, Starts(r, c), store' # store
      PROVE  Protocol!Next
  <2>1. Protocol!Create(c)
    BY <1>1, <1>3, CreateRefines DEF Starts
  <2> QED
    BY <2>1 DEF Protocol!Next
<1>4. ASSUME NEW r \in Requests, Persist(r)
      PROVE  Protocol!Next
  <2>1. Active(r) /\ OpenInBatch(run[r])
    BY <1>1, <1>4, PersistFacts DEF CopiesArePaired
  <2> QED
    BY <1>1, <1>4, <2>1, PersistRefines DEF CopiesFollowRows
<1>5. Drops => store' = store
  BY DEF Drops
<1>6. ASSUME NEW r \in Requests, NEW asked, NEW answered, Moves(r, asked, answered)
      PROVE  store' = store
  BY <1>6 DEF Moves
<1> QED
  BY <1>1, <1>2, <1>3, <1>4, <1>5, <1>6, StepKinds

(* What a copy has answered of the calls that need a human is what its row *)
(* has, and what its request decided (chat and approve, up to the write).  *)
THEOREM CopiesFollow ==
  ASSUME ~Overlap, ~ChatOnPaused
  PROVE  Spec => []CopiesFollowRows
<1>1. SerialInv => TypeOK /\ CopiesAreSound /\ CopiesExtendRows
  BY DEF SerialInv, Inv
<1>2. CopiesArePaired => NoOrphanedCalls
  BY DEF CopiesArePaired
<1>3. SerialInv /\ CopiesArePaired /\ CopiesFollowRows /\ [Next]_vars => CopiesFollowRows'
  BY <1>1, <1>2, FollowNext
<1>4. Init => CopiesFollowRows
  BY SerialInit
<1> QED
  BY <1>3, <1>4, SerialInvariance, CopiesPaired, PTL DEF Spec

(* The rows of the conversations are an approval protocol: a turn          *)
(* completes or pauses on new calls, a pause is left only by deciding all  *)
(* of its calls, and a decision is final, whatever fails in between.       *)
THEOREM RowsImplementApproval ==
  ASSUME ~Overlap, ~ChatOnPaused
  PROVE  Spec => ImplementsApproval
<1>1. SerialInv /\ SerialInv' /\ CopiesArePaired /\ CopiesFollowRows /\ [Next]_vars
         => [Protocol!Next]_(Protocol!vars)
  <2>1. SerialInv' => TypeOK'
    BY DEF SerialInv, Inv
  <2> QED
    BY <2>1, ProtocolNext
<1> QED
  BY <1>1, ProtocolInit, SerialInvariance, CopiesPaired, CopiesFollow, PTL
     DEF Spec, ImplementsApproval, Protocol!Spec
=============================================================================
