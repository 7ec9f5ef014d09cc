---------------------------- MODULE VendorProofs ----------------------------
(***************************************************************************)
(* What a vendor that refuses unpaired tool calls takes, and what follows  *)
(* for the conversations: the histories the agent sends it are refused     *)
(* only where a call is unanswered, and the rows keep the approval         *)
(* protocol although clients chat on a pause.                              *)
(***************************************************************************)
EXTENDS HarnessProofs

-----------------------------------------------------------------------------
(* Where the results of a history stand.                                   *)

LEMMA NothingOpen ==
  ASSUME NEW h, Pending(h) = {}
  PROVE  OpenAtEnd(h)
BY DEF OpenAtEnd

LEMMA EmptyInPlace == InPlace(<< >>) /\ OpenAtEnd(<< >>)
BY EmptyHistory, NothingOpen DEF InPlace

(* A text of the user disturbs no result.                                  *)
LEMMA UserKeepsPlace ==
  ASSUME NEW h \in Histories, InPlace(h)
  PROVE  InPlace(Append(h, User))
<1> DEFINE g == Append(h, User)
<1>1. /\ g \in Histories /\ Len(h) \in Nat /\ DOMAIN h = 1..Len(h)
      /\ DOMAIN g = 1..(Len(h) + 1)
      /\ \A i \in DOMAIN h : g[i] = h[i]
      /\ g[Len(h) + 1].role = "user"
  BY AppendIndex DEF User, Messages
<1> HIDE DEF g
<1>2. \A i \in DOMAIN g : g[i].role # "user" => i \in DOMAIN h /\ g[i] = h[i]
  BY <1>1
<1>3. ASSUME NEW i \in DOMAIN g, NEW j \in DOMAIN g, NEW c \in Calls,
             IsRequest(g[i], c), IsRequest(g[j], c)
      PROVE  i = j
  BY <1>2, <1>3 DEF IsRequest, InPlace
<1>4. ASSUME NEW i \in DOMAIN g, g[i].role = "tool"
      PROVE  \E j \in 1..(i-1) :
                IsRequest(g[j], g[i].toolCallId) /\ DirectlyAfter(g, j, i)
  <2>1. i \in DOMAIN h /\ g[i] = h[i] /\ h[i].role = "tool"
    BY <1>2, <1>4
  <2>2. PICK j \in 1..(i-1) :
           IsRequest(h[j], h[i].toolCallId) /\ DirectlyAfter(h, j, i)
    BY <2>1 DEF InPlace
  <2>3. \A k \in 1..(i-1) : g[k] = h[k]
    BY <1>1, <2>1
  <2>4. j < i /\ \A k \in (j+1)..(i-1) : k \in 1..(i-1)
    BY <1>1, <2>1
  <2> QED
    BY <2>1, <2>2, <2>3, <2>4 DEF DirectlyAfter
<1> QED
  BY <1>3, <1>4 DEF InPlace, g

(* A client's history makes and answers no call.                           *)
LEMMA ClientInPlace ==
  ASSUME NEW h \in ClientHistories
  PROVE  InPlace(h) /\ OpenAtEnd(h)
<1>1. h \in Histories /\ Requested(h) = {} /\ Answered(h) = {} /\ Pending(h) = {}
  BY ClientHistory
<1>2. \A i \in DOMAIN h : h[i] \in Messages
  BY <1>1 DEF Histories
<1>3. \A i \in DOMAIN h : h[i].role # "tool"
  BY <1>1, <1>2, MessageKinds DEF Answered, IsAnswer
<1>4. \A i \in DOMAIN h, c \in Calls : ~IsRequest(h[i], c)
  BY <1>1 DEF Requested
<1> QED
  BY <1>1, <1>3, <1>4, NothingOpen DEF InPlace

(* Results added while the open calls are at the end stand in their place. *)
LEMMA ResultsKeepPlace ==
  ASSUME NEW h \in Histories, NEW g, AddsResults(h, g), InPlace(h), OpenAtEnd(h)
  PROVE  InPlace(g) /\ OpenAtEnd(g)
<1>1. /\ g \in Histories /\ Len(h) \in Nat /\ Len(g) \in Nat /\ Len(h) <= Len(g)
      /\ DOMAIN h = 1..Len(h) /\ DOMAIN g = 1..Len(g)
      /\ \A i \in 1..Len(h) : g[i] = h[i]
  BY PrefixIndex DEF AddsResults, Histories
<1>2. \A i \in (Len(h) + 1)..Len(g) : g[i].role = "tool" /\ g[i].toolCallId \in Pending(h)
  BY DEF AddsResults
<1>3. \A i \in DOMAIN g, c \in Calls : IsRequest(g[i], c) =>
         i \in DOMAIN h /\ IsRequest(h[i], c)
  BY <1>1, <1>2 DEF IsRequest
<1>4. ASSUME NEW c \in Pending(h), NEW i \in (Len(h) + 1)..(Len(g) + 1)
      PROVE  \E j \in DOMAIN h : IsRequest(g[j], c) /\ DirectlyAfter(g, j, i)
  <2>1. PICK j \in DOMAIN h : IsRequest(h[j], c) /\ DirectlyAfter(h, j, Len(h) + 1)
    BY DEF OpenAtEnd
  <2>2. j < i
    BY <1>1
  <2>3. ASSUME NEW k \in (j+1)..(i-1) PROVE g[k].role = "tool"
    <3>1. k \in (j+1)..((Len(h) + 1) - 1) \/ k \in (Len(h) + 1)..Len(g)
      BY <1>1
    <3>2. k \in (j+1)..((Len(h) + 1) - 1) => g[k] = h[k]
      BY <1>1
    <3> QED
      BY <1>2, <2>1, <3>1, <3>2 DEF DirectlyAfter
  <2> QED
    BY <1>1, <2>1, <2>2, <2>3 DEF DirectlyAfter
<1>5. \A i, j \in DOMAIN g, c \in Calls :
         IsRequest(g[i], c) /\ IsRequest(g[j], c) => i = j
  BY <1>3 DEF InPlace
<1>6. ASSUME NEW i \in DOMAIN g, g[i].role = "tool"
      PROVE  \E j \in 1..(i-1) :
                IsRequest(g[j], g[i].toolCallId) /\ DirectlyAfter(g, j, i)
  <2>1. CASE i \in DOMAIN h
    <3>1. PICK j \in 1..(i-1) :
             IsRequest(h[j], h[i].toolCallId) /\ DirectlyAfter(h, j, i)
      BY <1>1, <1>6, <2>1 DEF InPlace
    <3>2. \A k \in 1..i : g[k] = h[k]
      BY <1>1, <2>1
    <3>3. j \in 1..i /\ i \in 1..i /\ \A k \in (j+1)..(i-1) : k \in 1..i
      BY <1>1, <2>1
    <3> QED
      BY <3>1, <3>2, <3>3 DEF DirectlyAfter
  <2>2. CASE i \notin DOMAIN h
    <3>1. i \in (Len(h) + 1)..Len(g) /\ i \in (Len(h) + 1)..(Len(g) + 1)
      BY <1>1, <2>2
    <3>2. g[i].toolCallId \in Pending(h)
      BY <1>2, <3>1
    <3>3. PICK j \in DOMAIN h :
             IsRequest(g[j], g[i].toolCallId) /\ DirectlyAfter(g, j, i)
      BY <1>4, <3>1, <3>2
    <3>4. j \in 1..(i-1)
      BY <1>1, <3>1
    <3> QED
      BY <3>3, <3>4
  <2> QED
    BY <2>1, <2>2
<1>7. ASSUME NEW c \in Pending(g)
      PROVE  \E j \in DOMAIN g : IsRequest(g[j], c) /\ DirectlyAfter(g, j, Len(g) + 1)
  <2>1. c \in Pending(h)
    BY <1>1, <1>3 DEF Pending, Requested, Answered
  <2>2. PICK j \in DOMAIN h : IsRequest(g[j], c) /\ DirectlyAfter(g, j, Len(g) + 1)
    <3>1. Len(g) + 1 \in (Len(h) + 1)..(Len(g) + 1)
      BY <1>1
    <3> QED
      BY <1>4, <2>1, <3>1
  <2> QED
    BY <1>1, <2>2
<1> QED
  BY <1>5, <1>6, <1>7 DEF InPlace, OpenAtEnd

(* A batch of new calls is open at the end, where nothing else is open.    *)
LEMMA BatchKeepsPlace ==
  ASSUME NEW h \in Histories, InPlace(h), Pending(h) = {},
         NEW batch \in Seq(Calls), Range(batch) \cap Requested(h) = {}
  PROVE  InPlace(Append(h, Assistant(batch))) /\ OpenAtEnd(Append(h, Assistant(batch)))
<1> DEFINE g == Append(h, Assistant(batch))
           n == Len(h) + 1
<1>1. Assistant(batch) \in Messages
  BY DEF Assistant, Messages
<1>2. /\ g \in Histories /\ Len(h) \in Nat /\ DOMAIN h = 1..Len(h)
      /\ DOMAIN g = 1..n /\ Len(g) = n
      /\ \A i \in DOMAIN h : g[i] = h[i]
      /\ g[n].role = "assistant" /\ g[n].toolCalls = batch
  BY <1>1, AppendIndex DEF Assistant, Histories
<1> HIDE DEF g
<1>3. \A i \in DOMAIN g : i \in DOMAIN h \/ i = n
  BY <1>2
<1>4. \A i \in DOMAIN h, c \in Calls : IsRequest(g[i], c) <=> IsRequest(h[i], c)
  BY <1>2
<1>5. \A c \in Calls : IsRequest(g[n], c) => \A i \in DOMAIN h : ~IsRequest(h[i], c)
  BY <1>2 DEF IsRequest, Requested
<1>6. \A i, j \in DOMAIN g, c \in Calls :
         IsRequest(g[i], c) /\ IsRequest(g[j], c) => i = j
  BY <1>3, <1>4, <1>5 DEF InPlace
<1>7. ASSUME NEW i \in DOMAIN g, g[i].role = "tool"
      PROVE  \E j \in 1..(i-1) :
                IsRequest(g[j], g[i].toolCallId) /\ DirectlyAfter(g, j, i)
  <2>1. i \in DOMAIN h /\ g[i] = h[i]
    BY <1>2, <1>3, <1>7
  <2>2. PICK j \in 1..(i-1) :
           IsRequest(h[j], h[i].toolCallId) /\ DirectlyAfter(h, j, i)
    BY <1>7, <2>1 DEF InPlace
  <2>3. \A k \in 1..(i-1) : g[k] = h[k]
    BY <1>2, <2>1
  <2>4. \A k \in (j+1)..(i-1) : k \in 1..(i-1)
    BY <1>2, <2>1
  <2> QED
    BY <2>1, <2>2, <2>3, <2>4 DEF DirectlyAfter
<1>8. ASSUME NEW c \in Pending(g)
      PROVE  \E j \in DOMAIN g : IsRequest(g[j], c) /\ DirectlyAfter(g, j, Len(g) + 1)
  <2>1. PICK j \in DOMAIN g : IsRequest(g[j], c) /\ c \in Calls
    BY <1>8 DEF Pending, Requested
  <2>2. \A i \in DOMAIN h : ~IsAnswer(g[i], c) /\ ~IsAnswer(h[i], c)
    BY <1>2, <1>8 DEF Pending, Answered, Requested
  <2>3. j = n
    BY <1>3, <1>4, <2>1, <2>2 DEF Pending, Requested, Answered
  <2>4. DirectlyAfter(g, n, Len(g) + 1)
    BY <1>2 DEF DirectlyAfter
  <2> QED
    BY <2>1, <2>3, <2>4
<1> QED
  BY <1>6, <1>7, <1>8 DEF InPlace, OpenAtEnd, g

(* A history whose results are in place, with none missing, is one that a  *)
(* vendor takes.                                                           *)
LEMMA PairedIsAccepted ==
  ASSUME NEW p \in Strict, NEW h \in Histories, InPlace(h), Pending(h) = {}
  PROVE  Accepts(p, h)
<1> DEFINE wire == Wire(p, h)
           tool(k) == h[k].role = "tool"
<1>1. /\ Len(h) \in Nat /\ DOMAIN h = 1..Len(h)
      /\ \A i \in DOMAIN h : h[i].role \in {"user", "tool", "assistant"}
      /\ \A i \in DOMAIN h : tool(i) => h[i].toolCallId \in Calls
      /\ \A i \in DOMAIN h : h[i].role = "assistant" => h[i].toolCalls \in Seq(Calls)
  BY MessageKinds DEF Histories
<1>2. PICK o \in {0, 1} :
         /\ Len(wire) = Len(h) + o /\ DOMAIN wire = 1..(Len(h) + o)
         /\ \A i \in DOMAIN h : Reads(p, h[i], wire[i + o])
         /\ o = 1 => Makes(p, wire[1]) = {} /\ Answers(p, wire[1]) = {}
  BY WireTurns
<1>3. ASSUME NEW k \in DOMAIN h
      PROVE  /\ Answers(p, wire[k + o]) = IF tool(k) THEN {h[k].toolCallId} ELSE {}
             /\ ~tool(k) => Makes(p, wire[k + o]) =
                   IF h[k].role = "assistant" THEN Range(h[k].toolCalls) ELSE {}
  BY <1>1, <1>2 DEF Reads
<1>4. ASSUME NEW k \in DOMAIN h, tool(k)
      PROVE  \E j \in 1..(k-1) :
                IsRequest(h[j], h[k].toolCallId) /\ DirectlyAfter(h, j, k)
  BY <1>4 DEF InPlace
<1>5. 1 \in DOMAIN h => ~tool(1)
  BY <1>4
<1> HIDE DEF wire
<1> SUFFICES ASSUME NEW i \in DOMAIN wire
             PROVE  IF Answers(p, wire[i]) = {}
                    THEN Makes(p, wire[i]) = ResultsAfter(p, wire, i)
                    ELSE i > 1
  BY DEF Accepts, wire
<1>6. CASE i = 1 /\ o = 1
  <2>1. ASSUME NEW j \in 2..Len(wire), \A l \in 2..j : Answers(p, wire[l]) # {}
        PROVE  FALSE
    <3>1. 1 \in DOMAIN h /\ Answers(p, wire[1 + o]) # {}
      BY <1>1, <1>2, <1>6, <2>1
    <3> QED
      BY <1>3, <1>5, <3>1
  <2>2. ResultsAfter(p, wire, i) = {}
    BY <1>6, <2>1 DEF ResultsAfter
  <2> QED
    BY <1>2, <1>6, <2>2
<1>7. ASSUME NEW k \in DOMAIN h, i = k + o, tool(k) PROVE Answers(p, wire[i]) # {} /\ i > 1
  <2>1. k # 1
    BY <1>5, <1>7
  <2>2. i > 1
    BY <1>1, <1>2, <1>7, <2>1
  <2>3. Answers(p, wire[i]) = {h[k].toolCallId}
    BY <1>3, <1>7
  <2> QED
    BY <2>2, <2>3
<1>8. ASSUME NEW k \in DOMAIN h, i = k + o, ~tool(k)
      PROVE  Answers(p, wire[i]) = {} /\ Makes(p, wire[i]) = ResultsAfter(p, wire, i)
  <2>1. Answers(p, wire[i]) = {}
    BY <1>3, <1>8
  <2>2. \A c \in Makes(p, wire[i]) : c \in Calls /\ IsRequest(h[k], c)
    <3>1. Makes(p, wire[i]) =
             IF h[k].role = "assistant" THEN Range(h[k].toolCalls) ELSE {}
      BY <1>3, <1>8
    <3>2. h[k].role = "assistant" => Range(h[k].toolCalls) \subseteq Calls
      BY <1>1 DEF Range
    <3> QED
      BY <3>1, <3>2 DEF IsRequest
  <2>3. \A c \in Calls : IsRequest(h[k], c) => c \in Makes(p, wire[i])
    BY <1>3, <1>8 DEF IsRequest
  <2>4. ASSUME NEW c \in Makes(p, wire[i]) PROVE c \in ResultsAfter(p, wire, i)
    <3>1. c \in Calls /\ IsRequest(h[k], c)
      BY <2>2
    <3>2. PICK m \in DOMAIN h : tool(m) /\ h[m].toolCallId = c
      BY <3>1 DEF Pending, Requested, Answered, IsAnswer
    <3>3. PICK j \in 1..(m-1) : IsRequest(h[j], c) /\ DirectlyAfter(h, j, m)
      BY <1>4, <3>2
    <3>4. j = k
      BY <1>1, <3>1, <3>2, <3>3 DEF InPlace
    <3>5. k < m /\ \A l \in (k+1)..(m-1) : tool(l)
      BY <3>3, <3>4 DEF DirectlyAfter
    <3>6. ASSUME NEW l \in (i+1)..(m + o) PROVE Answers(p, wire[l]) # {}
      <4>1. l - o \in (k+1)..m /\ l - o \in DOMAIN h /\ l = (l - o) + o
        BY <1>1, <1>2, <1>8
      <4>2. tool(l - o)
        <5>1. \A n \in (k+1)..m : n \in (k+1)..(m-1) \/ n = m
          BY <1>1
        <5> HIDE DEF tool
        <5> QED
          BY <3>2, <3>5, <4>1, <5>1
      <4> QED
        BY <1>3, <4>1, <4>2
    <3>7. m + o \in (i+1)..Len(wire)
      BY <1>1, <1>2, <1>8, <3>5
    <3>8. c \in Answers(p, wire[m + o])
      BY <1>3, <3>2
    <3> QED
      BY <3>6, <3>7, <3>8 DEF ResultsAfter
  <2>5. ASSUME NEW c \in ResultsAfter(p, wire, i) PROVE c \in Makes(p, wire[i])
    <3>1. PICK j \in (i+1)..Len(wire) :
             /\ c \in Answers(p, wire[j])
             /\ \A l \in (i+1)..j : Answers(p, wire[l]) # {}
      BY <2>5 DEF ResultsAfter
    <3> DEFINE m == j - o
    <3>2. m \in DOMAIN h /\ j = m + o /\ k < m
      BY <1>1, <1>2, <1>8, <3>1
    <3>3. tool(m) /\ c = h[m].toolCallId
      BY <1>3, <3>1, <3>2
    <3>4. ASSUME NEW l \in (k+1)..m PROVE tool(l)
      <4>1. l \in DOMAIN h /\ l + o \in (i+1)..j
        BY <1>1, <1>2, <1>8, <3>2
      <4> QED
        BY <1>3, <3>1, <4>1
    <3>5. PICK n \in 1..(m-1) : IsRequest(h[n], c) /\ DirectlyAfter(h, n, m)
      BY <1>4, <3>2, <3>3
    <3>6. ~tool(n)
      BY <3>5 DEF IsRequest
    <3>7. ~(k < n)
      BY <1>1, <3>2, <3>4, <3>6
    <3>8. ~(n < k)
      BY <1>1, <1>8, <3>2, <3>5 DEF DirectlyAfter
    <3>9. n = k
      BY <1>1, <3>2, <3>7, <3>8
    <3> QED
      BY <1>1, <2>3, <3>2, <3>3, <3>5, <3>9
  <2> QED
    BY <2>1, <2>4, <2>5
<1>9. (i = 1 /\ o = 1) \/ \E k \in DOMAIN h : i = k + o
  <2>1. i - o \in DOMAIN h \/ (i = 1 /\ o = 1)
    BY <1>1, <1>2
  <2>2. i = (i - o) + o
    BY <1>2
  <2> QED
    BY <2>1, <2>2
<1> QED
  BY <1>6, <1>7, <1>8, <1>9

-----------------------------------------------------------------------------
(* The results of a strict vendor's conversations are in their place.      *)

(* The vendor has taken the history of a run that it answers.              *)
LEMMA AnswerAccepted ==
  ASSUME HarnessTypeOK, TypeOK, NEW r \in Requests, HStep(r),
         run[r].pc = "llm", run'[r].pc \in {"reading", "finishing"}
  PROVE  Accepts(config.provider, run[r].messages)
<1>1. ~StartLoop(r) /\ ~GiveUp(r) /\ ~CloseBatch(r) /\ ~Reply(r) /\ ~Inward(r) /\ ~Ask(r)
  BY DEF StartLoop, Resume, GiveUp, StopEarly, CloseBatch, EndBatch, Reply, Persist,
     PersistFails, Inward, Ask, CallModel
<1>2. ~TimePasses(r)
  BY DEF TimePasses, vars
<1>3. ~Retry(r)
  BY LoopStepKeeps DEF Retry
<1>4. ~Exhaust(r)
  <2>1. run[r].attempt \in Nat /\ MaxRetries \in Nat
    BY RunFields, AgentAssumption DEF TypeOK
  <2> QED
    BY <2>1, LoopStepKeeps DEF Exhaust
<1> QED
  BY <1>1, <1>2, <1>3, <1>4 DEF HStep, Converse, AnswerFinal, AnswerTools

RowsInPlace ==
  \A c \in Conversations : InPlace(store[c].messages) /\ OpenAtEnd(store[c].messages)

(* A handler starts from a row that is in place.                           *)
LEMMA PlaceArrives ==
  ASSUME TypeOK, CopiesAreSound, RowsInPlace, NEW r \in Requests, Arrive(r)
  PROVE  RowsInPlace' /\ PlaceIsKept(run'[r])
<1>1. ASSUME NEW c \in Conversations, NEW h \in Histories, InPlace(h), StartChat(r, c, h)
      PROVE  PlaceIsKept(run'[r])
  <2> DEFINE g == Append(h, User)
             x == [Start EXCEPT !.pc = "loop", !.kind = "chat", !.conv = c, !.messages = g]
  <2>1. run'[r] = x /\ InPlace(g)
    BY <1>1, UserKeepsPlace DEF StartChat, Becomes, TypeOK
  <2> HIDE DEF g
  <2>2. x.pc = "loop" /\ x.messages = g
    BY DEF Start
  <2> HIDE DEF x
  <2> QED
    BY <2>1, <2>2 DEF PlaceIsKept, Answering
<1>2. ASSUME NEW c \in Conversations, NEW h \in ClientHistories, ChatNew(r, c, h)
      PROVE  RowsInPlace' /\ PlaceIsKept(run'[r])
  <2>1. h \in Histories /\ InPlace(h) /\ OpenAtEnd(h)
    BY ClientHistory, ClientInPlace
  <2>2. store'[c].messages = h /\ \A e \in Conversations \ {c} : store'[e] = store[e]
    BY <1>2 DEF ChatNew, TypeOK
  <2>3. RowsInPlace'
    BY <2>1, <2>2 DEF RowsInPlace
  <2> QED
    BY <1>1, <1>2, <2>1, <2>3 DEF ChatNew
<1>3. ASSUME store' = store PROVE RowsInPlace'
  BY <1>3 DEF RowsInPlace
<1>4. ASSUME NEW c \in Conversations, ChatExisting(r, c)
      PROVE  RowsInPlace' /\ PlaceIsKept(run'[r])
  BY <1>1, <1>3, <1>4 DEF ChatExisting, TypeOK, Rows, RowsInPlace
<1>5. ASSUME NEW c \in Conversations, NEW todo, NEW decisions, Accept(r, c, decisions, todo)
      PROVE  RowsInPlace' /\ PlaceIsKept(run'[r])
  <2> DEFINE h == store[c].messages
             x == [Start EXCEPT
                     !.pc = "resolving", !.kind = "approve", !.conv = c,
                     !.messages = h, !.iterations = 1,
                     !.todo = todo, !.approved = ApprovedBy(decisions)]
  <2>1. run'[r] = x /\ store' = store
    BY <1>5 DEF Accept, Becomes, TypeOK
  <2>2. x.messages = h
    BY DEF Start
  <2> HIDE DEF x
  <2>3. InPlace(run'[r].messages) /\ OpenAtEnd(run'[r].messages)
    BY <2>1, <2>2 DEF RowsInPlace
  <2> QED
    BY <1>3, <2>1, <2>3 DEF PlaceIsKept
<1>6. ASSUME Becomes(r, Ended("failed")), store' = store
      PROVE  RowsInPlace' /\ PlaceIsKept(run'[r])
  <2>1. run'[r].pc = "failed"
    BY <1>6, EndedRun DEF Becomes, TypeOK
  <2> QED
    BY <1>3, <1>6, <2>1 DEF PlaceIsKept
<1> QED
  BY <1>2, <1>4, <1>5, <1>6 DEF Arrive, NotFound, ApproveRefused, ApproveAccepted

(* A handler stores, and goes on with, what is in place.                   *)
LEMMA PlaceSteps ==
  ASSUME HarnessTypeOK, TypeOK, CopiesAreSound, RowsInPlace,
         NEW r \in Requests, HStep(r), config.provider \in Strict,
         PlaceIsKept(run[r]), OpenInBatch(run[r])
  PROVE  RowsInPlace' /\ PlaceIsKept(run'[r])
<1> DEFINE h == run[r].messages
           g == run'[r].messages
<1>1. CASE TimePasses(r)
  BY <1>1 DEF TimePasses, vars, RowsInPlace
<1>2. CASE Persist(r)
  <2>1. /\ run[r].pc \in {"pausing", "finishing"} /\ run'[r].pc = "done"
        /\ store'[run[r].conv].messages = h
        /\ \A e \in Conversations \ {run[r].conv} : store'[e] = store[e]
    BY <1>2, PersistFacts
  <2>2. InPlace(h) /\ OpenAtEnd(h)
    BY <2>1, NothingOpen DEF PlaceIsKept, Answering, OpenInBatch
  <2> QED
    BY <2>1, <2>2 DEF RowsInPlace, PlaceIsKept
<1>3. ASSUME Step(r), ~Persist(r) PROVE RowsInPlace'
  <2>1. UNCHANGED store
    BY <1>3 DEF Step, ResolveNext, Resume, StopEarly, CallModel, ModelFails, ModelFinishes,
       ModelRequestsTools, ReadOnlySettles, RecordReadOnly, ExecuteMutating, EndBatch,
       PersistFails
  <2> QED
    BY <2>1 DEF RowsInPlace
<1>4. ASSUME Step(r) PROVE PlaceIsKept(run'[r])
  <2>1. h \in Histories /\ InPlace(h) /\ (run[r].pc \in Answering => OpenAtEnd(h))
    BY <1>4, RunFields, StepCopies DEF TypeOK, PlaceIsKept, Active
  <2>2. CASE run'[r].pc \in {"done", "failed"}
    BY <2>2 DEF PlaceIsKept
  <2>3. CASE /\ AddsResults(h, g)
             /\ g = h \/ run[r].pc \in Answering
             /\ run'[r].pc \in Answering => run[r].pc \in Answering
    BY <2>1, <2>3, ResultsKeepPlace DEF PlaceIsKept
  <2>4. ASSUME NEW batch \in Batches, ModelRequestsTools(r, batch),
               run'[r].pc = "reading", g = Append(h, Assistant(batch))
        PROVE  PlaceIsKept(run'[r])
    <3>1. run[r].pc = "llm" /\ Pending(h) = {}
      BY <2>1, <2>4, AnswerAccepted, AcceptedIsPaired DEF ModelRequestsTools
    <3>2. batch \in Seq(Calls) /\ Range(batch) \cap Requested(h) = {}
      BY <2>4, <3>1, BatchFacts, HistoriesHeld DEF TypeOK, Active
    <3> QED
      BY <2>1, <2>4, <3>1, <3>2, BatchKeepsPlace DEF PlaceIsKept
  <2> QED
    BY <1>4, <2>2, <2>3, <2>4, StepCopies
<1> QED
  BY <1>1, <1>2, <1>3, <1>4, StepRefines

LEMMA PlacesNext ==
  ASSUME HarnessTypeOK, TypeOK, CopiesAreSound, OnlyTheBatchIsOpen, ResultsAreInPlace,
         [HNext]_hvars
  PROVE  ResultsAreInPlace'
<1>1. UNCHANGED config
  BY DEF HNext, hvars
<1> SUFFICES ASSUME config.provider \in Strict, Sensible
             PROVE  RowsInPlace' /\ \A r \in Requests : PlaceIsKept(run'[r])
  BY <1>1 DEF ResultsAreInPlace, RowsInPlace, Sensible, Positive
<1>2. /\ RowsInPlace /\ \A r \in Requests : PlaceIsKept(run[r])
      /\ \A r \in Requests : OpenInBatch(run[r])
  BY DEF ResultsAreInPlace, RowsInPlace, OnlyTheBatchIsOpen, OpenIsKept
<1>3. CASE HCrash
  <2>1. UNCHANGED store /\ \A r \in Requests : run'[r].pc \in {"idle", "done", "failed"}
    BY <1>3, EndedRun, RunFields DEF HCrash, Crash, Active, TypeOK
  <2> QED
    BY <1>2, <2>1 DEF RowsInPlace, PlaceIsKept
<1>4. CASE UNCHANGED <<store, run>>
  BY <1>2, <1>4 DEF RowsInPlace
<1>5. ASSUME NEW r \in Requests, HArrive(r) \/ HStep(r)
      PROVE  RowsInPlace' /\ \A q \in Requests : PlaceIsKept(run'[q])
  <2>1. RowsInPlace' /\ PlaceIsKept(run'[r])
    BY <1>2, <1>5, PlaceArrives, PlaceSteps DEF HArrive
  <2> QED
    BY <1>2, <1>5, <2>1, OthersKeep
<1> QED
  BY <1>3, <1>4, <1>5 DEF HNext, hvars, Quiet, vars

LEMMA PlacesInit == HInit => ResultsAreInPlace
<1> SUFFICES ASSUME HInit PROVE ResultsAreInPlace
  OBVIOUS
<1>1. /\ \A c \in Conversations : store[c].messages = << >>
      /\ \A r \in Requests : run[r].pc = "idle"
  BY StartRun DEF HInit, Init, Absent
<1> QED
  BY <1>1, EmptyInPlace DEF ResultsAreInPlace, PlaceIsKept

(* Each result of a strict vendor's conversations directly follows the     *)
(* turn that asked for it, however many requests later a pause ended.      *)
THEOREM ResultsInPlace == HSpec => []ResultsAreInPlace
<1>1. /\ Inv /\ HarnessTypeOK /\ OnlyTheBatchIsOpen /\ ResultsAreInPlace
      /\ [HNext]_hvars
      => ResultsAreInPlace'
  BY PlacesNext DEF Inv
<1> QED
  BY <1>1, PlacesInit, BooksKept, BatchesOpen, PTL DEF HSpec

(* A vendor takes what the loop sends it exactly when every tool call in   *)
(* it is answered, whatever was rejected, paused or retried before         *)
(* (runLoop's order of results, approve, and the two conversions).         *)
THEOREM AcceptedPaired == HSpec => []AcceptedIffPaired
<1>1. TypeOK /\ ResultsAreInPlace => AcceptedIffPaired
  <2> SUFFICES ASSUME TypeOK, ResultsAreInPlace, config.provider \in Strict, Sensible,
                      NEW r \in Requests, run[r].pc = "llm"
               PROVE  Accepts(config.provider, run[r].messages)
                        <=> Pending(run[r].messages) = {}
    BY DEF AcceptedIffPaired
  <2>1. run[r].messages \in Histories /\ InPlace(run[r].messages)
    BY RunFields DEF TypeOK, ResultsAreInPlace, PlaceIsKept
  <2> QED
    BY <2>1, AcceptedIsPaired, PairedIsAccepted
<1>2. Inv => TypeOK
  BY DEF Inv
<1> QED
  BY <1>1, <1>2, Carries, ResultsInPlace, PTL

-----------------------------------------------------------------------------
(* The approval protocol under a strict vendor, one request at a time.     *)

LEMMA SerialOnly == HSpec => [](~Overlap => SerialInv)
<1>1. CASE ~Overlap
  <2>1. SerialInv => (~Overlap => SerialInv)
    OBVIOUS
  <2> QED
    BY <1>1, <2>1, Refines, SerialInvariance, PTL DEF ImplementsAgent
<1>2. CASE Overlap
  <2>1. ~Overlap => SerialInv
    BY <1>2
  <2> QED
    BY <2>1, PTL
<1> QED
  BY <1>1, <1>2

(* A chat on a pause starts stuck, any other request follows its row.      *)
LEMMA StuckStarts ==
  ASSUME TypeOK, CopiesAreSound, NoOrphanedCalls, NEW r \in Requests, Arrive(r),
         NEW c \in Conversations, Starts(r, c)
  PROVE  Stuck(run'[r], store'[c]) \/ Follows(run'[r], store'[c])
<1>1. CASE run'[r].kind = "chat" /\ store'[c].status = "PAUSED"
  <2>1. run'[r].pc = "loop"
    BY <1>1, ArriveSeeds DEF Starts, Active
  <2>2. Pending(run'[r].messages) = Pending(store'[c].messages) /\ store' = store
    BY <1>1 DEF Starts, Pending
  <2>3. Pending(store[c].messages) # {}
    BY <1>1, <2>2 DEF CopiesAreSound, PauseIsDecidable
  <2> QED
    BY <1>1, <2>1, <2>2, <2>3 DEF Stuck
<1>2. CASE run'[r].kind = "chat" => store'[c].status # "PAUSED"
  BY <1>2, FollowStarts
<1> QED
  BY <1>1, <1>2

(* A stuck chat stays so: its vendor refuses what it is sent.              *)
LEMMA StuckMoves ==
  ASSUME HarnessTypeOK, TypeOK, TypeOK', CopiesAreSound, config.provider \in Strict,
         NEW r \in Requests, HStep(r), Step(r),
         NEW asked, NEW answered, Moves(r, asked, answered),
         OpenInBatch(run'[r]), NEW row, Stuck(run[r], row)
  PROVE  Stuck(run'[r], row)
<1> DEFINE h == run[r].messages
<1>1. /\ run[r].kind = "chat" /\ row.status = "PAUSED" /\ Pending(h) # {}
      /\ run[r].pc \in {"loop", "llm"} /\ h \in Histories
  BY RunFields DEF Stuck, TypeOK
<1>2. run'[r].kind = "chat" /\ Active(r)'
  BY <1>1 DEF Moves
<1>3. \A batch \in Batches : ~(ModelRequestsTools(r, batch) /\ run'[r].pc = "reading")
  BY <1>1, AnswerAccepted, AcceptedIsPaired DEF ModelRequestsTools
<1>4. run'[r].messages = h /\ run'[r].pc \notin Answering
  BY <1>1, <1>2, <1>3, StepCopies DEF Active, Answering
<1>5. run'[r].pc # "finishing"
  BY <1>1, <1>4 DEF OpenInBatch
<1>6. run'[r].pc \in {"loop", "llm"}
  BY <1>2, <1>4, <1>5, RunFields DEF Active, Answering, TypeOK
<1> QED
  BY <1>1, <1>2, <1>4, <1>6 DEF Stuck

LEMMA StrictFollowNext ==
  ASSUME ~Overlap, HarnessTypeOK, TypeOK, TypeOK', CopiesAreSound, CopiesExtendRows,
         OnlyTheBatchIsOpen, OnlyTheBatchIsOpen', StrictCopiesFollow, [HNext]_hvars
  PROVE  StrictCopiesFollow'
<1> DEFINE Kept(x, row) == Stuck(x, row) \/ Follows(x, row)
<1>1. UNCHANGED config
  BY DEF HNext, hvars
<1> SUFFICES ASSUME config.provider \in Strict, Sensible
             PROVE  \A r \in Requests : Active(r)' => Kept(run'[r], store'[run'[r].conv])
  BY <1>1 DEF StrictCopiesFollow, Sensible, Positive
<1>2. \A r \in Requests : Active(r) =>
         /\ Kept(run[r], store[run[r].conv])
         /\ run[r].conv \in Conversations
         /\ \A q \in Requests \ {r} : Active(q) => run[q].conv # run[r].conv
  BY HistoriesHeld DEF CopiesExtendRows, StrictCopiesFollow
<1>3. NoOrphanedCalls /\ \A r \in Requests : OpenInBatch(run'[r])
  BY <1>1 DEF OnlyTheBatchIsOpen, OpenIsKept, Sensible, Positive
<1> HIDE DEF Kept
<1>4. CASE Drops
  BY <1>2, <1>4 DEF Drops, Active
<1>5. CASE UNCHANGED <<store, run>>
  BY <1>2, <1>5 DEF Active
<1>6. ASSUME NEW r \in Requests, HStep(r), Step(r),
             NEW asked, NEW answered, Moves(r, asked, answered)
      PROVE  \A q \in Requests : Active(q)' => Kept(run'[q], store'[run'[q].conv])
  <2>1. /\ Active(r) /\ store' = store /\ run'[r].conv = run[r].conv
        /\ \A q \in Requests \ {r} : run'[q] = run[q]
    BY <1>6 DEF Moves
  <2>2. PICK row : row = store[run[r].conv]
    OBVIOUS
  <2>3. Stuck(run[r], row) => Stuck(run'[r], row)
    BY <1>3, <1>6, StuckMoves
  <2>4. Follows(run[r], row) => Follows(run'[r], row)
    BY <1>6, <2>2, FollowMoves
  <2>5. Kept(run'[r], store[run[r].conv])
    BY <1>2, <2>1, <2>2, <2>3, <2>4 DEF Kept
  <2> QED
    BY <1>2, <2>1, <2>5 DEF Active
<1>7. ASSUME NEW r \in Requests, Arrive(r), NEW c \in Conversations, Starts(r, c)
      PROVE  \A q \in Requests : Active(q)' => Kept(run'[q], store'[run'[q].conv])
  <2>1. /\ ~Active(r) /\ run'[r].conv = c
        /\ \A q \in Requests \ {r} : run'[q] = run[q]
        /\ \A e \in Conversations \ {c} : store'[e] = store[e]
        /\ (store' = store /\ Admitted(r, c)) \/ ~Exists(c)
    BY <1>7 DEF Starts, Active
  <2>2. \A q \in Requests \ {r} : Active(q) => run[q].conv # c
    BY <1>2, <2>1 DEF Admitted, CopiesExtendRows
  <2>3. Kept(run'[r], store'[c])
    BY <1>3, <1>7, StuckStarts DEF Kept
  <2>4. \A q \in Requests \ {r} : Active(q)' => Active(q)
    BY <2>1 DEF Active
  <2> QED
    BY <1>2, <2>1, <2>2, <2>3, <2>4
<1>8. ASSUME NEW r \in Requests, Persist(r)
      PROVE  \A q \in Requests : Active(q)' => Kept(run'[q], store'[run'[q].conv])
  <2>1. /\ Active(r) /\ ~Active(r)'
        /\ \A e \in Conversations \ {run[r].conv} : store'[e] = store[e]
        /\ \A q \in Requests \ {r} : run'[q] = run[q]
    BY <1>8, PersistFacts DEF Active
  <2> QED
    BY <1>2, <2>1 DEF Active
<1>9. HCrash => Drops
  BY EndedRun DEF HCrash, Crash, Drops
<1>10. ASSUME NEW r \in Requests, HStep(r)
       PROVE  \/ Drops \/ UNCHANGED <<store, run>> \/ Persist(r)
              \/ /\ Step(r)
                 /\ \E asked, answered \in SUBSET Calls : Moves(r, asked, answered)
  BY <1>10, StepRefines, HandlerKinds DEF TimePasses, vars
<1>11. ASSUME NEW r \in Requests, HArrive(r)
       PROVE  Drops \/ (Arrive(r) /\ \E c \in Conversations : Starts(r, c))
  BY <1>11, ArriveKinds DEF HArrive
<1> QED
  BY <1>4, <1>5, <1>6, <1>7, <1>8, <1>9, <1>10, <1>11 DEF HNext, hvars, Quiet, vars

(* What a write of a strict vendor's handler is in the protocol.           *)
LEMMA StrictProtocolNext ==
  ASSUME ~Overlap, SerialInv, TypeOK', OnlyTheBatchIsOpen, StrictCopiesFollow,
         config.provider \in Strict, Sensible, [HNext]_hvars
  PROVE  Protocol!Next \/ UNCHANGED Protocol!vars
<1>1. /\ TypeOK /\ CopiesAreSound /\ CopiesExtendRows /\ CallsHaveAHome
      /\ NoOrphanedCalls /\ \A r \in Requests : OpenInBatch(run[r])
  BY DEF SerialInv, Inv, OnlyTheBatchIsOpen, OpenIsKept
<1>2. CASE store' = store
  <2>1. \A d \in NeedsApproval : Outcome(d)' = Outcome(d)
    BY <1>2 DEF Outcome, Stored
  <2> QED
    BY <1>2, <2>1 DEF Protocol!vars
<1>3. ASSUME NEW r \in Requests, NEW c \in Conversations, Starts(r, c), store' # store
      PROVE  Protocol!Next
  <2>1. Protocol!Create(c)
    BY <1>1, <1>3, CreateRefines DEF Starts
  <2> QED
    BY <2>1 DEF Protocol!Next
<1>4. ASSUME NEW r \in Requests, Persist(r)
      PROVE  Protocol!Next
  <2>1. Active(r) /\ run[r].pc \in {"pausing", "finishing"}
    BY <1>1, <1>4, PersistFacts
  <2>2. Follows(run[r], store[run[r].conv])
    BY <2>1 DEF StrictCopiesFollow, Stuck
  <2> QED
    BY <1>1, <1>4, <2>2, PersistRefines
<1>5. Drops => store' = store
  BY DEF Drops
<1>6. ASSUME NEW r \in Requests, NEW asked, NEW answered, Moves(r, asked, answered)
      PROVE  store' = store
  BY <1>6 DEF Moves
<1>7. [Next]_vars
  BY NextOfAgent
<1> QED
  BY <1>1, <1>2, <1>3, <1>4, <1>5, <1>6, <1>7, StepKinds

LEMMA StrictFollowInit == HInit => StrictCopiesFollow
<1> SUFFICES ASSUME HInit PROVE StrictCopiesFollow
  OBVIOUS
<1>1. \A r \in Requests : ~Active(r)
  BY StartRun DEF HInit, Init, Active
<1> QED
  BY <1>1 DEF StrictCopiesFollow

LEMMA StrictFollow == HSpec => []StrictCopiesFollow
<1>1. /\ Inv /\ Inv' /\ HarnessTypeOK /\ (~Overlap => SerialInv)
      /\ OnlyTheBatchIsOpen /\ OnlyTheBatchIsOpen' /\ StrictCopiesFollow /\ [HNext]_hvars
      => StrictCopiesFollow'
  <2>1. Inv' => TypeOK'
    BY DEF Inv
  <2>2. Overlap => StrictCopiesFollow'
    BY DEF StrictCopiesFollow
  <2> QED
    BY <2>1, <2>2, StrictFollowNext DEF Inv, SerialInv
<1> QED
  BY <1>1, StrictFollowInit, BooksKept, SerialOnly, BatchesOpen, PTL DEF HSpec

(* Under a strict vendor, and with no two requests of one conversation at  *)
(* a time, every write is a step of the approval protocol although clients *)
(* chat on a pause: chat's missing status check costs a failed request and *)
(* never a decision (chat, approve, updateMessages, complete's refusal).   *)
THEOREM StrictProtocol == HSpec => StrictVendorsKeepProtocol
<1>1. /\ Inv' /\ (~Overlap => SerialInv) /\ OnlyTheBatchIsOpen /\ StrictCopiesFollow
      /\ [HNext]_hvars
      => [~Overlap /\ config.provider \in Strict /\ Sensible
            => Protocol!Next \/ UNCHANGED Protocol!vars]_hvars
  <2>1. Inv' => TypeOK'
    BY DEF Inv
  <2> QED
    BY <2>1, StrictProtocolNext
<1> QED
  BY <1>1, BooksKept, SerialOnly, BatchesOpen, StrictFollow, PTL
     DEF HSpec, StrictVendorsKeepProtocol

(* The inductive invariant behind these theorems, as the run checks it.    *)
THEOREM HarnessInvariance == HSpec => []HInv
<1>1. /\ Inv /\ HarnessTypeOK /\ BooksAreKept /\ TokensOvershootByOneAnswer
      /\ RepliesHeardTheModel /\ RecordedRequests /\ ArraysAreLive
      /\ OnlyTheBatchIsOpen /\ ResultsAreInPlace /\ StrictCopiesFollow
      => HInv
  BY DEF HInv
<1> QED
  BY <1>1, BooksKept, TokensBounded, RepliesHeard, RecordingsKept, BatchesOpen,
     ResultsInPlace, StrictFollow, PTL
=============================================================================
