------------------------- MODULE ConversationProofs -------------------------
(***************************************************************************)
(* What appending a message does to a history: lemmas about the operators  *)
(* of Conversation, for every set of calls and every tool table.           *)
(***************************************************************************)
EXTENDS Conversation, TLAPS, SequenceTheorems, FiniteSetTheorems

(* A message is of one of three roles, each with its fields.               *)
LEMMA MessageKinds ==
  ASSUME NEW m \in Messages
  PROVE  /\ m.role \in {"user", "assistant", "tool"}
         /\ m.role = "assistant" => m.toolCalls \in Seq(Calls)
         /\ m.role = "tool" => m.toolCallId \in Calls
BY DEF Messages, User

(* The index facts about Append that the lemmas below use.                 *)
LEMMA AppendIndex ==
  ASSUME NEW h \in Histories, NEW m \in Messages
  PROVE  LET g == Append(h, m)
         IN  /\ g \in Histories
             /\ Len(h) \in Nat /\ DOMAIN h = 1..Len(h)
             /\ DOMAIN g = 1..(Len(h) + 1)
             /\ \A i \in DOMAIN h : g[i] = h[i]
             /\ g[Len(h) + 1] = m
BY DEF Histories

(* The answer of a pending call keeps the history well formed, answers     *)
(* that call and no other, and requests nothing.                           *)
LEMMA AppendAnswer ==
  ASSUME NEW h \in Histories, NEW c \in Pending(h), WellFormed(h),
         NEW content \in {"result", "REJECTED_BY_USER"}
  PROVE  LET g == Append(h, ToolMessage(c, content))
         IN  /\ g \in Histories /\ WellFormed(g)
             /\ Answered(g) = Answered(h) \cup {c}
             /\ Requested(g) = Requested(h)
<1> DEFINE m == ToolMessage(c, content)
           g == Append(h, m)
<1>1. c \in Calls /\ m \in Messages /\ m.role = "tool" /\ m.toolCallId = c
  BY DEF Pending, Requested, Messages, ToolMessage
<1>2. /\ g \in Histories /\ Len(h) \in Nat
      /\ DOMAIN h = 1..Len(h) /\ DOMAIN g = 1..(Len(h) + 1)
      /\ \A i \in DOMAIN h : g[i] = h[i]
      /\ g[Len(h) + 1] = m
  BY <1>1, AppendIndex
<1> HIDE DEF m, g
<1>3. Answered(g) = Answered(h) \cup {c}
  BY <1>1, <1>2 DEF Answered, IsAnswer
<1>4. Requested(g) = Requested(h)
  BY <1>1, <1>2 DEF Requested, IsRequest
<1>5. WellFormed(g)
  <2>1. PICK k \in DOMAIN h : IsRequest(h[k], c)
    BY DEF Pending, Requested
  <2>2. \A i \in DOMAIN h : h[i].role = "tool" => h[i].toolCallId # c
    BY <1>1 DEF Pending, Answered, IsAnswer
  <2> QED
    BY <1>1, <1>2, <2>1, <2>2 DEF WellFormed
<1> QED
  BY <1>2, <1>3, <1>4, <1>5 DEF g, m

(* A user turn changes neither the requests nor the answers.               *)
LEMMA AppendUser ==
  ASSUME NEW h \in Histories, WellFormed(h)
  PROVE  LET g == Append(h, User)
         IN  /\ g \in Histories /\ WellFormed(g)
             /\ Answered(g) = Answered(h)
             /\ Requested(g) = Requested(h)
<1> DEFINE g == Append(h, User)
<1>1. User \in Messages /\ User.role = "user"
  BY DEF Messages, User
<1>2. /\ g \in Histories /\ Len(h) \in Nat
      /\ DOMAIN h = 1..Len(h) /\ DOMAIN g = 1..(Len(h) + 1)
      /\ \A i \in DOMAIN h : g[i] = h[i]
      /\ g[Len(h) + 1] = User
  BY <1>1, AppendIndex
<1> HIDE DEF g
<1>3. Answered(g) = Answered(h) /\ Requested(g) = Requested(h)
  BY <1>1, <1>2 DEF Answered, IsAnswer, Requested, IsRequest
<1>4. WellFormed(g)
  BY <1>1, <1>2 DEF WellFormed
<1> QED
  BY <1>2, <1>3, <1>4 DEF g

(* An assistant turn requests its calls and answers nothing.               *)
LEMMA AppendAssistant ==
  ASSUME NEW h \in Histories, WellFormed(h), NEW batch \in Seq(Calls)
  PROVE  LET g == Append(h, Assistant(batch))
         IN  /\ g \in Histories /\ WellFormed(g)
             /\ Answered(g) = Answered(h)
             /\ Requested(g) = Requested(h) \cup Range(batch)
<1> DEFINE m == Assistant(batch)
           g == Append(h, m)
<1>1. m \in Messages /\ m.role = "assistant" /\ m.toolCalls = batch
  BY DEF Messages, Assistant
<1>2. /\ g \in Histories /\ Len(h) \in Nat
      /\ DOMAIN h = 1..Len(h) /\ DOMAIN g = 1..(Len(h) + 1)
      /\ \A i \in DOMAIN h : g[i] = h[i]
      /\ g[Len(h) + 1] = m
  BY <1>1, AppendIndex
<1>3. Range(batch) \subseteq Calls
  BY DEF Range
<1> HIDE DEF m, g
<1>4. Answered(g) = Answered(h)
  BY <1>1, <1>2 DEF Answered, IsAnswer
<1>5. Requested(g) = Requested(h) \cup Range(batch)
  BY <1>1, <1>2, <1>3 DEF Requested, IsRequest
<1>6. WellFormed(g)
  BY <1>1, <1>2 DEF WellFormed
<1> QED
  BY <1>2, <1>4, <1>5, <1>6 DEF g, m

(* The results of pending calls, pushed together, answer exactly them.     *)
LEMMA AppendResults ==
  ASSUME NEW h \in Histories, WellFormed(h),
         NEW S \in SUBSET Pending(h), NEW n \in Nat,
         NEW s \in Bijection(1..n, S)
  PROVE  LET g == h \o [i \in DOMAIN s |-> ToolMessage(s[i], "result")]
         IN  /\ g \in Histories /\ WellFormed(g)
             /\ Answered(g) = Answered(h) \cup S
             /\ Requested(g) = Requested(h)
<1> DEFINE t == [i \in DOMAIN s |-> ToolMessage(s[i], "result")]
           g == h \o t
<1>1. /\ s \in [1..n -> S] /\ DOMAIN s = 1..n
      /\ \A i, j \in 1..n : s[i] = s[j] => i = j
      /\ \A c \in S : \E i \in 1..n : s[i] = c
  BY DEF Bijection, Injection, Surjection, IsInjective
<1>2. S \subseteq Calls
  BY DEF Pending, Requested
<1>3. t \in Histories /\ Len(t) = n
  <2>1. \A i \in 1..n : ToolMessage(s[i], "result") \in Messages
    BY <1>1, <1>2 DEF Messages, ToolMessage
  <2>2. t \in [1..n -> Messages]
    BY <1>1, <2>1
  <2> QED
    BY <2>2 DEF Histories
<1>4. \A i \in 1..n : t[i].role = "tool" /\ t[i].toolCallId = s[i]
  BY <1>1 DEF ToolMessage
<1>5. /\ g \in Histories /\ Len(h) \in Nat
      /\ DOMAIN h = 1..Len(h) /\ DOMAIN g = 1..(Len(h) + n)
      /\ \A i \in DOMAIN h : g[i] = h[i]
      /\ \A i \in 1..n : g[Len(h) + i] = t[i]
  BY <1>3 DEF Histories
<1> HIDE DEF t, g
<1>6. \A i \in DOMAIN g \ DOMAIN h :
         \E k \in 1..n : /\ i = Len(h) + k /\ s[k] \in S
                         /\ g[i].role = "tool" /\ g[i].toolCallId = s[k]
  <2> SUFFICES ASSUME NEW i \in DOMAIN g \ DOMAIN h
               PROVE  \E k \in 1..n :
                         /\ i = Len(h) + k /\ s[k] \in S
                         /\ g[i].role = "tool" /\ g[i].toolCallId = s[k]
    OBVIOUS
  <2>1. i - Len(h) \in 1..n /\ i = Len(h) + (i - Len(h))
    BY <1>5
  <2>2. g[i] = t[i - Len(h)] /\ s[i - Len(h)] \in S
    BY <1>1, <1>5, <2>1
  <2> QED
    BY <1>4, <2>1, <2>2
<1>7. Answered(g) = Answered(h) \cup S
  <2>1. ASSUME NEW c \in Answered(g) PROVE c \in Answered(h) \cup S
    <3>1. PICK i \in DOMAIN g : g[i].role = "tool" /\ g[i].toolCallId = c
      BY <2>1 DEF Answered, IsAnswer
    <3>2. CASE i \in DOMAIN h
      BY <1>5, <2>1, <3>1, <3>2 DEF Answered, IsAnswer
    <3>3. CASE i \notin DOMAIN h
      BY <1>6, <3>1, <3>3
    <3> QED
      BY <3>2, <3>3
  <2>2. ASSUME NEW c \in Answered(h) PROVE c \in Answered(g)
    BY <1>5, <2>2 DEF Answered, IsAnswer
  <2>3. ASSUME NEW c \in S PROVE c \in Answered(g)
    <3>1. PICK i \in 1..n : s[i] = c
      BY <1>1
    <3>2. /\ Len(h) + i \in DOMAIN g
          /\ g[Len(h) + i].role = "tool" /\ g[Len(h) + i].toolCallId = c
      BY <1>4, <1>5, <3>1
    <3> QED
      BY <1>2, <3>2 DEF Answered, IsAnswer
  <2> QED
    BY <2>1, <2>2, <2>3
<1>8. Requested(g) = Requested(h)
  <2>1. \A i \in DOMAIN g \ DOMAIN h : g[i].role # "assistant"
    BY <1>6
  <2> QED
    BY <1>5, <2>1 DEF Requested, IsRequest
<1>9. WellFormed(g)
  <2>1. ASSUME NEW i \in DOMAIN g, g[i].role = "tool"
        PROVE  \E j \in 1..(i-1) : IsRequest(g[j], g[i].toolCallId)
    <3>1. CASE i \in DOMAIN h
      <4>1. PICK j \in 1..(i-1) : IsRequest(h[j], h[i].toolCallId)
        BY <1>5, <2>1, <3>1 DEF WellFormed
      <4> QED
        BY <1>5, <3>1, <4>1
    <3>2. CASE i \notin DOMAIN h
      <4>1. g[i].toolCallId \in S
        BY <1>6, <3>2
      <4>2. PICK k \in DOMAIN h : IsRequest(h[k], g[i].toolCallId)
        BY <4>1 DEF Pending, Requested
      <4>3. k \in 1..(i-1)
        BY <1>5, <2>1, <3>2, <4>2
      <4> QED
        BY <1>5, <4>2, <4>3
    <3> QED
      BY <3>1, <3>2
  <2>2. \A i \in DOMAIN h : h[i].role = "tool" => h[i].toolCallId \notin S
    BY <1>2 DEF Pending, Answered, IsAnswer
  <2>3. ASSUME NEW i \in DOMAIN g, NEW j \in DOMAIN g,
               g[i].role = "tool", g[j].role = "tool",
               g[i].toolCallId = g[j].toolCallId
        PROVE  i = j
    <3>1. CASE i \in DOMAIN h /\ j \in DOMAIN h
      BY <1>5, <2>3, <3>1 DEF WellFormed
    <3>2. CASE i \notin DOMAIN h /\ j \notin DOMAIN h
      BY <1>1, <1>6, <2>3, <3>2
    <3>3. CASE i \in DOMAIN h /\ j \notin DOMAIN h
      BY <1>5, <1>6, <2>2, <2>3, <3>3
    <3>4. CASE i \notin DOMAIN h /\ j \in DOMAIN h
      BY <1>5, <1>6, <2>2, <2>3, <3>4
    <3> QED
      BY <3>1, <3>2, <3>3, <3>4
  <2> QED
    BY <2>1, <2>3 DEF WellFormed
<1> QED
  BY <1>5, <1>7, <1>8, <1>9 DEF g, t

(* Where the messages of a concatenation come from.                        *)
LEMMA Concatenation ==
  ASSUME NEW h \in Histories, NEW t \in Histories, NEW i \in DOMAIN (h \o t)
  PROVE  \/ i \in DOMAIN h /\ (h \o t)[i] = h[i]
         \/ \E k \in DOMAIN t : (h \o t)[i] = t[k]
<1>1. /\ Len(h) \in Nat /\ DOMAIN h = 1..Len(h)
      /\ Len(t) \in Nat /\ DOMAIN t = 1..Len(t)
      /\ DOMAIN (h \o t) = 1..(Len(h) + Len(t))
      /\ \A k \in 1..Len(h) : (h \o t)[k] = h[k]
      /\ \A k \in 1..Len(t) : (h \o t)[Len(h) + k] = t[k]
  BY DEF Histories
<1>2. CASE i \in DOMAIN h
  BY <1>1, <1>2
<1>3. CASE i \notin DOMAIN h
  <2>1. i - Len(h) \in 1..Len(t) /\ i = Len(h) + (i - Len(h))
    BY <1>1, <1>3
  <2> QED
    BY <1>1, <2>1
<1> QED
  BY <1>2, <1>3

-----------------------------------------------------------------------------
(* The order in which a history requests calls.                            *)

(* A non-empty set of naturals has a least element.                        *)
LEMMA LeastNatural ==
  ASSUME NEW T \in SUBSET Nat, T # {}
  PROVE  \E n \in T : \A m \in T : n <= m
<1> DEFINE R == OpToRel(<, Nat)
<1>1. \A m, n \in Nat : <<m, n>> \in R <=> m < n
  BY DEF OpToRel
<1>2. IsWellFoundedOn(R, Nat)
  BY NatLessThanWellFounded
<1> HIDE DEF R
<1>3. PICK n \in T : \A m \in T : <<m, n>> \notin R
  BY <1>2, WFMin
<1>4. ASSUME NEW m \in T
      PROVE  n <= m
  <2>1. m \in Nat /\ n \in Nat /\ ~ (m < n)
    BY <1>1, <1>3
  <2> QED
    BY <2>1
<1> QED
  BY <1>4

(* A call is next among S when no call of S comes in an earlier turn, or   *)
(* earlier in the same turn.                                               *)
LEMMA NextExists ==
  ASSUME NEW h \in Histories, NEW S \in SUBSET Requested(h), S # {}
  PROVE  \E c \in S : IsNext(h, c, S)
<1> DEFINE Turns == { i \in DOMAIN h : \E c \in S : IsRequest(h[i], c) }
<1>1. Turns \in SUBSET Nat /\ Turns # {}
  BY DEF Requested, Histories
<1>2. PICK i \in Turns : \A j \in Turns : i <= j
  BY <1>1, LeastNatural
<1> DEFINE calls == h[i].toolCalls
<1>3. i \in DOMAIN h /\ h[i].role = "assistant" /\ calls \in Seq(Calls)
  <2>1. i \in DOMAIN h /\ h[i].role = "assistant" /\ h[i] \in Messages
    BY <1>2 DEF IsRequest, Histories
  <2> QED
    BY <2>1, MessageKinds DEF Messages, User
<1> DEFINE Places == { k \in DOMAIN calls : calls[k] \in S }
<1>4. Places \in SUBSET Nat /\ Places # {}
  BY <1>2, <1>3 DEF IsRequest, Range
<1>5. PICK k \in Places : \A l \in Places : k <= l
  <2> HIDE DEF Places
  <2> QED
    BY <1>4, LeastNatural
<1> DEFINE c == calls[k]
<1>6. k \in DOMAIN calls /\ c \in S
  BY <1>5
<1>7. IsRequest(h[i], c)
  BY <1>3, <1>6 DEF IsRequest, Range
<1>8. ASSUME NEW d \in S \ {c}
      PROVE  Precedes(h, c, d)
  <2>1. PICK j \in DOMAIN h : IsRequest(h[j], d)
    BY <1>8 DEF Requested
  <2>2. j \in Turns /\ i <= j /\ i \in Int /\ j \in Int
    BY <1>1, <1>2, <2>1
  <2>3. CASE i < j
    BY <1>3, <1>7, <2>1, <2>3 DEF Precedes
  <2>4. CASE i = j
    <3>1. PICK l \in DOMAIN calls : calls[l] = d
      BY <2>1, <2>4 DEF IsRequest, Range
    <3>2. l \in Places /\ l # k /\ k <= l /\ k \in Int /\ l \in Int
      BY <1>4, <1>5, <3>1
    <3>3. k < l
      BY <3>2
    <3> QED
      BY <1>3, <1>6, <1>7, <2>1, <2>4, <3>1, <3>3 DEF Precedes
  <2> QED
    BY <2>2, <2>3, <2>4
<1> QED
  BY <1>6, <1>8 DEF IsNext

(* One call before the others, which are in order already.                 *)
LEMMA OrderExtends ==
  ASSUME NEW h \in Histories, NEW S \in SUBSET Requested(h),
         NEW c \in S, IsNext(h, c, S), NEW s \in InOrder(h, S \ {c})
  PROVE  InOrder(h, S) # {}
<1>1. IsFiniteSet(S)
  BY CallsAssumption, FS_Subset DEF Requested
<1> DEFINE n == Cardinality(S)
<1>2. n \in Nat /\ n > 0 /\ Cardinality(S \ {c}) = n - 1
  BY <1>1, FS_CardinalityType, FS_EmptySet, FS_RemoveElement
<1> HIDE DEF n
<1> DEFINE t == [i \in 1..n |-> IF i = 1 THEN c ELSE s[i - 1]]
<1>3. /\ s \in [1..(n - 1) -> S \ {c}]
      /\ \A i, j \in 1..(n - 1) : s[i] = s[j] => i = j
      /\ \A d \in S \ {c} : \E i \in 1..(n - 1) : s[i] = d
      /\ \A i, j \in 1..(n - 1) : i < j => Precedes(h, s[i], s[j])
  <2>1. s \in Bijection(1..(n - 1), S \ {c})
    BY <1>2 DEF InOrder
  <2>2. s \in [1..(n - 1) -> S \ {c}]
    BY <2>1 DEF Bijection, Injection, IsInjective, Surjection
  <2>3. DOMAIN s = 1..(n - 1)
    BY <2>2
  <2>4. \A i, j \in 1..(n - 1) : i < j => Precedes(h, s[i], s[j])
    BY <2>3 DEF InOrder
  <2> QED
    BY <2>1, <2>2, <2>3, <2>4 DEF Bijection, Injection, IsInjective, Surjection
<1>4. \A i \in 1..n : i # 1 => i - 1 \in 1..(n - 1)
  BY <1>2
<1>5. t \in [1..n -> S]
  BY <1>3, <1>4
<1>6. ASSUME NEW i \in 1..n, NEW j \in 1..n, t[i] = t[j]
      PROVE  i = j
  <2>1. CASE i = 1 /\ j # 1
    BY <1>3, <1>4, <1>6, <2>1
  <2>2. CASE i # 1 /\ j = 1
    BY <1>3, <1>4, <1>6, <2>2
  <2>3. CASE i # 1 /\ j # 1
    <3>1. s[i - 1] = s[j - 1] /\ i - 1 \in 1..(n - 1) /\ j - 1 \in 1..(n - 1)
      BY <1>4, <1>6, <2>3
    <3>2. i - 1 = j - 1
      BY <1>3, <3>1
    <3> QED
      BY <1>2, <3>2
  <2> QED
    BY <2>1, <2>2, <2>3
<1>7. ASSUME NEW d \in S
      PROVE  \E i \in 1..n : t[i] = d
  <2>1. CASE d = c
    BY <1>2, <2>1
  <2>2. CASE d # c
    <3>1. PICK i \in 1..(n - 1) : s[i] = d
      BY <1>3, <2>2
    <3>2. i + 1 \in 1..n /\ i + 1 # 1 /\ (i + 1) - 1 = i
      BY <1>2
    <3> QED
      BY <3>1, <3>2
  <2> QED
    BY <2>1, <2>2
<1>8. ASSUME NEW i \in 1..n, NEW j \in 1..n, i < j
      PROVE  Precedes(h, t[i], t[j])
  <2>1. j # 1 /\ j - 1 \in 1..(n - 1)
    BY <1>2, <1>8
  <2>2. CASE i = 1
    <3>1. t[j] \in S \ {c} /\ t[i] = c
      BY <1>3, <2>1, <2>2
    <3> QED
      BY <3>1 DEF IsNext
  <2>3. CASE i # 1
    <3>1. i - 1 \in 1..(n - 1) /\ i - 1 < j - 1
      BY <1>2, <1>8, <2>3
    <3> QED
      BY <1>3, <2>1, <2>3, <3>1
  <2> QED
    BY <2>2, <2>3
<1>9. t \in Bijection(1..n, S)
  BY <1>5, <1>6, <1>7 DEF Bijection, Injection, IsInjective, Surjection
<1>10. DOMAIN t = 1..n
  OBVIOUS
<1> HIDE DEF t
<1>11. t \in InOrder(h, S)
  BY <1>8, <1>9, <1>10 DEF InOrder, n
<1> QED
  BY <1>11

(* Requested calls can be listed in the order of the history: a smallest   *)
(* set for which they cannot would lack a next call.                       *)
LEMMA OrderExists ==
  ASSUME NEW h \in Histories, NEW S \in SUBSET Requested(h)
  PROVE  InOrder(h, S) # {}
<1> DEFINE Unordered == { U \in SUBSET Requested(h) : InOrder(h, U) = {} }
           Sizes == { n \in Nat : \E U \in Unordered : Cardinality(U) = n }
<1>1. \A U \in SUBSET Requested(h) : IsFiniteSet(U) /\ Cardinality(U) \in Nat
  <2>1. IsFiniteSet(Requested(h))
    BY CallsAssumption, FS_Subset DEF Requested
  <2> QED
    BY <2>1, FS_Subset, FS_CardinalityType
<1>2. SUFFICES ASSUME Sizes # {} PROVE FALSE
  BY <1>1
<1>3. PICK n \in Sizes : \A m \in Sizes : n <= m
  <2>1. Sizes \in SUBSET Nat
    OBVIOUS
  <2> HIDE DEF Sizes
  <2> QED
    BY <1>2, <2>1, LeastNatural
<1>4. PICK U \in Unordered : Cardinality(U) = n
  BY <1>3
<1>5. U # {}
  <2>1. ASSUME U = {}
        PROVE  FALSE
    <3>1. Cardinality(U) = 0 /\ 1..0 = {}
      BY <2>1, FS_EmptySet
    <3>2. << >> \in Bijection(1..0, {}) /\ DOMAIN << >> = {}
      BY <3>1 DEF Bijection, Injection, IsInjective, Surjection
    <3>3. << >> \in InOrder(h, U)
      BY <2>1, <3>1, <3>2 DEF InOrder
    <3> QED
      BY <1>4, <3>3
  <2> QED
    BY <2>1
<1>6. PICK c \in U : IsNext(h, c, U)
  BY <1>4, <1>5, NextExists
<1>7. InOrder(h, U \ {c}) # {}
  <2>1. U \ {c} \in SUBSET Requested(h) /\ Cardinality(U \ {c}) = n - 1
    BY <1>1, <1>4, <1>6, FS_RemoveElement
  <2>2. Cardinality(U \ {c}) \in Nat /\ ~ (n <= n - 1)
    BY <1>1, <1>3, <2>1
  <2> QED
    BY <1>3, <2>1, <2>2
<1>8. InOrder(h, U) # {}
  BY <1>4, <1>6, <1>7, OrderExtends
<1> QED
  BY <1>4, <1>8

(* Two calls of a history that requests no call twice do not precede each  *)
(* other.                                                                  *)
LEMMA OneWay ==
  ASSUME NEW h \in Histories, RequestedOnce(h), NEW c, NEW d,
         Precedes(h, c, d), Precedes(h, d, c)
  PROVE  FALSE
<1>1. \A i \in DOMAIN h : i \in Nat /\ (h[i].role = "assistant" => h[i].toolCalls \in Seq(Calls))
  BY MessageKinds DEF Histories
<1> DEFINE At(i, k, e) == /\ i \in DOMAIN h /\ h[i].role = "assistant"
                          /\ k \in DOMAIN h[i].toolCalls /\ h[i].toolCalls[k] = e
<1>2. \A i, j, k, l, e : At(i, k, e) /\ At(j, l, e) => i = j /\ k = l
  BY DEF RequestedOnce
<1>3. \A i, k, e : At(i, k, e) => i \in Nat /\ k \in Nat
  BY <1>1
<1>4. ASSUME NEW e, NEW f, Precedes(h, e, f)
      PROVE  \E i, j, k, l : At(i, k, e) /\ At(j, l, f) /\ (i < j \/ (i = j /\ k < l))
  <2>1. PICK i \in DOMAIN h, j \in DOMAIN h :
          /\ IsRequest(h[i], e) /\ IsRequest(h[j], f)
          /\ \/ i < j
             \/ /\ i = j
                /\ \E k, l \in DOMAIN h[i].toolCalls :
                      k < l /\ h[i].toolCalls[k] = e /\ h[i].toolCalls[l] = f
    BY <1>4 DEF Precedes
  <2>2. h[i].role = "assistant" /\ h[j].role = "assistant"
    BY <2>1 DEF IsRequest
  <2>3. CASE i < j
    <3>1. PICK k \in DOMAIN h[i].toolCalls : h[i].toolCalls[k] = e
      BY <2>1 DEF IsRequest, Range
    <3>2. PICK l \in DOMAIN h[j].toolCalls : h[j].toolCalls[l] = f
      BY <2>1 DEF IsRequest, Range
    <3>3. At(i, k, e) /\ At(j, l, f)
      BY <2>2, <3>1, <3>2
    <3> QED
      BY <2>3, <3>3
  <2>4. CASE ~ (i < j)
    <3>1. PICK k \in DOMAIN h[i].toolCalls, l \in DOMAIN h[i].toolCalls :
            k < l /\ h[i].toolCalls[k] = e /\ h[i].toolCalls[l] = f
      BY <2>1, <2>4
    <3>2. At(i, k, e) /\ At(j, l, f) /\ i = j
      BY <2>1, <2>2, <2>4, <3>1
    <3> QED
      BY <3>1, <3>2
  <2> QED
    BY <2>3, <2>4
<1> HIDE DEF At
<1>5. PICK i, j, k, l : At(i, k, c) /\ At(j, l, d) /\ (i < j \/ (i = j /\ k < l))
  BY <1>4
<1>6. PICK i2, j2, k2, l2 :
        At(i2, k2, d) /\ At(j2, l2, c) /\ (i2 < j2 \/ (i2 = j2 /\ k2 < l2))
  BY <1>4
<1>7. i2 = j /\ k2 = l /\ j2 = i /\ l2 = k
  BY <1>2, <1>5, <1>6
<1>8. i \in Nat /\ j \in Nat /\ k \in Nat /\ l \in Nat
  BY <1>3, <1>5
<1> QED
  BY <1>5, <1>6, <1>7, <1>8

LEMMA NextIsOne ==
  ASSUME NEW h \in Histories, RequestedOnce(h), NEW S,
         NEW c, IsNext(h, c, S), NEW d, IsNext(h, d, S)
  PROVE  c = d
BY OneWay DEF IsNext

(* Two listings in the order of the history first differ nowhere: each     *)
(* would have the other's call later.                                      *)
LEMMA OrderIsOne ==
  ASSUME NEW h \in Histories, RequestedOnce(h), NEW S \in SUBSET Calls,
         NEW s \in InOrder(h, S), NEW t \in InOrder(h, S)
  PROVE  s = t
<1> DEFINE n == Cardinality(S)
<1>1. n \in Nat
  BY CallsAssumption, FS_Subset, FS_CardinalityType
<1> DEFINE Lists(u) ==
             /\ u \in [1..n -> S] /\ DOMAIN u = 1..n
             /\ \A i, j \in 1..n : u[i] = u[j] => i = j
             /\ \A e \in S : \E i \in 1..n : u[i] = e
             /\ \A i, j \in 1..n : i < j => Precedes(h, u[i], u[j])
<1>2. ASSUME NEW u \in InOrder(h, S)
      PROVE  Lists(u)
  <2>1. u \in Bijection(1..n, S)
    BY DEF InOrder
  <2>2. u \in [1..n -> S] /\ DOMAIN u = 1..n
    BY <2>1 DEF Bijection, Injection, IsInjective, Surjection
  <2>3. \A i, j \in 1..n : i < j => Precedes(h, u[i], u[j])
    BY <2>2 DEF InOrder
  <2> QED
    BY <2>1, <2>2, <2>3 DEF Bijection, Injection, IsInjective, Surjection
<1>3. Lists(s) /\ Lists(t)
  BY <1>2
<1> HIDE DEF n
<1> DEFINE Differ == { i \in 1..n : s[i] # t[i] }
<1>4. SUFFICES ASSUME Differ # {} PROVE FALSE
  <2>1. ASSUME Differ = {}
        PROVE  s = t
    <3>1. \A i \in 1..n : s[i] = t[i]
      BY <2>1
    <3>2. s = [i \in 1..n |-> s[i]] /\ t = [i \in 1..n |-> t[i]]
      BY <1>3
    <3> HIDE DEF Lists, Differ
    <3>3. [i \in 1..n |-> s[i]] = [i \in 1..n |-> t[i]]
      BY <3>1
    <3> QED
      BY <3>2, <3>3
  <2> QED
    BY <2>1
<1>5. Differ \in SUBSET Nat
  BY <1>1
<1>6. PICK i \in Differ : \A j \in Differ : i <= j
  <2> HIDE DEF Differ
  <2> QED
    BY <1>4, <1>5, LeastNatural
<1>7. i \in 1..n /\ s[i] # t[i] /\ \A j \in 1..n : j < i => s[j] = t[j]
  <2>1. i \in 1..n /\ s[i] # t[i]
    BY <1>6
  <2>2. ASSUME NEW j \in 1..n, j < i
        PROVE  s[j] = t[j]
    <3>1. ~ (i <= j)
      BY <1>1, <2>1, <2>2
    <3> QED
      BY <1>6, <3>1
  <2> QED
    BY <2>1, <2>2
<1>8. PICK j \in 1..n : t[j] = s[i]
  BY <1>3, <1>7
<1>9. PICK k \in 1..n : s[k] = t[i]
  BY <1>3, <1>7
<1>10. i < j
  <2>1. j # i
    BY <1>7, <1>8
  <2>2. ~ (j < i)
    <3>1. ASSUME j < i PROVE FALSE
      <4>1. s[j] = s[i]
        BY <1>7, <1>8, <3>1
      <4> QED
        BY <1>3, <1>7, <2>1, <4>1
    <3> QED
      BY <3>1
  <2> QED
    BY <1>1, <1>7, <2>1, <2>2
<1>11. i < k
  <2>1. k # i
    BY <1>7, <1>9
  <2>2. ~ (k < i)
    <3>1. ASSUME k < i PROVE FALSE
      <4>1. t[k] = t[i]
        BY <1>7, <1>9, <3>1
      <4> QED
        BY <1>3, <1>7, <2>1, <4>1
    <3> QED
      BY <3>1
  <2> QED
    BY <1>1, <1>7, <2>1, <2>2
<1>12. Precedes(h, t[i], s[i])
  BY <1>3, <1>7, <1>8, <1>10
<1>13. Precedes(h, s[i], t[i])
  BY <1>3, <1>7, <1>9, <1>11
<1> QED
  BY <1>12, <1>13, OneWay

(* What does not add a turn of the assistant adds no request.              *)
LEMMA OnceKept ==
  ASSUME NEW h \in Histories, RequestedOnce(h), NEW g \in Histories,
         \A i \in DOMAIN g : g[i].role = "assistant" => i \in DOMAIN h /\ g[i] = h[i]
  PROVE  RequestedOnce(g)
<1> SUFFICES ASSUME NEW i \in DOMAIN g, NEW j \in DOMAIN g,
                    g[i].role = "assistant", g[j].role = "assistant"
             PROVE  \A k \in DOMAIN g[i].toolCalls, l \in DOMAIN g[j].toolCalls :
                       g[i].toolCalls[k] = g[j].toolCalls[l] => i = j /\ k = l
  BY DEF RequestedOnce
<1>1. i \in DOMAIN h /\ g[i] = h[i] /\ j \in DOMAIN h /\ g[j] = h[j]
  OBVIOUS
<1> QED
  BY <1>1 DEF RequestedOnce

LEMMA OnceAppend ==
  ASSUME NEW h \in Histories, RequestedOnce(h),
         NEW m \in Messages, m.role # "assistant"
  PROVE  RequestedOnce(Append(h, m))
<1> DEFINE g == Append(h, m)
<1>1. /\ g \in Histories /\ Len(h) \in Nat
      /\ DOMAIN h = 1..Len(h) /\ DOMAIN g = 1..(Len(h) + 1)
      /\ \A i \in DOMAIN h : g[i] = h[i]
      /\ g[Len(h) + 1] = m
  BY AppendIndex
<1> HIDE DEF g
<1>2. \A i \in DOMAIN g : g[i].role = "assistant" => i \in DOMAIN h /\ g[i] = h[i]
  BY <1>1
<1>3. RequestedOnce(g)
  BY <1>1, <1>2, OnceKept
<1> QED
  BY <1>3 DEF g

LEMMA OnceResults ==
  ASSUME NEW h \in Histories, RequestedOnce(h), NEW t \in Histories,
         \A i \in DOMAIN t : t[i].role # "assistant"
  PROVE  RequestedOnce(h \o t)
<1> DEFINE g == h \o t
<1>1. g \in Histories
  BY DEF Histories
<1>2. \A i \in DOMAIN g : g[i].role = "assistant" => i \in DOMAIN h /\ g[i] = h[i]
  BY Concatenation
<1> QED
  BY <1>1, <1>2, OnceKept

(* A turn that requests new calls, each once.                              *)
LEMMA OnceBatch ==
  ASSUME NEW h \in Histories, RequestedOnce(h), NEW batch \in Seq(Calls),
         \A k, l \in DOMAIN batch : batch[k] = batch[l] => k = l,
         Range(batch) \cap Requested(h) = {}
  PROVE  RequestedOnce(Append(h, Assistant(batch)))
<1> DEFINE m == Assistant(batch)
           g == Append(h, m)
<1>1. m \in Messages /\ m.role = "assistant" /\ m.toolCalls = batch
  BY DEF Messages, Assistant
<1>2. /\ g \in Histories /\ Len(h) \in Nat
      /\ DOMAIN h = 1..Len(h) /\ DOMAIN g = 1..(Len(h) + 1)
      /\ \A i \in DOMAIN h : g[i] = h[i]
      /\ g[Len(h) + 1] = m
  BY <1>1, AppendIndex
<1> HIDE DEF m, g
<1>3. ASSUME NEW i \in DOMAIN h, h[i].role = "assistant",
             NEW k \in DOMAIN h[i].toolCalls, NEW l \in DOMAIN batch
      PROVE  h[i].toolCalls[k] # batch[l]
  <2>1. h[i].toolCalls[k] \in Requested(h)
    <3>1. h[i].toolCalls \in Seq(Calls)
      BY <1>3, MessageKinds DEF Histories
    <3>2. h[i].toolCalls[k] \in Calls
      BY <3>1
    <3> QED
      BY <1>3, <3>2 DEF Requested, IsRequest, Range
  <2>2. batch[l] \in Range(batch)
    BY DEF Range
  <2> QED
    BY <2>1, <2>2
<1>4. ASSUME NEW i \in DOMAIN g, NEW j \in DOMAIN g,
             g[i].role = "assistant", g[j].role = "assistant",
             NEW k \in DOMAIN g[i].toolCalls, NEW l \in DOMAIN g[j].toolCalls,
             g[i].toolCalls[k] = g[j].toolCalls[l]
      PROVE  i = j /\ k = l
  <2>1. CASE i \in DOMAIN h /\ j \in DOMAIN h
    BY <1>2, <1>4, <2>1 DEF RequestedOnce
  <2>2. CASE i \in DOMAIN h /\ j \notin DOMAIN h
    <3>1. g[i] = h[i] /\ g[j].toolCalls = batch
      BY <1>1, <1>2, <2>2
    <3> QED
      BY <1>3, <1>4, <2>2, <3>1
  <2>3. CASE i \notin DOMAIN h /\ j \in DOMAIN h
    <3>1. g[j] = h[j] /\ g[i].toolCalls = batch
      BY <1>1, <1>2, <2>3
    <3> QED
      BY <1>3, <1>4, <2>3, <3>1
  <2>4. CASE i \notin DOMAIN h /\ j \notin DOMAIN h
    <3>1. i = j /\ g[i].toolCalls = batch
      BY <1>1, <1>2, <2>4
    <3> QED
      BY <1>4, <3>1
  <2> QED
    BY <2>1, <2>2, <2>3, <2>4
<1>5. RequestedOnce(g)
  BY <1>4 DEF RequestedOnce
<1> QED
  BY <1>5 DEF g, m

-----------------------------------------------------------------------------
(* The order in which read-only calls are answered.                        *)

(* A history that grows keeps the order of what it has requested.          *)
LEMMA PrecedesKept ==
  ASSUME NEW h, NEW g, DOMAIN h \subseteq DOMAIN g, \A i \in DOMAIN h : g[i] = h[i],
         NEW c, NEW d, Precedes(h, c, d)
  PROVE  Precedes(g, c, d)
<1>1. PICK i \in DOMAIN h, j \in DOMAIN h :
        /\ IsRequest(h[i], c) /\ IsRequest(h[j], d)
        /\ \/ i < j
           \/ /\ i = j
              /\ \E k, l \in DOMAIN h[i].toolCalls :
                    k < l /\ h[i].toolCalls[k] = c /\ h[i].toolCalls[l] = d
  BY DEF Precedes
<1>2. i \in DOMAIN g /\ j \in DOMAIN g /\ g[i] = h[i] /\ g[j] = h[j]
  OBVIOUS
<1> QED
  BY <1>1, <1>2 DEF Precedes

(* Any message but the result of a read-only call may be appended.         *)
LEMMA ReadsAppend ==
  ASSUME NEW h \in Histories, ReadsInOrder(h), NEW m \in Messages,
         m.role = "tool" => m.toolCallId \notin ReadOnly
  PROVE  ReadsInOrder(Append(h, m))
<1> DEFINE g == Append(h, m)
<1>1. /\ Len(h) \in Nat
      /\ DOMAIN h = 1..Len(h) /\ DOMAIN g = 1..(Len(h) + 1)
      /\ \A i \in DOMAIN h : g[i] = h[i]
      /\ g[Len(h) + 1] = m
  BY AppendIndex
<1> HIDE DEF g
<1>2. ASSUME NEW i \in DOMAIN g, NEW j \in DOMAIN g, i < j,
             g[i].role = "tool", g[j].role = "tool",
             g[i].toolCallId \in ReadOnly, g[j].toolCallId \in ReadOnly
      PROVE  Precedes(g, g[i].toolCallId, g[j].toolCallId)
  <2>1. i \in DOMAIN h /\ j \in DOMAIN h
    BY <1>1, <1>2
  <2>2. g[i] = h[i] /\ g[j] = h[j]
    BY <1>1, <2>1
  <2>3. Precedes(h, h[i].toolCallId, h[j].toolCallId)
    BY <1>2, <2>1, <2>2 DEF ReadsInOrder
  <2> QED
    BY <1>1, <2>2, <2>3, PrecedesKept
<1>3. ReadsInOrder(g)
  BY <1>2 DEF ReadsInOrder
<1> QED
  BY <1>3 DEF g

(* Results in the order of the batch may be appended directly after it:    *)
(* what was answered before was requested in an earlier turn.              *)
LEMMA ReadsResults ==
  ASSUME NEW h \in Histories, h # << >>, WellFormed(h), ReadsInOrder(h),
         h[Len(h)].role = "assistant",
         NEW S \in SUBSET Calls, S \subseteq Range(h[Len(h)].toolCalls),
         NEW s \in InOrder(h, S)
  PROVE  ReadsInOrder(h \o [i \in DOMAIN s |-> ToolMessage(s[i], "result")])
<1> DEFINE n == Cardinality(S)
           t == [i \in DOMAIN s |-> ToolMessage(s[i], "result")]
           g == h \o t
<1>1. n \in Nat
  BY CallsAssumption, FS_Subset, FS_CardinalityType
<1>2. /\ s \in [1..n -> S] /\ DOMAIN s = 1..n
      /\ \A i, j \in 1..n : i < j => Precedes(h, s[i], s[j])
  <2>1. s \in Bijection(1..n, S)
    BY DEF InOrder
  <2>2. s \in [1..n -> S] /\ DOMAIN s = 1..n
    BY <2>1 DEF Bijection, Injection, IsInjective, Surjection
  <2> QED
    BY <2>2 DEF InOrder
<1> HIDE DEF n
<1>3. /\ t \in [1..n -> Messages]
      /\ \A i \in 1..n : t[i].toolCallId = s[i] /\ t[i].role = "tool"
  BY <1>2 DEF ToolMessage, Messages
<1> HIDE DEF t
<1>4. t \in Histories /\ Len(t) = n /\ DOMAIN t = 1..n
  BY <1>1, <1>3 DEF Histories
<1>5. /\ Len(h) \in Nat /\ Len(h) > 0 /\ DOMAIN h = 1..Len(h)
      /\ DOMAIN g = 1..(Len(h) + n)
      /\ \A i \in DOMAIN h : g[i] = h[i]
      /\ \A k \in 1..n : g[Len(h) + k] = t[k]
  BY <1>1, <1>4 DEF Histories
<1> HIDE DEF g
<1>6. \A c, d : Precedes(h, c, d) => Precedes(g, c, d)
  BY <1>1, <1>5, PrecedesKept
<1>7. ASSUME NEW i \in DOMAIN g, NEW j \in DOMAIN g, i < j,
             g[i].role = "tool", g[j].role = "tool",
             g[i].toolCallId \in ReadOnly, g[j].toolCallId \in ReadOnly
      PROVE  Precedes(g, g[i].toolCallId, g[j].toolCallId)
  <2>1. CASE j \in DOMAIN h
    <3>1. i \in DOMAIN h /\ g[i] = h[i] /\ g[j] = h[j]
      BY <1>5, <1>7, <2>1
    <3> QED
      BY <1>6, <1>7, <2>1, <3>1 DEF ReadsInOrder
  <2>2. CASE i \in DOMAIN h /\ j \notin DOMAIN h
    <3>1. j - Len(h) \in 1..n /\ j = Len(h) + (j - Len(h))
      BY <1>1, <1>5, <2>2
    <3>2. g[j].toolCallId = s[j - Len(h)] /\ s[j - Len(h)] \in S
      BY <1>2, <1>3, <1>5, <3>1
    <3>3. IsRequest(h[Len(h)], g[j].toolCallId)
      BY <3>2 DEF IsRequest
    <3>4. g[i] = h[i]
      BY <1>5, <2>2
    <3>5. PICK k \in 1..(i - 1) : IsRequest(h[k], g[i].toolCallId)
      BY <1>7, <2>2, <3>4 DEF WellFormed
    <3>6. k \in DOMAIN h /\ Len(h) \in DOMAIN h /\ k < Len(h)
      BY <1>5, <2>2, <3>5
    <3>7. Precedes(h, g[i].toolCallId, g[j].toolCallId)
      BY <3>3, <3>5, <3>6 DEF Precedes
    <3> QED
      BY <1>6, <3>7
  <2>3. CASE i \notin DOMAIN h /\ j \notin DOMAIN h
    <3>1. /\ i - Len(h) \in 1..n /\ i = Len(h) + (i - Len(h))
          /\ j - Len(h) \in 1..n /\ j = Len(h) + (j - Len(h))
          /\ i - Len(h) < j - Len(h)
      BY <1>1, <1>5, <1>7, <2>3
    <3>2. /\ g[i].toolCallId = s[i - Len(h)]
          /\ g[j].toolCallId = s[j - Len(h)]
      BY <1>3, <1>5, <3>1
    <3> QED
      BY <1>2, <1>6, <3>1, <3>2
  <2>4. i \notin DOMAIN h => j \notin DOMAIN h
    BY <1>5, <1>7
  <2> QED
    BY <2>1, <2>2, <2>3, <2>4
<1>8. ReadsInOrder(g)
  BY <1>7 DEF ReadsInOrder
<1> QED
  BY <1>8 DEF g, t
=============================================================================
