--------------------------- MODULE SessionsProofs ---------------------------
(***************************************************************************)
(* The inductive invariant of Sessions, and the safety properties it       *)
(* implies, for every number of requests, browsers, users and tokens,      *)
(* every interleaving, and every combination of faults.                    *)
(***************************************************************************)
EXTENDS Sessions, FiniteSetTheorems, TLAPS

(* Everything but the counting of sessions.                                *)
Base ==
    /\ TypeOK /\ TokenSpentOnce /\ RowsAreLive
    /\ \A r \in Requests : SoundHandler(req[r], rows, owner)

-----------------------------------------------------------------------------
(* The steps of one handler keep Base.                                     *)

(* The fields of a local state, spelled out for the provers.               *)
LEMMA HandlerFields ==
  ASSUME NEW x \in Handlers
  PROVE  /\ x.pc \in {"idle", "scanning", "checking", "deleting", "revoking",
                      "issuing", "answering", "done", "failed"}
         /\ x.kind \in {"none", "login", "refresh", "logout"}
         /\ x.browser \in Browsers \cup {"none"}
         /\ x.token \in Tokens \cup {"none"} /\ x.fresh \in Tokens \cup {"none"}
         /\ x.user \in Users \cup {"none"} /\ x.earlier \subseteq Tokens
BY DEF Handlers

(* A step of r that leaves the tables alone needs a sound new local state. *)
LEMMA LocalStep ==
  ASSUME Base, NEW r \in Requests, NEW x \in Handlers, SoundHandler(x, rows, owner), Becomes(r, x),
         UNCHANGED <<rows, expired, jar, owner, spent, rooted>>
  PROVE  Base'
<1>1. \A q \in Requests : req'[q] = IF q = r THEN x ELSE req[q]
  BY DEF Base, TypeOK, Becomes
<1>2. TypeOK'
  BY DEF Base, TypeOK, Becomes
<1>3. TokenSpentOnce' /\ RowsAreLive'
  BY DEF Base, TokenSpentOnce, RowsAreLive
<1>4. \A q \in Requests : SoundHandler(req[q], rows, owner)'
  BY <1>1 DEF Base, SoundHandler
<1> QED
  BY <1>2, <1>3, <1>4 DEF Base

(* The state a handler starts in holds nothing.                            *)
LEMMA StartSound ==
  Start \in Handlers /\ SoundHandler(Start, rows, owner)
BY DEF Start, Handlers, SoundHandler

LEMMA ArriveBase ==
  ASSUME Base, NEW r \in Requests, Arrive(r)
  PROVE  Base'
<1>1. CASE Unauthorized(r)
  <2> DEFINE x == [Start EXCEPT !.pc = "failed"]
  <2>1. x \in Handlers /\ SoundHandler(x, rows, owner)
    BY DEF Start, Handlers, SoundHandler
  <2> QED
    BY <1>1, <2>1, LocalStep DEF Unauthorized
<1>2. ASSUME NEW b \in Browsers, NEW u \in Users, Login(r, b, u)
      PROVE  Base'
  <2> DEFINE x == [Start EXCEPT !.pc = "issuing", !.kind = "login",
                                !.browser = b, !.user = u]
  <2>1. x \in Handlers /\ SoundHandler(x, rows, owner)
    BY SessionsAssumption DEF Start, Handlers, SoundHandler
  <2> QED
    BY <1>2, <2>1, LocalStep DEF Login
<1>3. ASSUME NEW b \in Browsers, Refresh(r, b)
      PROVE  Base'
  <2> DEFINE x == [Start EXCEPT !.pc = "scanning", !.kind = "refresh",
                                !.browser = b, !.token = jar[b]]
  <2>1. jar[b] \in Tokens /\ owner[jar[b]] # "none"
    BY <1>3 DEF Refresh, Base, TypeOK, RowsAreLive
  <2>2. x \in Handlers
    BY <2>1 DEF Start, Handlers
  <2>3. /\ x.token = jar[b] /\ x.fresh = "none" /\ x.pc = "scanning"
        /\ x.kind = "refresh" /\ x.caught = "nothing"
    BY DEF Start
  <2>4. SoundHandler(x, rows, owner)
    <3> HIDE DEF x
    <3> QED
      BY <2>1, <2>3, SessionsAssumption DEF SoundHandler
  <2> QED
    BY <1>3, <2>2, <2>4, LocalStep DEF Refresh
<1>4. ASSUME NEW b \in Browsers, Logout(r, b)
      PROVE  Base'
  <2> DEFINE e == IF jar[b] = "none" THEN {} ELSE RowsOf(owner[jar[b]])
             x == [Start EXCEPT
                     !.pc = IF jar[b] = "none" THEN "answering" ELSE "scanning",
                     !.kind = "logout", !.browser = b, !.token = jar[b],
                     !.earlier = e]
  <2>1. /\ jar[b] \in Tokens \cup {"none"}
        /\ jar[b] # "none" => owner[jar[b]] # "none"
        /\ "none" \notin rows
    BY SessionsAssumption DEF Base, TypeOK, RowsAreLive
  <2>2. /\ e \subseteq Tokens
        /\ \A t \in e : jar[b] # "none" /\ owner[t] = owner[jar[b]]
        /\ jar[b] = "none" => e = {}
    BY DEF Base, TypeOK, RowsOf
  <2> HIDE DEF e
  <2>3. x \in Handlers
    BY <2>1, <2>2 DEF Start, Handlers
  <2>4. SoundHandler(x, rows, owner)
    BY <2>1, <2>2 DEF Start, SoundHandler
  <2> QED
    BY <1>4, <2>3, <2>4, LocalStep DEF Logout, e
<1> QED
  BY <1>1, <1>2, <1>3, <1>4 DEF Arrive

(* An error leaves a handler sound, wherever it strikes.                   *)
LEMMA ThrowsSound ==
  ASSUME NEW x \in Handlers, SoundHandler(x, rows, owner), NEW why \in {"refused", "db"},
         x.pc \in {"scanning", "deleting", "revoking", "issuing"},
         why # "db" => x.token \notin rows
  PROVE  Throws(x, why) \in Handlers /\ SoundHandler(Throws(x, why), rows, owner)
BY DEF Throws, Handlers, SoundHandler

LEMMA ScanBase ==
  ASSUME Base, NEW r \in Requests, Scan(r)
  PROVE  Base'
<1>1. /\ req[r] \in Handlers /\ SoundHandler(req[r], rows, owner) /\ req[r].pc = "scanning"
      /\ UNCHANGED <<rows, expired, jar, owner, spent, rooted>>
  BY DEF Base, TypeOK, Scan
<1>2. CASE req[r].token \in rows
  <2> DEFINE x == [req[r] EXCEPT !.pc = "checking"]
  <2>1. x \in Handlers /\ SoundHandler(x, rows, owner)
    BY <1>1 DEF Handlers, SoundHandler
  <2> QED
    BY <1>1, <1>2, <2>1, LocalStep DEF Scan
<1>3. CASE req[r].token \notin rows
  BY <1>1, <1>3, ThrowsSound, LocalStep DEF Scan
<1> QED
  BY <1>2, <1>3

LEMMA CheckBase ==
  ASSUME Base, NEW r \in Requests, Check(r)
  PROVE  Base'
<1> DEFINE x == [req[r] EXCEPT !.pc = "deleting", !.valid = req[r].token \notin expired]
<1>1. /\ req[r] \in Handlers /\ SoundHandler(req[r], rows, owner) /\ req[r].pc = "checking"
      /\ Becomes(r, x) /\ UNCHANGED <<rows, expired, jar, owner, spent, rooted>>
  BY DEF Base, TypeOK, Check
<1>2. x \in Handlers /\ SoundHandler(x, rows, owner)
  BY <1>1 DEF Handlers, SoundHandler
<1> QED
  BY <1>1, <1>2, LocalStep

(* Rows may go: what was sound stays sound.                                *)
LEMMA FewerRows ==
  ASSUME Base, NEW r \in Requests, NEW x \in Handlers, Becomes(r, x),
         rows' \subseteq rows, SoundHandler(x, rows', owner'),
         UNCHANGED <<expired, jar, owner, rooted>>,
         spent' \in [Tokens -> Nat],
         \A t \in Tokens : spent'[t] = spent[t] \/ (spent'[t] = 1 /\ t \in rows \ rows')
  PROVE  Base'
<1>1. \A q \in Requests : req'[q] = IF q = r THEN x ELSE req[q]
  BY DEF Base, TypeOK, Becomes
<1>2. TypeOK'
  BY DEF Base, TypeOK, Becomes
<1>3. TokenSpentOnce'
  BY DEF Base, TypeOK, TokenSpentOnce
<1>4. RowsAreLive'
  BY DEF Base, TypeOK, RowsAreLive
<1>5. ASSUME NEW q \in Requests, q # r
      PROVE  SoundHandler(req[q], rows, owner)'
  <2>1. SoundHandler(req[q], rows, owner) /\ req'[q] = req[q]
    BY <1>1, <1>5 DEF Base
  <2> QED
    BY <2>1 DEF SoundHandler
<1>6. SoundHandler(req[r], rows, owner)'
  BY <1>1
<1> QED
  BY <1>2, <1>3, <1>4, <1>5, <1>6 DEF Base

LEMMA DeleteBase ==
  ASSUME Base, NEW r \in Requests, Delete(r)
  PROVE  Base'
<1> DEFINE k == req[r].token
<1>1. /\ req[r] \in Handlers /\ SoundHandler(req[r], rows, owner) /\ req[r].pc = "deleting"
      /\ rows' = rows \ {k} /\ UNCHANGED <<expired, jar, owner, rooted>>
      /\ k \in Tokens /\ owner[k] # "none" /\ owner[k] \in Users
      /\ req[r].kind # "login" /\ req[r].caught = "nothing"
  <2>1. req[r] \in Handlers /\ SoundHandler(req[r], rows, owner) /\ req[r].pc = "deleting"
    BY DEF Base, TypeOK, Delete
  <2>2. k \in Tokens \cup {"none"}
    BY <2>1, HandlerFields
  <2> QED
    BY <2>1, <2>2 DEF Delete, SoundHandler, Base, TypeOK
<1>2. CASE req[r].valid /\ k \in rows
  <2> DEFINE x == [req[r] EXCEPT
                     !.user = owner[k],
                     !.pc = IF req[r].kind = "logout" THEN "revoking" ELSE "issuing"]
  <2>1. Becomes(r, x) /\ spent' = [spent EXCEPT ![k] = @ + 1]
    BY <1>2 DEF Delete, Consumed
  <2>2. x \in Handlers
    BY <1>1 DEF Handlers
  <2>3. SoundHandler(x, rows', owner')
    BY <1>1 DEF SoundHandler, Handlers
  <2>4. spent[k] = 0 /\ spent \in [Tokens -> Nat]
    BY <1>1, <1>2 DEF Base, TypeOK, RowsAreLive
  <2>5. spent' \in [Tokens -> Nat]
    BY <1>1, <2>1, <2>4
  <2>6. \A t \in Tokens : spent'[t] = spent[t] \/ (spent'[t] = 1 /\ t \in rows \ rows')
    BY <1>1, <1>2, <2>1, <2>4
  <2> HIDE DEF x
  <2> QED
    BY <1>1, <2>1, <2>2, <2>3, <2>5, <2>6, FewerRows
<1>3. CASE ~(req[r].valid /\ k \in rows)
  <2> DEFINE x == Throws(req[r], "refused")
  <2>1. Becomes(r, x) /\ UNCHANGED spent
    BY <1>3 DEF Delete
  <2>2. x \in Handlers
    BY <1>1 DEF Throws, Handlers
  <2>3. SoundHandler(x, rows', owner')
    BY <1>1 DEF Throws, SoundHandler, Handlers
  <2>4. spent \in [Tokens -> Nat]
    BY DEF Base, TypeOK
  <2> HIDE DEF x
  <2> QED
    BY <1>1, <2>1, <2>2, <2>3, <2>4, FewerRows
<1> QED
  BY <1>2, <1>3

LEMMA RevokeBase ==
  ASSUME Base, NEW r \in Requests, RevokeAllForUser(r)
  PROVE  Base'
<1> DEFINE x == [req[r] EXCEPT !.pc = "answering"]
<1>1. /\ req[r] \in Handlers /\ SoundHandler(req[r], rows, owner) /\ req[r].pc = "revoking"
      /\ rows' = rows \ RowsOf(req[r].user) /\ Becomes(r, x)
      /\ UNCHANGED <<expired, jar, owner, spent, rooted>>
  BY DEF Base, TypeOK, RevokeAllForUser
<1>2. x \in Handlers
  BY <1>1 DEF Handlers
<1>3. \A t \in req[r].earlier : t \notin rows'
  BY <1>1 DEF SoundHandler, RowsOf
<1>4. SoundHandler(x, rows', owner')
  BY <1>1, <1>3 DEF SoundHandler, Handlers
<1>5. spent \in [Tokens -> Nat] /\ rows' \subseteq rows
  BY <1>1 DEF Base, TypeOK
<1> HIDE DEF x
<1> QED
  BY <1>1, <1>2, <1>4, <1>5, FewerRows

LEMMA IssueBase ==
  ASSUME Base, NEW r \in Requests, NEW t \in Tokens, IssueTokens(r, t)
  PROVE  Base'
<1> DEFINE x == [req[r] EXCEPT !.pc = "answering", !.fresh = t]
<1>1. /\ req[r] \in Handlers /\ SoundHandler(req[r], rows, owner) /\ req[r].pc = "issuing"
      /\ owner[t] = "none" /\ rows' = rows \cup {t} /\ Becomes(r, x)
      /\ owner' = [owner EXCEPT ![t] = req[r].user]
      /\ rooted' \in {rooted, rooted \cup {t}}
      /\ UNCHANGED <<expired, jar, spent>>
  BY DEF Base, TypeOK, IssueTokens
<1>2. /\ req[r].user \in Users /\ req[r].user # "none"
      /\ req[r].kind # "logout" /\ req[r].kind # "none"
  BY <1>1, HandlerFields DEF SoundHandler
<1>3. /\ owner'[t] = req[r].user /\ \A s \in Tokens \ {t} : owner'[s] = owner[s]
      /\ owner' \in [Tokens -> Users \cup {"none"}]
  BY <1>1, <1>2 DEF Base, TypeOK
<1>4. \A s \in Tokens : owner[s] # "none" => s # t /\ owner'[s] = owner[s] /\ owner'[s] # "none"
  BY <1>1, <1>3
<1>5. x \in Handlers
  BY <1>1 DEF Handlers
<1>6. TypeOK'
  BY <1>1, <1>3, <1>5 DEF Base, TypeOK, Becomes
<1>7. TokenSpentOnce'
  BY <1>1 DEF Base, TokenSpentOnce
<1>8. RowsAreLive'
  <2>1. \A s \in rows' \cup rooted' : owner'[s] # "none"
    BY <1>1, <1>2, <1>3, <1>4 DEF Base, TypeOK, RowsAreLive
  <2>2. \A s \in Tokens : spent'[s] > 0 => owner'[s] # "none" /\ s \notin rows'
    BY <1>1, <1>4 DEF Base, RowsAreLive
  <2>3. \A b \in Browsers : jar'[b] # "none" => owner'[jar'[b]] # "none"
    BY <1>1, <1>4 DEF Base, TypeOK, RowsAreLive
  <2> QED
    BY <2>1, <2>2, <2>3 DEF RowsAreLive
<1>9. \A q \in Requests : req'[q] = IF q = r THEN x ELSE req[q]
  BY <1>1 DEF Base, TypeOK, Becomes
<1>10. ASSUME NEW q \in Requests, q # r
       PROVE  SoundHandler(req[q], rows, owner)'
  <2> DEFINE y == req[q]
  <2>1. y \in Handlers /\ SoundHandler(y, rows, owner) /\ req'[q] = y
    BY <1>9, <1>10 DEF Base, TypeOK
  <2>2. /\ y.token \in Tokens \cup {"none"} /\ y.fresh \in Tokens \cup {"none"}
        /\ y.earlier \subseteq Tokens
    BY <2>1, HandlerFields
  <2> HIDE DEF y
  <2>3. /\ y.token # "none" => owner'[y.token] = owner[y.token] /\ owner'[y.token] # "none" /\ y.token # t
        /\ y.fresh # "none" => owner'[y.fresh] # "none"
    BY <1>4, <2>1, <2>2 DEF SoundHandler
  <2>4. y.kind = "logout" =>
           \A s \in y.earlier : s # t /\ y.token # "none" /\ owner'[s] = owner'[y.token]
    BY <1>4, <2>1, <2>2, <2>3 DEF SoundHandler
  <2>5. "none" # t
    BY SessionsAssumption
  <2>6. y.pc = "revoking" => y.user = owner'[y.token]
    <3>1. y.pc = "revoking" => y.user = owner[y.token] /\ y.kind = "logout"
      BY <2>1 DEF SoundHandler
    <3>2. y.token = "none" => owner'[y.token] = owner[y.token]
      BY <1>1, <2>5 DEF Base, TypeOK
    <3> QED
      BY <2>3, <3>1, <3>2
  <2>7. SoundHandler(y, rows', owner')
    BY <1>1, <2>1, <2>3, <2>4, <2>5, <2>6 DEF SoundHandler
  <2> QED
    BY <2>1, <2>7
<1>11. SoundHandler(req[r], rows, owner)'
  <2>1. /\ x.token = req[r].token /\ x.fresh = t /\ x.pc = "answering"
        /\ x.kind = req[r].kind
    BY <1>1 DEF Handlers
  <2>2. x.token # "none" => owner'[x.token] # "none"
    BY <1>1, <1>4, <2>1, HandlerFields DEF SoundHandler
  <2> HIDE DEF x
  <2>3. SoundHandler(x, rows', owner')
    BY <1>2, <1>3, <2>1, <2>2 DEF SoundHandler
  <2> QED
    BY <1>9, <2>3
<1> QED
  BY <1>6, <1>7, <1>8, <1>10, <1>11 DEF Base

(* Nothing but cookies, local states and expiry: the tables stay.          *)
LEMMA TablesStay ==
  ASSUME Base, UNCHANGED <<rows, owner, spent, rooted>>,
         expired' \subseteq Tokens,
         jar' \in [Browsers -> Tokens \cup {"none"}],
         \A b \in Browsers : jar'[b] # "none" => owner[jar'[b]] # "none",
         req' \in [Requests -> Handlers],
         \A r \in Requests : SoundHandler(req'[r], rows, owner)
  PROVE  Base'
<1>1. TypeOK' /\ TokenSpentOnce'
  BY DEF Base, TypeOK, TokenSpentOnce
<1>2. RowsAreLive'
  BY DEF Base, RowsAreLive
<1> QED
  BY <1>1, <1>2 DEF Base

LEMMA AnswerBase ==
  ASSUME Base, NEW r \in Requests, Answer(r)
  PROVE  Base'
<1> DEFINE x == [req[r] EXCEPT !.pc = "done"]
           k == CookieAfter(req[r])
<1>1. /\ req[r] \in Handlers /\ SoundHandler(req[r], rows, owner) /\ req[r].pc = "answering"
      /\ Becomes(r, x) /\ jar' = [jar EXCEPT ![req[r].browser] = k]
      /\ UNCHANGED <<rows, expired, owner, spent, rooted>>
  BY DEF Base, TypeOK, Answer
<1>2. x \in Handlers /\ SoundHandler(x, rows, owner)
  BY <1>1 DEF Handlers, SoundHandler
<1>3. req' \in [Requests -> Handlers] /\ \A q \in Requests : SoundHandler(req'[q], rows, owner)
  BY <1>1, <1>2 DEF Base, TypeOK, Becomes
<1> HIDE DEF x, k
<1>4. CASE req[r].browser \in Browsers
  <2>1. req[r].kind \in {"login", "refresh", "logout"}
    BY <1>1, HandlerFields DEF SoundHandler
  <2>a. /\ req[r].fresh \in Tokens \cup {"none"}
        /\ req[r].fresh # "none" => owner[req[r].fresh] # "none"
    BY <1>1, HandlerFields DEF SoundHandler
  <2>b. /\ jar[req[r].browser] \in Tokens \cup {"none"}
        /\ jar[req[r].browser] # "none" => owner[jar[req[r].browser]] # "none"
    BY <1>4 DEF Base, TypeOK, RowsAreLive
  <2>c. k \in {req[r].fresh, jar[req[r].browser], "none"}
    BY <2>1 DEF k, CookieAfter
  <2>3. /\ k \in Tokens \cup {"none"}
        /\ k # "none" => owner[k] # "none"
    BY <2>a, <2>b, <2>c
  <2>2. /\ jar' \in [Browsers -> Tokens \cup {"none"}]
        /\ \A b \in Browsers : jar'[b] # "none" => owner[jar'[b]] # "none"
    BY <1>1, <2>3 DEF Base, TypeOK, RowsAreLive
  <2> QED
    BY <1>1, <1>3, <2>2, TablesStay DEF Base, TypeOK
<1>5. CASE req[r].browser \notin Browsers
  <2>1. jar' = jar
    BY <1>1, <1>5 DEF Base, TypeOK
  <2> QED
    BY <1>1, <1>3, <2>1, TablesStay DEF Base, TypeOK, RowsAreLive
<1> QED
  BY <1>4, <1>5

LEMMA AnswerLostBase ==
  ASSUME Base, NEW r \in Requests, AnswerLost(r)
  PROVE  Base'
<1> DEFINE x == [req[r] EXCEPT !.pc = "failed"]
<1>1. /\ req[r] \in Handlers /\ SoundHandler(req[r], rows, owner)
      /\ Becomes(r, x) /\ UNCHANGED <<rows, expired, jar, owner, spent, rooted>>
  BY DEF Base, TypeOK, AnswerLost
<1>2. x \in Handlers /\ SoundHandler(x, rows, owner)
  BY <1>1 DEF Handlers, SoundHandler
<1> QED
  BY <1>1, <1>2, LocalStep

LEMMA QueryFailsBase ==
  ASSUME Base, NEW r \in Requests, QueryFails(r)
  PROVE  Base'
<1>1. /\ req[r] \in Handlers /\ SoundHandler(req[r], rows, owner)
      /\ req[r].pc \in {"scanning", "deleting", "revoking", "issuing"}
      /\ Becomes(r, Throws(req[r], "db"))
      /\ UNCHANGED <<rows, expired, jar, owner, spent, rooted>>
  BY DEF Base, TypeOK, QueryFails
<1> QED
  BY <1>1, ThrowsSound, LocalStep

LEMMA ExpireBase ==
  ASSUME Base, NEW t \in Tokens, Expire(t)
  PROVE  Base'
BY TablesStay DEF Base, TypeOK, RowsAreLive, Expire

LEMMA CookieExpiresBase ==
  ASSUME Base, NEW b \in Browsers, CookieExpires(b)
  PROVE  Base'
<1>1. /\ jar' \in [Browsers -> Tokens \cup {"none"}]
      /\ \A c \in Browsers : jar'[c] # "none" => owner[jar'[c]] # "none"
  BY DEF Base, TypeOK, RowsAreLive, CookieExpires
<1> QED
  BY <1>1, TablesStay DEF Base, TypeOK, CookieExpires

LEMMA CrashBase ==
  ASSUME Base, Crash
  PROVE  Base'
<1>1. UNCHANGED <<rows, expired, jar, owner, spent, rooted>>
  BY DEF Crash
<1>2. ASSUME NEW r \in Requests
      PROVE  req'[r] \in Handlers /\ SoundHandler(req'[r], rows, owner)
  <2>1. req[r] \in Handlers /\ SoundHandler(req[r], rows, owner)
    BY DEF Base, TypeOK
  <2>2. req'[r] = [req[r] EXCEPT !.pc = "failed"] \/ req'[r] = req[r]
    BY DEF Crash
  <2>3. CASE req'[r] = [req[r] EXCEPT !.pc = "failed"]
    BY <2>1, <2>3 DEF Handlers, SoundHandler
  <2> QED
    BY <2>1, <2>2, <2>3
<1>3. req' \in [Requests -> Handlers]
  BY <1>2 DEF Crash
<1> QED
  BY <1>1, <1>2, <1>3, TablesStay DEF Base, TypeOK, RowsAreLive

(* Every step keeps Base.                                                  *)
LEMMA BaseStep ==
  ASSUME Base, [Next]_vars
  PROVE  Base'
<1>1. ASSUME NEW r \in Requests, Step(r)
      PROVE  Base'
  BY <1>1, ScanBase, CheckBase, DeleteBase, RevokeBase, IssueBase, AnswerBase,
     AnswerLostBase, QueryFailsBase DEF Step
<1>2. CASE UNCHANGED vars
  BY <1>2, TablesStay DEF Base, TypeOK, RowsAreLive, vars
<1>3. CASE Quiet
  BY <1>2, <1>3 DEF Quiet
<1> QED
  BY <1>1, <1>2, <1>3, ArriveBase, ExpireBase, CookieExpiresBase, CrashBase DEF Next

LEMMA BaseInit ==
  ASSUME Init
  PROVE  Base
<1>1. \A r \in Requests : req[r] = Start
  BY DEF Init
<1>2. TypeOK
  BY StartSound DEF Init, TypeOK
<1>3. TokenSpentOnce /\ RowsAreLive
  BY DEF Init, TokenSpentOnce, RowsAreLive
<1> QED
  BY <1>1, <1>2, <1>3, StartSound DEF Base

-----------------------------------------------------------------------------
(* The sessions of a user.                                                 *)

LEMMA FiniteCounts ==
  ASSUME Base, NEW u \in Users
  PROVE  /\ IsFiniteSet(RowsOf(u)) /\ Cardinality(RowsOf(u)) \in Nat
         /\ IsFiniteSet(Rotating(u)) /\ Cardinality(Rotating(u)) \in Nat
         /\ IsFiniteSet(Rooted(u)) /\ Cardinality(Rooted(u)) \in Nat
<1>1. RowsOf(u) \in SUBSET Tokens /\ Rooted(u) \in SUBSET Tokens
  BY DEF Base, TypeOK, RowsOf, Rooted
<1>2. Rotating(u) \in SUBSET Requests
  BY DEF Rotating
<1>3. IsFiniteSet(RowsOf(u)) /\ IsFiniteSet(Rooted(u)) /\ IsFiniteSet(Rotating(u))
  BY <1>1, <1>2, SessionsAssumption, FS_Subset
<1> QED
  BY <1>3, FS_CardinalityType

(* A step that adds no row and lets no handler rotate keeps the count.     *)
LEMMA NothingAdded ==
  ASSUME Base, SessionsAreCounted,
         rows' \subseteq rows, UNCHANGED <<owner, rooted>>,
         \A r \in Requests :
            req'[r].kind = "refresh" /\ req'[r].pc = "issuing" => req'[r] = req[r]
  PROVE  SessionsAreCounted'
<1> SUFFICES ASSUME NEW u \in Users
             PROVE  Cardinality(RowsOf(u)') + Cardinality(Rotating(u)') <= Cardinality(Rooted(u)')
  BY DEF SessionsAreCounted
<1>1. RowsOf(u)' \in SUBSET RowsOf(u)
  BY DEF RowsOf
<1>2. Rotating(u)' \in SUBSET Rotating(u)
  BY DEF Rotating
<1>3. Rooted(u)' = Rooted(u)
  BY DEF Rooted
<1> DEFINE a == RowsOf(u)  b == Rotating(u)  c == Rooted(u)
           a1 == RowsOf(u)'  b1 == Rotating(u)'
<1>4. Cardinality(a) + Cardinality(b) <= Cardinality(c)
  BY DEF SessionsAreCounted
<1>5. /\ IsFiniteSet(a) /\ Cardinality(a) \in Nat /\ IsFiniteSet(b)
      /\ Cardinality(b) \in Nat /\ Cardinality(c) \in Nat
  BY FiniteCounts
<1>6. a1 \in SUBSET a /\ b1 \in SUBSET b
  BY <1>1, <1>2
<1> HIDE DEF a, b, c, a1, b1
<1>7. /\ Cardinality(a1) <= Cardinality(a) /\ Cardinality(a1) \in Nat
      /\ Cardinality(b1) <= Cardinality(b) /\ Cardinality(b1) \in Nat
  BY <1>5, <1>6, FS_Subset, FS_CardinalityType
<1>8. Cardinality(a1) + Cardinality(b1) <= Cardinality(c)
  BY <1>4, <1>5, <1>7
<1> QED
  BY <1>3, <1>8 DEF a1, b1, c

(* The steps of a handler that is not about to issue and does not consume. *)
LEMMA ElsewhereCounted ==
  ASSUME Base, SessionsAreCounted, NEW r \in Requests, NEW x, Becomes(r, x),
         ~(x.kind = "refresh" /\ x.pc = "issuing"),
         rows' \subseteq rows, UNCHANGED <<owner, rooted>>
  PROVE  SessionsAreCounted'
<1>1. \A q \in Requests : req'[q] = IF q = r THEN x ELSE req[q]
  BY DEF Base, TypeOK, Becomes
<1> QED
  BY <1>1, NothingAdded

(* A refresh that consumes its token turns a row into a rotation.          *)
LEMMA DeleteCounted ==
  ASSUME Base, SessionsAreCounted, NEW r \in Requests, Delete(r)
  PROVE  SessionsAreCounted'
<1> DEFINE k == req[r].token
           o == owner[k]
           x == [req[r] EXCEPT
                   !.user = o,
                   !.pc = IF req[r].kind = "logout" THEN "revoking" ELSE "issuing"]
<1>1. /\ req[r] \in Handlers /\ SoundHandler(req[r], rows, owner) /\ req[r].pc = "deleting"
      /\ rows' = rows \ {k} /\ rows' \subseteq rows /\ UNCHANGED <<owner, rooted>>
  BY DEF Base, TypeOK, Delete
<1>2. CASE ~(req[r].valid /\ k \in rows)
  <2> DEFINE y == Throws(req[r], "refused")
  <2>1. Becomes(r, y)
    BY <1>2 DEF Delete
  <2>2. y.pc # "issuing"
    BY <1>1 DEF Throws, Handlers
  <2> HIDE DEF y
  <2> QED
    BY <1>1, <2>1, <2>2, ElsewhereCounted
<1>3. CASE req[r].valid /\ k \in rows /\ req[r].kind = "logout"
  <2>1. Becomes(r, x)
    BY <1>3 DEF Delete, Consumed
  <2>2. x.pc # "issuing"
    BY <1>1, <1>3 DEF Handlers
  <2> HIDE DEF x
  <2> QED
    BY <1>1, <2>1, <2>2, ElsewhereCounted
<1>4. CASE req[r].valid /\ k \in rows /\ req[r].kind # "logout"
  <2>1. Becomes(r, x)
    BY <1>4 DEF Delete, Consumed
  <2>2. req[r].kind = "refresh"
    BY <1>1, <1>4, HandlerFields DEF SoundHandler
  <2>3. x.kind = "refresh" /\ x.pc = "issuing" /\ x.user = o
    BY <1>1, <2>2 DEF Handlers
  <2> HIDE DEF x
  <2>4. \A q \in Requests : req'[q] = IF q = r THEN x ELSE req[q]
    BY <2>1 DEF Base, TypeOK, Becomes
  <2> SUFFICES ASSUME NEW u \in Users
               PROVE  Cardinality(RowsOf(u)') + Cardinality(Rotating(u)')
                        <= Cardinality(Rooted(u)')
    BY DEF SessionsAreCounted
  <2>5. /\ Cardinality(RowsOf(u)) + Cardinality(Rotating(u)) <= Cardinality(Rooted(u))
        /\ Rooted(u)' = Rooted(u)
    BY <1>1 DEF SessionsAreCounted, Rooted
  <2>6. CASE u = o
    <3>1. RowsOf(u)' = RowsOf(u) \ {k} /\ k \in RowsOf(u)
      BY <1>1, <1>4, <2>6 DEF RowsOf
    <3>2. Rotating(u)' = Rotating(u) \cup {r} /\ r \notin Rotating(u)
      BY <1>1, <2>3, <2>4, <2>6 DEF Rotating
    <3>3. IsFiniteSet(RowsOf(u)) /\ IsFiniteSet(Rotating(u))
      BY FiniteCounts
    <3>4. Cardinality(RowsOf(u)') = Cardinality(RowsOf(u)) - 1
      BY <3>1, <3>3, FS_RemoveElement
    <3>5. Cardinality(Rotating(u)') = Cardinality(Rotating(u)) + 1
      BY <3>2, <3>3, FS_AddElement
    <3> QED
      BY <2>5, <3>4, <3>5, FiniteCounts
  <2>7. CASE u # o
    <3>1. RowsOf(u)' = RowsOf(u)
      BY <1>1, <2>7 DEF RowsOf
    <3>2. Rotating(u)' = Rotating(u)
      BY <1>1, <2>3, <2>4, <2>7 DEF Rotating
    <3> QED
      BY <2>5, <3>1, <3>2
  <2> QED
    BY <2>6, <2>7
<1> QED
  BY <1>2, <1>3, <1>4

(* A login adds a row and its root; a refresh gives its rotation a row.    *)
LEMMA IssueCounted ==
  ASSUME Base, SessionsAreCounted, NEW r \in Requests, NEW t \in Tokens, IssueTokens(r, t)
  PROVE  SessionsAreCounted'
<1> DEFINE o == req[r].user
           x == [req[r] EXCEPT !.pc = "answering", !.fresh = t]
<1>1. /\ req[r] \in Handlers /\ SoundHandler(req[r], rows, owner) /\ req[r].pc = "issuing"
      /\ owner[t] = "none" /\ rows' = rows \cup {t} /\ Becomes(r, x)
      /\ owner' = [owner EXCEPT ![t] = o]
      /\ rooted' = IF req[r].kind = "login" THEN rooted \cup {t} ELSE rooted
  BY DEF Base, TypeOK, IssueTokens
<1>2. req[r].kind \in {"login", "refresh"} /\ o # "none"
  BY <1>1, HandlerFields DEF SoundHandler
<1>3. owner'[t] = o /\ \A s \in Tokens \ {t} : owner'[s] = owner[s]
  BY <1>1 DEF Base, TypeOK
<1>4. t \notin rows /\ t \notin rooted
  BY <1>1 DEF Base, RowsAreLive
<1>5. x.pc = "answering"
  BY <1>1 DEF Handlers
<1> HIDE DEF x
<1>6. \A q \in Requests : req'[q] = IF q = r THEN x ELSE req[q]
  BY <1>1 DEF Base, TypeOK, Becomes
<1> SUFFICES ASSUME NEW u \in Users
             PROVE  Cardinality(RowsOf(u)') + Cardinality(Rotating(u)')
                      <= Cardinality(Rooted(u)')
  BY DEF SessionsAreCounted
<1>7. Cardinality(RowsOf(u)) + Cardinality(Rotating(u)) <= Cardinality(Rooted(u))
  BY DEF SessionsAreCounted
<1>8. rows \subseteq Tokens /\ rooted \subseteq Tokens
  BY DEF Base, TypeOK
<1>9. CASE u # o
  <2>1. RowsOf(u)' = RowsOf(u) /\ Rooted(u)' = Rooted(u)
    BY <1>1, <1>3, <1>4, <1>8, <1>9 DEF RowsOf, Rooted
  <2>2. Rotating(u)' = Rotating(u)
    BY <1>5, <1>6, <1>9 DEF Rotating
  <2> QED
    BY <1>7, <2>1, <2>2
<1>10. CASE u = o
  <2>1. RowsOf(u)' = RowsOf(u) \cup {t} /\ t \notin RowsOf(u)
    BY <1>1, <1>3, <1>4, <1>8, <1>10 DEF RowsOf
  <2>2. Cardinality(RowsOf(u)') = Cardinality(RowsOf(u)) + 1
    BY <2>1, FiniteCounts, FS_AddElement
  <2>3. CASE req[r].kind = "login"
    <3>1. Rooted(u)' = Rooted(u) \cup {t} /\ t \notin Rooted(u)
      BY <1>1, <1>3, <1>4, <1>8, <1>10, <2>3 DEF Rooted
    <3>2. Cardinality(Rooted(u)') = Cardinality(Rooted(u)) + 1
      BY <3>1, FiniteCounts, FS_AddElement
    <3>3. Rotating(u)' = Rotating(u)
      BY <1>5, <1>6, <2>3 DEF Rotating
    <3> QED
      BY <1>7, <2>2, <3>2, <3>3, FiniteCounts
  <2>4. CASE req[r].kind = "refresh"
    <3>1. Rooted(u)' = Rooted(u)
      BY <1>1, <1>3, <1>4, <1>8, <2>4 DEF Rooted
    <3>2. Rotating(u)' = Rotating(u) \ {r} /\ r \in Rotating(u)
      BY <1>1, <1>5, <1>6, <1>10, <2>4 DEF Rotating
    <3>3. Cardinality(Rotating(u)') = Cardinality(Rotating(u)) - 1
      BY <3>2, FiniteCounts, FS_RemoveElement
    <3> QED
      BY <1>7, <2>2, <3>1, <3>3, FiniteCounts
  <2> QED
    BY <1>2, <2>3, <2>4
<1> QED
  BY <1>9, <1>10

(* No other step consumes or issues.                                       *)
LEMMA ArriveCounted ==
  ASSUME Base, SessionsAreCounted, NEW r \in Requests, Arrive(r)
  PROVE  SessionsAreCounted'
<1>1. CASE Unauthorized(r)
  BY <1>1, ElsewhereCounted DEF Unauthorized, Start
<1>2. ASSUME NEW b \in Browsers, NEW u \in Users, Login(r, b, u)
      PROVE  SessionsAreCounted'
  BY <1>2, ElsewhereCounted DEF Login, Start
<1>3. ASSUME NEW b \in Browsers, Refresh(r, b)
      PROVE  SessionsAreCounted'
  BY <1>3, ElsewhereCounted DEF Refresh, Start
<1>4. ASSUME NEW b \in Browsers, Logout(r, b)
      PROVE  SessionsAreCounted'
  BY <1>4, ElsewhereCounted DEF Logout, Start
<1> QED
  BY <1>1, <1>2, <1>3, <1>4 DEF Arrive

LEMMA StepCounted ==
  ASSUME Base, SessionsAreCounted, NEW r \in Requests, Step(r)
  PROVE  SessionsAreCounted'
<1> DEFINE x == req[r]
<1>1. x \in Handlers
  BY DEF Base, TypeOK
<1>2. \A why : x.pc # "issuing" \/ why = "db" => Throws(x, why).pc # "issuing"
  BY <1>1 DEF Throws, Handlers
<1>3. CASE Scan(r)
  <2>1. x.pc = "scanning" /\ UNCHANGED <<rows, owner, rooted>>
    BY <1>3 DEF Scan
  <2>2. \E y : Becomes(r, y) /\ y.pc # "issuing"
    BY <1>1, <1>2, <1>3, <2>1 DEF Scan, Handlers
  <2> QED
    BY <2>1, <2>2, ElsewhereCounted
<1>4. CASE Check(r)
  <2> DEFINE y == [req[r] EXCEPT !.pc = "deleting", !.valid = req[r].token \notin expired]
  <2>1. Becomes(r, y)
    BY <1>4 DEF Check
  <2>2. y.pc # "issuing"
    BY <1>1 DEF Handlers
  <2> HIDE DEF y
  <2> QED
    BY <1>4, <2>1, <2>2, ElsewhereCounted DEF Check
<1>5. CASE RevokeAllForUser(r)
  <2>1. \E y : Becomes(r, y) /\ y.pc # "issuing"
    BY <1>1, <1>5 DEF RevokeAllForUser, Handlers
  <2> QED
    BY <1>5, <2>1, ElsewhereCounted DEF RevokeAllForUser
<1>6. CASE Answer(r)
  <2>1. \E y : Becomes(r, y) /\ y.pc # "issuing"
    BY <1>1, <1>6 DEF Answer, Handlers
  <2> QED
    BY <1>6, <2>1, ElsewhereCounted DEF Answer
<1>7. CASE AnswerLost(r)
  <2>1. \E y : Becomes(r, y) /\ y.pc # "issuing"
    BY <1>1, <1>7 DEF AnswerLost, Handlers
  <2> QED
    BY <1>7, <2>1, ElsewhereCounted DEF AnswerLost
<1>8. CASE QueryFails(r)
  <2>1. \E y : Becomes(r, y) /\ y.pc # "issuing"
    BY <1>1, <1>2, <1>8 DEF QueryFails
  <2> QED
    BY <1>8, <2>1, ElsewhereCounted DEF QueryFails
<1> QED
  BY <1>3, <1>4, <1>5, <1>6, <1>7, <1>8, DeleteCounted, IssueCounted DEF Step

LEMMA CountStep ==
  ASSUME Base, SessionsAreCounted, [Next]_vars
  PROVE  SessionsAreCounted'
<1>1. CASE UNCHANGED vars
  BY <1>1, NothingAdded DEF vars
<1>2. CASE Quiet
  BY <1>1, <1>2 DEF Quiet
<1>3. ASSUME NEW t \in Tokens, Expire(t)
      PROVE  SessionsAreCounted'
  BY <1>3, NothingAdded DEF Expire
<1>4. ASSUME NEW b \in Browsers, CookieExpires(b)
      PROVE  SessionsAreCounted'
  BY <1>4, NothingAdded DEF CookieExpires
<1>5. CASE Crash
  <2>1. \A r \in Requests : req'[r] = req[r] \/ req'[r].pc = "failed"
    BY <1>5 DEF Crash, Base, TypeOK, Handlers
  <2> QED
    BY <1>5, <2>1, NothingAdded DEF Crash
<1> QED
  BY <1>1, <1>2, <1>3, <1>4, <1>5, ArriveCounted, StepCounted DEF Next

LEMMA CountInit ==
  ASSUME Init
  PROVE  SessionsAreCounted
<1> SUFFICES ASSUME NEW u \in Users
             PROVE  Cardinality(RowsOf(u)) + Cardinality(Rotating(u)) <= Cardinality(Rooted(u))
  BY DEF SessionsAreCounted
<1>1. RowsOf(u) = {} /\ Rotating(u) = {} /\ Rooted(u) = {}
  BY DEF Init, RowsOf, Rotating, Rooted, Start
<1> QED
  BY <1>1, FS_EmptySet

-----------------------------------------------------------------------------
(* The theorems.                                                           *)

(* The invariant: rows are live, handlers are sound at every program       *)
(* counter, and the rows of a user and the rotations under way are no more *)
(* than its logins (consume, issue, revokeAllForUser under interleaving).  *)
THEOREM Invariance == Spec => []Inv
<1>1. Init => Inv
  BY BaseInit, CountInit DEF Inv, Base
<1>2. Inv /\ [Next]_vars => Inv'
  BY BaseStep, CountStep DEF Inv, Base
<1> QED
  BY <1>1, <1>2, PTL DEF Spec

(* Type correctness of the token table, the jars and the handlers.         *)
THEOREM TypeCorrect == Spec => []TypeOK
<1>1. Inv => TypeOK
  BY DEF Inv
<1> QED
  BY <1>1, Invariance, PTL

(* A refresh token is consumed with success at most once.                  *)
THEOREM SingleUse == Spec => []TokenSpentOnce
<1>1. Inv => TokenSpentOnce
  BY DEF Inv
<1> QED
  BY <1>1, Invariance, PTL

(* No interleaving of refreshes multiplies a login.                        *)
THEOREM NoExtraSession == Spec => []RotationAddsNoSession
<1>1. Inv => RotationAddsNoSession
  <2> SUFFICES ASSUME Inv, NEW u \in Users
               PROVE  Cardinality(RowsOf(u)) <= Cardinality(Rooted(u))
    BY DEF RotationAddsNoSession
  <2>1. Base /\ SessionsAreCounted
    BY DEF Inv, Base
  <2> QED
    BY <2>1, FiniteCounts DEF SessionsAreCounted
<1> QED
  BY <1>1, Invariance, PTL

(* The token a logout presented is dead once it is answered.               *)
THEOREM LogoutKills == Spec => []LogoutKillsItsToken
<1>1. Inv => LogoutKillsItsToken
  BY DEF Inv, SoundHandler, LogoutKillsItsToken
<1> QED
  BY <1>1, Invariance, PTL

(* A logout whose token was good leaves no session it found alive.         *)
THEOREM LogoutRevokes == Spec => []GoodLogoutRevokesAll
<1>1. Inv => GoodLogoutRevokesAll
  BY DEF Inv, SoundHandler, GoodLogoutRevokesAll
<1> QED
  BY <1>1, Invariance, PTL

=============================================================================
