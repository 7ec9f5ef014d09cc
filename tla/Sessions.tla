------------------------------ MODULE Sessions ------------------------------
(***************************************************************************)
(* AuthController, AuthService and RefreshTokensService: login, refresh    *)
(* and logout as handlers that interleave at every await, over the table   *)
(* of refresh tokens and the cookies of the browsers.                      *)
(*                                                                         *)
(* A refresh token is opaque and is good for one use: consuming it scans   *)
(* the table for the row whose hash it matches and deletes that row.  Its  *)
(* hash is salted, so a token matches no row but its own.  Access tokens   *)
(* are left out: none of these handlers reads one.                         *)
(***************************************************************************)
EXTENDS Naturals, FiniteSets

CONSTANTS
    Requests,   \* the HTTP requests of a behaviour, each served once
    Browsers,   \* cookie jars, each shared by any number of tabs
    Users,
    Tokens,     \* the refresh tokens that can be drawn, with their rows
    Faults      \* what may fail: "db" calls, "lost" responses, the process

ASSUME SessionsAssumption ==
    /\ IsFiniteSet(Tokens) /\ IsFiniteSet(Requests)
    /\ "none" \notin Tokens \cup Users
    /\ Faults \subseteq {"db", "lost", "crash"}

VARIABLES
    rows,      \* the RefreshToken table
    expired,   \* the tokens whose expiresAt has passed
    jar,       \* the refresh_token cookie of each browser, or "none"
    req,       \* the local state of each request's handler
    owner,     \* the userId of each token, "none" until it is issued
    spent,     \* history: how often consume returned the user of a token
    rooted     \* history: the tokens that a login issued

vars == <<rows, expired, jar, req, owner, spent, rooted>>

(* token is the one the request presents and fresh the one issueTokens     *)
(* made; valid is the outcome of the expiry check.  caught says what the   *)
(* catch of logout swallowed, and earlier is a history of the rows its     *)
(* user had when it arrived.                                               *)
Handlers ==
    [ pc : {"idle", "scanning", "checking", "deleting", "revoking",
            "issuing", "answering", "done", "failed"},
      kind : {"none", "login", "refresh", "logout"},
      browser : Browsers \cup {"none"},
      token : Tokens \cup {"none"},
      user : Users \cup {"none"},
      valid : BOOLEAN,
      fresh : Tokens \cup {"none"},
      caught : {"nothing", "refused", "db"},
      earlier : SUBSET Tokens ]

Start ==
    [ pc |-> "idle", kind |-> "none", browser |-> "none", token |-> "none",
      user |-> "none", valid |-> FALSE, fresh |-> "none",
      caught |-> "nothing", earlier |-> {} ]

Active(r) == req[r].pc \notin {"idle", "done", "failed"}

RowsOf(u) == { t \in rows : owner[t] = u }

Init ==
    /\ rows = {} /\ expired = {} /\ rooted = {}
    /\ jar = [b \in Browsers |-> "none"]
    /\ req = [r \in Requests |-> Start]
    /\ owner = [t \in Tokens |-> "none"]
    /\ spent = [t \in Tokens |-> 0]

-----------------------------------------------------------------------------
(* The endpoints, up to their first await.                                 *)

Becomes(r, x) == req' = [req EXCEPT ![r] = x]

(* The credentials match: tokens are issued.                               *)
Login(r, b, u) ==
    /\ req[r].pc = "idle"
    /\ Becomes(r, [Start EXCEPT !.pc = "issuing", !.kind = "login",
                                !.browser = b, !.user = u])
    /\ UNCHANGED <<rows, expired, jar, owner, spent, rooted>>

(* Wrong credentials, or a refresh without the cookie: 401.                *)
Unauthorized(r) ==
    /\ req[r].pc = "idle"
    /\ Becomes(r, [Start EXCEPT !.pc = "failed"])
    /\ UNCHANGED <<rows, expired, jar, owner, spent, rooted>>

Refresh(r, b) ==
    /\ req[r].pc = "idle" /\ jar[b] # "none"
    /\ Becomes(r, [Start EXCEPT !.pc = "scanning", !.kind = "refresh",
                                !.browser = b, !.token = jar[b]])
    /\ UNCHANGED <<rows, expired, jar, owner, spent, rooted>>

(* Without the cookie there is nothing to consume.                         *)
Logout(r, b) ==
    /\ req[r].pc = "idle"
    /\ Becomes(r, [Start EXCEPT
         !.pc = IF jar[b] = "none" THEN "answering" ELSE "scanning",
         !.kind = "logout", !.browser = b, !.token = jar[b],
         !.earlier = IF jar[b] = "none" THEN {} ELSE RowsOf(owner[jar[b]])])
    /\ UNCHANGED <<rows, expired, jar, owner, spent, rooted>>

-----------------------------------------------------------------------------
(* RefreshTokensService.consume.                                           *)

(* consume throws, or a call after it: refresh and login fail, logout      *)
(* swallows the error and answers as usual.                                *)
Throws(x, why) ==
    IF x.kind = "logout" THEN [x EXCEPT !.pc = "answering", !.caught = why]
                         ELSE [x EXCEPT !.pc = "failed"]

(* findMany: the row is among those read, or the token is not known.       *)
Scan(r) ==
    /\ req[r].pc = "scanning"
    /\ Becomes(r, IF req[r].token \in rows THEN [req[r] EXCEPT !.pc = "checking"]
                                           ELSE Throws(req[r], "refused"))
    /\ UNCHANGED <<rows, expired, jar, owner, spent, rooted>>

(* Mutant: an expired token is refused without deleting its row.           *)
CheckOnly(r) ==
    /\ req[r].pc = "checking"
    /\ Becomes(r, IF req[r].token \in expired
                  THEN Throws(req[r], "refused")
                  ELSE [req[r] EXCEPT !.pc = "deleting", !.valid = TRUE])
    /\ UNCHANGED <<rows, expired, jar, owner, spent, rooted>>

(* The hashes of all rows read have been compared: the expiry is checked,  *)
(* and the row is deleted whatever the outcome.                            *)
Check(r) ==
    /\ req[r].pc = "checking"
    /\ Becomes(r, [req[r] EXCEPT !.pc = "deleting",
                                 !.valid = req[r].token \notin expired])
    /\ UNCHANGED <<rows, expired, jar, owner, spent, rooted>>

(* consume returns the user of the token.                                  *)
Consumed(r) ==
    /\ Becomes(r, [req[r] EXCEPT
         !.user = owner[req[r].token],
         !.pc = IF req[r].kind = "logout" THEN "revoking" ELSE "issuing"])
    /\ spent' = [spent EXCEPT ![req[r].token] = @ + 1]

(* Mutants: deleteMany, which does not mind a row that is gone, and a      *)
(* check that leaves the row for later.                                    *)
DeleteMany(r) ==
    /\ req[r].pc = "deleting"
    /\ rows' = rows \ {req[r].token}
    /\ IF req[r].valid
       THEN Consumed(r)
       ELSE Becomes(r, Throws(req[r], "refused")) /\ UNCHANGED spent
    /\ UNCHANGED <<expired, jar, owner, rooted>>

DeleteNothing(r) ==
    /\ req[r].pc = "deleting"
    /\ IF req[r].valid /\ req[r].token \in rows
       THEN Consumed(r)
       ELSE Becomes(r, Throws(req[r], "refused")) /\ UNCHANGED spent
    /\ UNCHANGED <<rows, expired, jar, owner, rooted>>

(* delete: of two handlers that read the same row only one finds it still  *)
(* there, and the other one's delete throws.                               *)
Delete(r) ==
    /\ req[r].pc = "deleting"
    /\ rows' = rows \ {req[r].token}
    /\ IF req[r].valid /\ req[r].token \in rows
       THEN Consumed(r)
       ELSE Becomes(r, Throws(req[r], "refused")) /\ UNCHANGED spent
    /\ UNCHANGED <<expired, jar, owner, rooted>>

-----------------------------------------------------------------------------
(* What follows a token that was consumed, and the answers.                *)

(* Mutant: logout revokes no more than the token it consumed.              *)
RevokeOne(r) ==
    /\ req[r].pc = "revoking"
    /\ Becomes(r, [req[r] EXCEPT !.pc = "answering"])
    /\ UNCHANGED <<rows, expired, jar, owner, spent, rooted>>

RevokeAllForUser(r) ==
    /\ req[r].pc = "revoking"
    /\ rows' = rows \ RowsOf(req[r].user)
    /\ Becomes(r, [req[r] EXCEPT !.pc = "answering"])
    /\ UNCHANGED <<expired, jar, owner, spent, rooted>>

(* issueTokens: no operation deletes a user, so the lookup finds it.       *)
IssueTokens(r, t) ==
    /\ req[r].pc = "issuing" /\ owner[t] = "none"
    /\ rows' = rows \cup {t}
    /\ owner' = [owner EXCEPT ![t] = req[r].user]
    /\ rooted' = IF req[r].kind = "login" THEN rooted \cup {t} ELSE rooted
    /\ Becomes(r, [req[r] EXCEPT !.pc = "answering", !.fresh = t])
    /\ UNCHANGED <<expired, jar, spent>>

(* Mutant: logout sets an empty cookie instead of clearing it.             *)
CookieEmptied(x) ==
    CASE x.kind = "login" -> x.fresh
      [] x.kind = "refresh" -> jar[x.browser]
      [] x.kind = "logout" -> ""

(* The refresh cookie an answer sets: login sets it, logout clears it, and *)
(* refresh sets the access cookie only.                                    *)
CookieAfter(x) ==
    CASE x.kind = "login" -> x.fresh
      [] x.kind = "refresh" -> jar[x.browser]
      [] x.kind = "logout" -> "none"

Answer(r) ==
    /\ req[r].pc = "answering"
    /\ jar' = [jar EXCEPT ![req[r].browser] = CookieAfter(req[r])]
    /\ Becomes(r, [req[r] EXCEPT !.pc = "done"])
    /\ UNCHANGED <<rows, expired, owner, spent, rooted>>

AnswerLost(r) ==
    /\ req[r].pc = "answering" /\ "lost" \in Faults
    /\ Becomes(r, [req[r] EXCEPT !.pc = "failed"])
    /\ UNCHANGED <<rows, expired, jar, owner, spent, rooted>>

(* The query the handler awaits fails, and changes nothing.                *)
QueryFails(r) ==
    /\ req[r].pc \in {"scanning", "deleting", "revoking", "issuing"}
    /\ "db" \in Faults
    /\ Becomes(r, Throws(req[r], "db"))
    /\ UNCHANGED <<rows, expired, jar, owner, spent, rooted>>

-----------------------------------------------------------------------------
(* Time, and the process.                                                  *)

Expire(t) ==
    /\ owner[t] # "none" /\ t \notin expired
    /\ expired' = expired \cup {t}
    /\ UNCHANGED <<rows, jar, req, owner, spent, rooted>>

(* The cookie has the lifetime of the token it holds.                      *)
CookieExpires(b) ==
    /\ jar[b] \in expired
    /\ jar' = [jar EXCEPT ![b] = "none"]
    /\ UNCHANGED <<rows, expired, req, owner, spent, rooted>>

Crash ==
    /\ "crash" \in Faults
    /\ \E r \in Requests : Active(r)
    /\ req' = [r \in Requests |->
                 IF Active(r) THEN [req[r] EXCEPT !.pc = "failed"] ELSE req[r]]
    /\ UNCHANGED <<rows, expired, jar, owner, spent, rooted>>

Quiet ==
    /\ \A r \in Requests : req[r].pc \in {"done", "failed"}
    /\ UNCHANGED vars

Arrive(r) ==
    \/ Unauthorized(r)
    \/ \E b \in Browsers :
         \/ \E u \in Users : Login(r, b, u)
         \/ Refresh(r, b) \/ Logout(r, b)

Step(r) ==
    \/ Scan(r) \/ Check(r) \/ Delete(r) \/ RevokeAllForUser(r)
    \/ \E t \in Tokens : IssueTokens(r, t)
    \/ Answer(r) \/ AnswerLost(r) \/ QueryFails(r)

Next ==
    \/ \E r \in Requests : Arrive(r) \/ Step(r)
    \/ \E t \in Tokens : Expire(t)
    \/ \E b \in Browsers : CookieExpires(b)
    \/ Crash \/ Quiet

Spec == Init /\ [][Next]_vars

-----------------------------------------------------------------------------

TypeOK ==
    /\ rows \subseteq Tokens /\ expired \subseteq Tokens /\ rooted \subseteq Tokens
    /\ jar \in [Browsers -> Tokens \cup {"none"}]
    /\ req \in [Requests -> Handlers]
    /\ owner \in [Tokens -> Users \cup {"none"}]
    /\ spent \in [Tokens -> Nat]

(* A refresh token is good for one use, however many tabs present it at    *)
(* the same time (consume).                                                *)
TokenSpentOnce == \A t \in Tokens : spent[t] <= 1

Rooted(u) == { t \in rooted : owner[t] = u }

(* Rotation replaces a session and never adds one: a user has no more live *)
(* tokens than there were logins (consume, then issueTokens).              *)
RotationAddsNoSession ==
    \A u \in Users :
        Cardinality(RowsOf(u)) <= Cardinality(Rooted(u))

(* After a logout is answered the token it presented is dead, unless the   *)
(* database failed: also when it had expired, and when a refresh or a      *)
(* second logout took it first.                                            *)
LogoutKillsItsToken ==
    \A r \in Requests :
        req[r].kind = "logout" /\ req[r].pc = "done" /\ req[r].caught # "db"
           => req[r].token \notin rows

(* A logout whose token was still good ends every session its user had     *)
(* when it arrived, in this browser or another (revokeAllForUser).         *)
GoodLogoutRevokesAll ==
    \A r \in Requests :
        req[r].kind = "logout" /\ req[r].pc = "done" /\ req[r].caught = "nothing"
           => req[r].earlier \cap rows = {}

-----------------------------------------------------------------------------
(* The inductive invariant behind the properties above.                    *)

(* A row belongs to a user and was not consumed; what was never issued is  *)
(* in no row, in no history and in no cookie.                              *)
RowsAreLive ==
    /\ \A t \in rows \cup rooted : owner[t] # "none"
    /\ \A t \in Tokens : spent[t] > 0 => owner[t] # "none" /\ t \notin rows
    /\ \A b \in Browsers : jar[b] # "none" => owner[jar[b]] # "none"

(* A handler holds tokens that were issued, and a logout past consume has  *)
(* left what it promises behind it.                                        *)
SoundHandler(x, live, user) ==
    /\ x.pc \notin {"idle", "failed"} => x.kind # "none"
    /\ x.token # "none" => user[x.token] # "none"
    /\ x.fresh # "none" => user[x.fresh] # "none"
    /\ x.pc \in {"scanning", "checking", "deleting"} =>
          x.token # "none" /\ x.kind # "login" /\ x.caught = "nothing"
    /\ x.pc = "issuing" => x.user # "none" /\ x.kind # "logout"
    /\ x.pc = "revoking" => x.user = user[x.token] /\ x.kind = "logout" /\ x.caught = "nothing"
    /\ x.kind = "logout" => \A t \in x.earlier :
          x.token # "none" /\ user[t] = user[x.token]
    /\ x.kind = "logout" /\ x.pc \in {"revoking", "answering", "done"} =>
          /\ x.caught # "db" => x.token \notin live
          /\ x.caught = "nothing" /\ x.pc # "revoking" => x.earlier \cap live = {}

(* A session being rotated is in no row, and still counts.                 *)
Rotating(u) ==
    { r \in Requests : req[r].kind = "refresh" /\ req[r].pc = "issuing" /\ req[r].user = u }

SessionsAreCounted ==
    \A u \in Users : Cardinality(RowsOf(u)) + Cardinality(Rotating(u)) <= Cardinality(Rooted(u))

Inv ==
    /\ TypeOK /\ TokenSpentOnce /\ RowsAreLive
    /\ \A r \in Requests : SoundHandler(req[r], rows, owner)
    /\ SessionsAreCounted

-----------------------------------------------------------------------------
(* What the repository's documents say and the code does not keep.         *)

(* "The refresh cookie is rotating: each POST /auth/refresh consumes the   *)
(* previous one and delivers a new one" (session persistence guide): when  *)
(* every request so far succeeded and nobody logged out, a browser that    *)
(* refreshed holds a cookie that the server knows.                         *)
RefreshKeepsSession ==
    (\A r \in Requests : ~Active(r) /\ req[r].pc # "failed" /\ req[r].kind # "logout")
       => \A r \in Requests :
             req[r].kind = "refresh" =>
                jar[req[r].browser] \in rows \cup expired \cup {"none"}

(* "POST /auth/logout revokes all refresh tokens for the user" (README):   *)
(* the tokens the user had when the logout arrived are gone once it is     *)
(* answered.                                                               *)
LogoutRevokesAll ==
    \A r \in Requests :
        req[r].kind = "logout" /\ req[r].pc = "done"
           => req[r].earlier \cap rows = {}
=============================================================================
