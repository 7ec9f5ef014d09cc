--------------------------- MODULE TenancyProofs ---------------------------
(***************************************************************************)
(* Isolation of the tenants and integrity of the signup, for any number of *)
(* tenants, users, tickets and requests.                                   *)
(***************************************************************************)
EXTENDS Tenancy, TLAPS

-----------------------------------------------------------------------------
(* applyTenantScope.                                                       *)

(* Whatever arguments a caller passes, a where clause of a tenant-owned    *)
(* model names the tenant of the context and no other.                     *)
LEMMA ScopedWhere ==
  ASSUME NEW model, model \notin AdminModels, NEW args, NEW t,
         NEW operation, operation \notin {"create", "createMany"}
  PROVE  /\ "tenantId" \in DOMAIN Scope(model, operation, args, t).where
         /\ Scope(model, operation, args, t).where["tenantId"] = t
<1>1. CASE operation = "upsert"
  BY <1>1 DEF Scope, Stamp, With
<1>2. CASE operation # "upsert"
  BY <1>2 DEF Scope, Stamp, With
<1> QED
  BY <1>1, <1>2

(* What is created is stamped with the tenant, and is otherwise as given.  *)
LEMMA ScopedData ==
  ASSUME NEW model, model \notin AdminModels, NEW data, NEW t
  PROVE  Scope(model, "create", [data |-> data], t).data = Stamp(data, t)
<1>1. Scope(model, "create", [data |-> data], t)
        = With([data |-> data], "data", Stamp(data, t))
  BY DEF Scope
<1> QED
  BY <1>1 DEF With

LEMMA StampedTicket ==
  ASSUME NEW i, NEW s, NEW t, NEW u
  PROVE  Stamp([id |-> i, status |-> s, tenantId |-> t], u)
           = [id |-> i, status |-> s, tenantId |-> u]
BY DEF Stamp, With

(* No query of a request selects a row of another tenant.                  *)
LEMMA QueryStaysInTenant ==
  ASSUME NEW r, NEW operation \in {"findMany", "findUnique", "update", "delete"}, NEW where
  PROVE  /\ Query(r, operation, where) \subseteq tickets
         /\ \A row \in Query(r, operation, where) : row.tenantId = req[r].tenantId
<1>1. "Ticket" \notin AdminModels /\ operation \notin {"create", "createMany"}
  BY DEF AdminModels
<1>2. Query(r, operation, where) =
        Matching(Scope("Ticket", operation, [where |-> where], req[r].tenantId).where)
  BY DEF Query
<1> QED
  BY <1>1, <1>2, ScopedWhere DEF Matching

(* A query by id selects the rows with that id that the tenant owns.       *)
LEMMA QueryById ==
  ASSUME NEW r, NEW operation \in {"findUnique", "update", "delete"}, NEW i
  PROVE  Query(r, operation, [id |-> i])
           = { row \in tickets : row.id = i /\ row.tenantId = req[r].tenantId }
<1> DEFINE args == [where |-> [id |-> i]]
           t == req[r].tenantId
<1>1. Scope("Ticket", operation, args, t) = With(args, "where", Stamp([id |-> i], t))
  BY DEF Scope, AdminModels
<1>2. Scope("Ticket", operation, args, t).where = Stamp([id |-> i], t)
  BY <1>1 DEF With
<1>3. /\ DOMAIN Stamp([id |-> i], t) = {"id", "tenantId"}
      /\ Stamp([id |-> i], t)["tenantId"] = t
      /\ Stamp([id |-> i], t)["id"] = i
  BY DEF Stamp, With
<1> QED
  BY <1>2, <1>3 DEF Query, Matching
-----------------------------------------------------------------------------
(* Local states.                                                           *)

(* The fields of a local state, spelled out for the provers.               *)
LEMMA HandlerFields ==
  ASSUME NEW x \in Handlers
  PROVE  /\ x.pc \in {"idle", "tenant", "user", "commit", "querying", "writing",
                      "done", "failed"}
         /\ x.kind \in {"none", "signup", "create", "findAll", "findOne", "update", "remove"}
         /\ x.user \in Emails \cup {"none"} /\ x.tenantId \in Tenants \cup {"none"}
         /\ x.email \in Emails \cup {"none"} /\ x.slug \in Slugs \cup {"none"}
         /\ x.ticket \in Tickets \cup {"none"} /\ x.status \in Statuses \cup {"none"}
         /\ x.answer \subseteq Tickets
BY DEF Handlers

LEMMA EmptyHandlers ==
  /\ Start \in Handlers /\ Start.pc = "idle" /\ Start.kind = "none" /\ Start.answer = {}
  /\ Failed \in Handlers /\ Failed.pc = "failed" /\ Failed.kind = "none" /\ Failed.answer = {}
BY DEF Start, Failed, Handlers

(* The part of the invariant that speaks about tickets and contexts.       *)
Base ==
  TypeOK /\ TicketsAreBorn /\ AnswersStayInTenant /\ RemoveIsFinal /\ ContextIsVerified

(* A local state that may follow while the tables stay as they are.        *)
Admissible(x) ==
  /\ x \in Handlers
  /\ IF x.pc \in {"idle", "failed"} THEN x.kind = "none" ELSE x.tenantId \in Tenants
  /\ x.answer # {} => x.pc = "done"
  /\ x.kind \in {"findOne", "update", "remove"} => x.ticket \in Tickets
  /\ \A i \in x.answer : birth[i] = x.tenantId
  /\ ~(x.kind = "remove" /\ x.pc = "done")
  /\ ~allowHeader /\ x.kind \notin {"none", "signup"} =>
        x.user # "none" /\ users[x.user] = x.tenantId

LEMMA FailedAdmissible == Admissible(Failed)
BY EmptyHandlers DEF Admissible

LEMMA LocalStep ==
  ASSUME Base, NEW r \in Requests, NEW x, Admissible(x), Becomes(r, x),
         UNCHANGED <<tenants, users, tickets, allowHeader, birth>>
  PROVE  Base'
<1>1. \A q \in Requests : req'[q] = IF q = r THEN x ELSE req[q]
  BY DEF Base, TypeOK, Becomes
<1>2. TypeOK'
  BY DEF Base, TypeOK, Becomes, Admissible
<1>3. TicketsAreBorn'
  BY <1>1 DEF Base, TicketsAreBorn, Admissible
<1>4. AnswersStayInTenant'
  BY <1>1 DEF Base, AnswersStayInTenant, Admissible
<1>5. RemoveIsFinal'
  BY <1>1 DEF Base, RemoveIsFinal, Admissible
<1>6. ContextIsVerified'
  BY <1>1 DEF Base, ContextIsVerified, Admissible
<1> QED
  BY <1>2, <1>3, <1>4, <1>5, <1>6 DEF Base

LEMMA FailsBase ==
  ASSUME Base, NEW r \in Requests, Fails(r),
         UNCHANGED <<tenants, users, tickets, allowHeader, birth>>
  PROVE  Base'
BY FailedAdmissible, LocalStep DEF Fails

(* Every context names a tenant, and a token a user of it.                 *)
LEMMA ContextFacts ==
  ASSUME Base, NEW header \in Tenants \cup {"none"},
         NEW bearer \in AccessTokens \cup {NoContext},
         NEW cookie \in AccessTokens \cup {NoContext},
         Context(header, bearer, cookie) # NoContext
  PROVE  LET c == Context(header, bearer, cookie)
         IN  /\ c.user \in Emails \cup {"none"} /\ c.tenantId \in Tenants
             /\ ~allowHeader => c.user # "none" /\ users[c.user] = c.tenantId
<1>1. \A token \in AccessTokens :
        /\ token.user \in Emails /\ token.tenantId \in Tenants
        /\ users[token.user] = token.tenantId
  BY DEF Base, TypeOK, AccessTokens
<1> QED
  BY <1>1, TenancyAssumption DEF Context, NoContext

LEMMA TicketRequestBase ==
  ASSUME Base, NEW r \in Requests, NEW context,
         context.user \in Emails \cup {"none"}, context.tenantId \in Tenants,
         ~allowHeader => context.user # "none" /\ users[context.user] = context.tenantId,
         NEW kind \in {"create", "findAll", "findOne", "update", "remove"},
         NEW i \in Tickets \cup {"none"}, NEW status \in Statuses \cup {"none"},
         kind \in {"findOne", "update", "remove"} => i \in Tickets,
         TicketRequest(r, context, kind, i, status)
  PROVE  Base'
<1> DEFINE x == [Start EXCEPT !.pc = "querying", !.kind = kind,
                              !.user = context.user, !.tenantId = context.tenantId,
                              !.ticket = i, !.status = status]
<1>1. /\ x \in Handlers /\ x.pc = "querying" /\ x.kind = kind /\ x.answer = {}
      /\ x.user = context.user /\ x.tenantId = context.tenantId /\ x.ticket = i
  BY DEF Start, Handlers
<1>2. Becomes(r, x)
  BY DEF TicketRequest
<1> HIDE DEF x
<1>3. Admissible(x)
  BY <1>1 DEF Admissible
<1> QED
  BY <1>2, <1>3, LocalStep DEF TicketRequest

LEMMA SignupBase ==
  ASSUME Base, NEW r \in Requests, NEW e \in Emails, NEW s \in Slugs, NEW t \in Tenants,
         Signup(r, e, s, t)
  PROVE  Base'
<1> DEFINE x == [Start EXCEPT !.pc = "tenant", !.kind = "signup", !.tenantId = t,
                              !.email = e, !.slug = s]
<1>1. /\ x \in Handlers /\ x.pc = "tenant" /\ x.kind = "signup" /\ x.answer = {}
      /\ x.tenantId = t
  BY DEF Start, Handlers
<1>2. Becomes(r, x)
  BY DEF Signup
<1> HIDE DEF x
<1>3. Admissible(x)
  BY <1>1 DEF Admissible
<1> QED
  BY <1>2, <1>3, LocalStep DEF Signup

LEMMA ArriveBase ==
  ASSUME Base, NEW r \in Requests, Arrive(r)
  PROVE  Base'
<1>1. CASE Rejected(r)
  BY <1>1, FailsBase DEF Rejected
<1>2. ASSUME NEW e \in Emails, NEW s \in Slugs, NEW t \in Tenants, Signup(r, e, s, t)
      PROVE  Base'
  BY <1>2, SignupBase
<1>3. ASSUME NEW header \in Tenants \cup {"none"},
             NEW bearer \in AccessTokens \cup {NoContext},
             NEW cookie \in AccessTokens \cup {NoContext},
             TicketRequests(r, Context(header, bearer, cookie))
      PROVE  Base'
  <2> DEFINE c == Context(header, bearer, cookie)
  <2>1. c # NoContext
    BY <1>3 DEF TicketRequests, TicketRequest
  <2>2. /\ c.user \in Emails \cup {"none"} /\ c.tenantId \in Tenants
        /\ ~allowHeader => c.user # "none" /\ users[c.user] = c.tenantId
    BY <2>1, ContextFacts
  <2> HIDE DEF c
  <2>3. CASE TicketRequest(r, c, "create", "none", "none")
    BY <2>2, <2>3, TicketRequestBase
  <2>4. ASSUME NEW status \in Statuses \cup {"none"},
               TicketRequest(r, c, "findAll", "none", status)
        PROVE  Base'
    BY <2>2, <2>4, TicketRequestBase
  <2>5. ASSUME NEW status \in Statuses \cup {"none"}, NEW i \in Tickets,
               TicketRequest(r, c, "update", i, status)
        PROVE  Base'
    BY <2>2, <2>5, TicketRequestBase
  <2>6. ASSUME NEW i \in Tickets, NEW kind \in {"findOne", "remove"},
               TicketRequest(r, c, kind, i, "none")
        PROVE  Base'
    BY <2>2, <2>6, TicketRequestBase
  <2>7. TicketRequests(r, c)
    BY <1>3 DEF c
  <2> QED
    BY <2>3, <2>4, <2>5, <2>6, <2>7 DEF TicketRequests
<1> QED
  BY <1>1, <1>2, <1>3 DEF Arrive
-----------------------------------------------------------------------------
(* The ticket operations.                                                  *)

(* A handler that goes on: what it was is what it stays.                   *)
LEMMA OwnStep ==
  ASSUME Base, NEW r \in Requests, req[r].pc \notin {"idle", "failed"}
  PROVE  /\ req[r] \in Handlers /\ req[r].tenantId \in Tenants
         /\ req[r].kind \in {"findOne", "update", "remove"} => req[r].ticket \in Tickets
         /\ ~allowHeader /\ req[r].kind \notin {"none", "signup"} =>
               req[r].user # "none" /\ users[req[r].user] = req[r].tenantId
BY DEF Base, TypeOK, TicketsAreBorn, ContextIsVerified

LEMMA AnswerFields ==
  ASSUME NEW x \in Handlers, NEW ids \in SUBSET Tickets
  PROVE  LET y == [x EXCEPT !.pc = "done", !.answer = ids]
         IN  /\ y \in Handlers /\ y.pc = "done" /\ y.answer = ids /\ y.kind = x.kind
             /\ y.user = x.user /\ y.tenantId = x.tenantId /\ y.ticket = x.ticket
             /\ y.email = x.email /\ y.slug = x.slug
BY DEF Handlers

LEMMA PcFields ==
  ASSUME NEW x \in Handlers, NEW pc \in {"user", "commit", "writing"}
  PROVE  LET y == [x EXCEPT !.pc = pc]
         IN  /\ y \in Handlers /\ y.pc = pc /\ y.answer = x.answer /\ y.kind = x.kind
             /\ y.user = x.user /\ y.tenantId = x.tenantId /\ y.ticket = x.ticket
             /\ y.email = x.email /\ y.slug = x.slug
BY DEF Handlers

LEMMA AnswersBase ==
  ASSUME Base, NEW r \in Requests, req[r].pc \notin {"idle", "failed"},
         req[r].kind # "remove", NEW ids \in SUBSET Tickets,
         \A i \in ids : birth[i] = req[r].tenantId, Answers(r, ids),
         UNCHANGED <<tenants, users, tickets, allowHeader, birth>>
  PROVE  Base'
<1> DEFINE y == [req[r] EXCEPT !.pc = "done", !.answer = ids]
<1>1. /\ y \in Handlers /\ y.pc = "done" /\ y.answer = ids /\ y.kind = req[r].kind
      /\ y.user = req[r].user /\ y.tenantId = req[r].tenantId /\ y.ticket = req[r].ticket
  BY OwnStep, AnswerFields
<1>2. Becomes(r, y)
  BY DEF Answers
<1> HIDE DEF y
<1>3. Admissible(y)
  BY <1>1, OwnStep DEF Admissible
<1> QED
  BY <1>2, <1>3, LocalStep

LEMMA GoesOnBase ==
  ASSUME Base, NEW r \in Requests, req[r].pc \notin {"idle", "failed", "done"},
         NEW pc \in {"user", "commit", "writing"}, Becomes(r, [req[r] EXCEPT !.pc = pc]),
         UNCHANGED <<tenants, users, tickets, allowHeader, birth>>
  PROVE  Base'
<1> DEFINE y == [req[r] EXCEPT !.pc = pc]
<1>1. /\ y \in Handlers /\ y.pc = pc /\ y.answer = req[r].answer /\ y.kind = req[r].kind
      /\ y.user = req[r].user /\ y.tenantId = req[r].tenantId /\ y.ticket = req[r].ticket
  BY OwnStep, PcFields
<1>2. Becomes(r, y)
  OBVIOUS
<1> HIDE DEF y
<1>3. req[r].answer = {}
  BY DEF Base, TicketsAreBorn
<1>4. Admissible(y)
  BY <1>1, <1>3, OwnStep DEF Admissible
<1> QED
  BY <1>2, <1>4, LocalStep

LEMMA CreateTicketBase ==
  ASSUME Base, NEW r \in Requests, NEW i \in Tickets, CreateTicket(r, i)
  PROVE  Base'
<1> DEFINE t == req[r].tenantId
<1>1. req[r].pc = "querying" /\ req[r].kind = "create" /\ birth[i] = "none"
  BY DEF CreateTicket
<1>2. t \in Tenants /\ req[r] \in Handlers
  BY <1>1, OwnStep
<1>3. CASE tenants[t] = "none"
  BY <1>3, FailsBase DEF CreateTicket
<1>4. CASE tenants[t] # "none"
  <2> DEFINE y == [req[r] EXCEPT !.pc = "done", !.answer = {i}]
             row == [id |-> i, status |-> "OPEN", tenantId |-> t]
  <2>1. /\ y \in Handlers /\ y.pc = "done" /\ y.answer = {i} /\ y.kind = "create"
        /\ y.user = req[r].user /\ y.tenantId = t
    <3>1. {i} \in SUBSET Tickets
      OBVIOUS
    <3> QED
      BY <1>1, <1>2, <3>1, AnswerFields
  <2>2. Becomes(r, y)
    BY <1>4 DEF CreateTicket, Answers
  <2>3. Scope("Ticket", "create", [data |-> row], t).data = Stamp(row, t)
    BY ScopedData DEF AdminModels
  <2>4. Stamp(row, t) = row
    BY StampedTicket
  <2>5. tickets' = tickets \cup {row}
    BY <1>4, <2>3, <2>4 DEF CreateTicket
  <2>6. row \in Rows /\ row.id = i /\ row.tenantId = t
    BY <1>2 DEF Rows, Statuses
  <2>7. /\ birth' = [birth EXCEPT ![i] = t]
        /\ UNCHANGED <<tenants, users, allowHeader>>
    BY <1>4 DEF CreateTicket
  <2> HIDE DEF y, row, t
  <2>8. \A q \in Requests : req'[q] = IF q = r THEN y ELSE req[q]
    BY <2>2 DEF Base, TypeOK, Becomes
  <2>9. /\ birth'[i] = t /\ birth[i] = "none"
        /\ \A j \in Tickets : j # i => birth'[j] = birth[j]
    BY <1>1, <2>7 DEF Base, TypeOK
  <2>10. TypeOK'
    BY <1>2, <2>1, <2>2, <2>5, <2>6, <2>7 DEF Base, TypeOK, Becomes
  <2>11. TicketsAreBorn'
    <3>1. \A other \in tickets : other.id \in Tickets /\ other.id # i
      BY <2>9, TenancyAssumption DEF Base, TypeOK, TicketsAreBorn, Rows
    <3>2. \A other \in tickets' : birth'[other.id] = other.tenantId
      BY <2>5, <2>6, <2>9, <3>1 DEF Base, TicketsAreBorn
    <3> QED
      BY <1>2, <2>1, <2>8, <2>9, <3>2, TenancyAssumption DEF Base, TicketsAreBorn
  <2>12. AnswersStayInTenant'
    <3>1. ASSUME NEW q \in Requests, q # r, NEW j \in req[q].answer
          PROVE  birth'[j] = req[q].tenantId
      <4>1. req[q].tenantId \in Tenants /\ birth[j] = req[q].tenantId /\ j \in Tickets
        BY <3>1, HandlerFields DEF Base, TypeOK, TicketsAreBorn, AnswersStayInTenant
      <4>2. j # i
        BY <2>9, <4>1, TenancyAssumption
      <4> QED
        BY <2>9, <4>1, <4>2
    <3> QED
      BY <2>1, <2>8, <2>9, <3>1 DEF AnswersStayInTenant
  <2>13. RemoveIsFinal'
    <3>1. ASSUME NEW q \in Requests, q # r, req[q].kind = "remove", req[q].pc = "done"
          PROVE  req[q].ticket # i
      BY <2>9, <3>1 DEF Base, TicketsAreBorn
    <3> QED
      BY <2>1, <2>5, <2>6, <2>8, <3>1 DEF Base, RemoveIsFinal
  <2>14. ContextIsVerified'
    BY <1>1, <2>1, <2>7, <2>8 DEF Base, ContextIsVerified, t
  <2> QED
    BY <2>10, <2>11, <2>12, <2>13, <2>14 DEF Base
<1> QED
  BY <1>3, <1>4

LEMMA FindAllBase ==
  ASSUME Base, NEW r \in Requests, FindAll(r)
  PROVE  Base'
<1> DEFINE where == IF req[r].status = "none" THEN << >> ELSE [status |-> req[r].status]
           ids == { row.id : row \in Query(r, "findMany", where) }
<1>1. /\ req[r].pc = "querying" /\ req[r].kind = "findAll" /\ Answers(r, ids)
      /\ UNCHANGED <<tenants, users, tickets, allowHeader, birth>>
  BY DEF FindAll
<1> HIDE DEF where
<1>2. ids \in SUBSET Tickets /\ \A i \in ids : birth[i] = req[r].tenantId
  BY QueryStaysInTenant DEF Base, TypeOK, Rows, TicketsAreBorn
<1> HIDE DEF ids
<1> QED
  BY <1>1, <1>2, AnswersBase

LEMMA FindOneBase ==
  ASSUME Base, NEW r \in Requests, FindOne(r)
  PROVE  Base'
<1> DEFINE found == Query(r, "findUnique", [id |-> req[r].ticket])
<1>1. /\ req[r].pc = "querying" /\ req[r].kind \in {"findOne", "update", "remove"}
      /\ UNCHANGED <<tenants, users, tickets, allowHeader, birth>>
  BY DEF FindOne
<1>2. CASE found = {}
  BY <1>1, <1>2, FailsBase DEF FindOne
<1>3. CASE found # {} /\ req[r].kind = "findOne"
  <2>1. Answers(r, {req[r].ticket})
    BY <1>3 DEF FindOne
  <2>2. \E row \in tickets : row.id = req[r].ticket /\ row.tenantId = req[r].tenantId
    BY <1>3, QueryById
  <2>3. {req[r].ticket} \in SUBSET Tickets /\ birth[req[r].ticket] = req[r].tenantId
    BY <1>1, <2>2, OwnStep DEF Base, TicketsAreBorn
  <2> QED
    BY <1>1, <1>3, <2>1, <2>3, AnswersBase
<1>4. CASE found # {} /\ req[r].kind # "findOne"
  <2>1. Becomes(r, [req[r] EXCEPT !.pc = "writing"])
    BY <1>4 DEF FindOne
  <2> QED
    BY <1>1, <2>1, GoesOnBase
<1> QED
  BY <1>2, <1>3, <1>4

(* An operation that may drop or change rows, but adds no new id and moves *)
(* no row to another tenant.                                               *)
LEMMA RowsStay ==
  ASSUME Base, NEW r \in Requests, NEW y \in Handlers, Becomes(r, y),
         req[r].pc \notin {"idle", "failed"},
         y.kind = req[r].kind, y.user = req[r].user, y.tenantId = req[r].tenantId,
         y.ticket = req[r].ticket, y.pc = "done", \A i \in y.answer : birth[i] = y.tenantId,
         tickets' \subseteq Rows,
         \A row \in tickets' : \E old \in tickets :
            row.id = old.id /\ row.tenantId = old.tenantId,
         y.kind = "remove" =>
            /\ birth[y.ticket] # "none" /\ \A row \in tickets' : row.id # y.ticket
            /\ \E row \in tickets : row.id = y.ticket,
         UNCHANGED <<tenants, users, allowHeader, birth>>
  PROVE  Base'
<1>1. \A q \in Requests : req'[q] = IF q = r THEN y ELSE req[q]
  BY DEF Base, TypeOK, Becomes
<1>2. TypeOK'
  BY DEF Base, TypeOK, Becomes
<1>3. TicketsAreBorn'
  BY <1>1, OwnStep DEF Base, TicketsAreBorn
<1>4. AnswersStayInTenant'
  BY <1>1 DEF Base, AnswersStayInTenant
<1>5. RemoveIsFinal'
  <2>1. ASSUME NEW q \in Requests, q # r, req[q].kind = "remove", req[q].pc = "done"
        PROVE  /\ \A row \in tickets' : row.id # req[q].ticket
               /\ y.kind = "remove" => y.ticket # req[q].ticket
    BY <2>1 DEF Base, RemoveIsFinal
  <2> QED
    BY <1>1, <2>1 DEF Base, RemoveIsFinal
<1>6. ContextIsVerified'
  BY <1>1, OwnStep DEF Base, ContextIsVerified
<1> QED
  BY <1>2, <1>3, <1>4, <1>5, <1>6 DEF Base

LEMMA UpdateTicketBase ==
  ASSUME Base, NEW r \in Requests, UpdateTicket(r)
  PROVE  Base'
<1> DEFINE i == req[r].ticket
           t == req[r].tenantId
           found == Query(r, "update", [id |-> i])
           changed(row) == IF req[r].status = "none" THEN row
                           ELSE [row EXCEPT !.status = req[r].status]
<1>1. /\ req[r].pc = "writing" /\ req[r].kind = "update"
      /\ tickets' = (tickets \ found) \cup { changed(row) : row \in found }
      /\ IF found = {} THEN Fails(r) ELSE Answers(r, {i})
      /\ UNCHANGED <<tenants, users, allowHeader, birth>>
  BY DEF UpdateTicket
<1>2. found = { row \in tickets : row.id = i /\ row.tenantId = t }
  BY QueryById
<1>3. req[r] \in Handlers /\ i \in Tickets /\ req[r].status \in Statuses \cup {"none"}
  BY <1>1, OwnStep, HandlerFields
<1>4. \A row \in Rows : /\ changed(row) \in Rows /\ changed(row).id = row.id
                        /\ changed(row).tenantId = row.tenantId
  BY <1>3 DEF Rows
<1> HIDE DEF found, changed
<1>5. /\ tickets' \subseteq Rows
      /\ \A row \in tickets' : \E old \in tickets :
            row.id = old.id /\ row.tenantId = old.tenantId
  BY <1>1, <1>2, <1>4 DEF Base, TypeOK
<1>6. CASE found = {}
  <2>1. tickets' = tickets
    BY <1>1, <1>6
  <2> QED
    BY <1>1, <1>6, <2>1, FailsBase
<1>7. CASE found # {}
  <2> DEFINE y == [req[r] EXCEPT !.pc = "done", !.answer = {i}]
  <2>1. /\ y \in Handlers /\ y.pc = "done" /\ y.answer = {i} /\ y.kind = "update"
        /\ y.user = req[r].user /\ y.tenantId = t /\ y.ticket = i
    <3>1. {i} \in SUBSET Tickets
      BY <1>3
    <3> QED
      BY <1>1, <1>3, <3>1, AnswerFields
  <2>2. Becomes(r, y)
    BY <1>1, <1>7 DEF Answers
  <2> HIDE DEF y
  <2>3. birth[i] = t
    BY <1>2, <1>7 DEF Base, TicketsAreBorn
  <2> QED
    BY <1>1, <1>5, <2>1, <2>2, <2>3, RowsStay
<1> QED
  BY <1>6, <1>7

LEMMA RemoveTicketBase ==
  ASSUME Base, NEW r \in Requests, RemoveTicket(r)
  PROVE  Base'
<1> DEFINE i == req[r].ticket
           t == req[r].tenantId
           found == Query(r, "delete", [id |-> i])
<1>1. /\ req[r].pc = "writing" /\ req[r].kind = "remove"
      /\ tickets' = tickets \ found
      /\ IF found = {} THEN Fails(r) ELSE Answers(r, {i})
      /\ UNCHANGED <<tenants, users, allowHeader, birth>>
  BY DEF RemoveTicket
<1>2. found = { row \in tickets : row.id = i /\ row.tenantId = t }
  BY QueryById
<1>3. req[r] \in Handlers /\ i \in Tickets /\ t \in Tenants
  BY <1>1, OwnStep
<1> HIDE DEF found
<1>4. CASE found = {}
  <2>1. tickets' = tickets
    BY <1>1, <1>4
  <2> QED
    BY <1>1, <1>4, <2>1, FailsBase
<1>5. CASE found # {}
  <2> DEFINE y == [req[r] EXCEPT !.pc = "done", !.answer = {i}]
  <2>1. /\ y \in Handlers /\ y.pc = "done" /\ y.answer = {i} /\ y.kind = "remove"
        /\ y.user = req[r].user /\ y.tenantId = t /\ y.ticket = i
    <3>1. {i} \in SUBSET Tickets
      BY <1>3
    <3> QED
      BY <1>1, <1>3, <3>1, AnswerFields
  <2>2. Becomes(r, y)
    BY <1>1, <1>5 DEF Answers
  <2> HIDE DEF y
  <2>3. PICK gone \in tickets : gone.id = i /\ gone.tenantId = t
    BY <1>2, <1>5
  <2>4. birth[i] = t /\ birth[i] # "none"
    BY <1>3, <2>3, TenancyAssumption DEF Base, TicketsAreBorn
  <2>5. \A row \in tickets' : row.id # i
    BY <1>1, <1>2, <2>4 DEF Base, TicketsAreBorn
  <2>6. /\ tickets' \subseteq Rows
        /\ \A row \in tickets' : \E old \in tickets :
              row.id = old.id /\ row.tenantId = old.tenantId
    BY <1>1 DEF Base, TypeOK
  <2> QED
    BY <1>1, <2>1, <2>2, <2>3, <2>4, <2>5, <2>6, RowsStay
<1> QED
  BY <1>4, <1>5

LEMMA CrashBase ==
  ASSUME Base, Crash
  PROVE  Base'
<1>1. /\ req' = [r \in Requests |-> IF Active(r) THEN Failed ELSE req[r]]
      /\ UNCHANGED <<tenants, users, tickets, allowHeader, birth>>
  BY DEF Crash
<1>2. \A r \in Requests : req'[r] = Failed \/ req'[r] = req[r]
  BY <1>1
<1>3. TypeOK'
  BY <1>1, EmptyHandlers DEF Base, TypeOK
<1>4. TicketsAreBorn'
  BY <1>1, <1>2, EmptyHandlers DEF Base, TicketsAreBorn
<1>5. AnswersStayInTenant'
  BY <1>1, <1>2, EmptyHandlers DEF Base, AnswersStayInTenant
<1>6. RemoveIsFinal'
  BY <1>1, <1>2, EmptyHandlers DEF Base, RemoveIsFinal
<1>7. ContextIsVerified'
  BY <1>1, <1>2, EmptyHandlers DEF Base, ContextIsVerified
<1> QED
  BY <1>3, <1>4, <1>5, <1>6, <1>7 DEF Base
-----------------------------------------------------------------------------
(* The signup.                                                             *)

Signups == TransactionsHold /\ SignupAllOrNothing /\ SignupOwns

LEMMA CommitBase ==
  ASSUME Base, Signups, NEW r \in Requests, Commit(r)
  PROVE  /\ Base'
         /\ tenants' = [tenants EXCEPT ![req[r].tenantId] = req[r].slug]
         /\ users' = [users EXCEPT ![req[r].email] = req[r].tenantId]
         /\ \A q \in Requests : q # r => req'[q] = req[q]
         /\ req'[r] = [req[r] EXCEPT !.pc = "done", !.answer = {}]
         /\ users[req[r].email] = "none" /\ req[r].email \in Emails
<1> DEFINE t == req[r].tenantId
           data == [email |-> req[r].email, tenantId |-> t]
           y == [req[r] EXCEPT !.pc = "done", !.answer = {}]
<1>1. /\ req[r].pc = "commit" /\ Answers(r, {})
      /\ tenants' = [tenants EXCEPT ![t] = req[r].slug]
      /\ users' = [users EXCEPT ![req[r].email] =
                     Scope("User", "create", [data |-> data], t).data.tenantId]
      /\ UNCHANGED <<tickets, allowHeader, birth>>
  BY DEF Commit
<1>2. /\ req[r].kind = "signup" /\ req[r].email \in Emails /\ req[r].slug \in Slugs
      /\ users[req[r].email] = "none" /\ tenants[t] = "none"
  BY <1>1 DEF Signups, TransactionsHold, Signing
<1>3. req[r] \in Handlers /\ t \in Tenants
  BY <1>1, OwnStep
<1>4. Scope("User", "create", [data |-> data], t).data = Stamp(data, t)
  BY ScopedData DEF AdminModels
<1>5. Stamp(data, t).tenantId = t
  BY DEF Stamp, With
<1>6. users' = [users EXCEPT ![req[r].email] = t]
  BY <1>1, <1>4, <1>5
<1>7. /\ y \in Handlers /\ y.pc = "done" /\ y.answer = {} /\ y.kind = "signup"
  BY <1>2, <1>3, AnswerFields
<1>8. y.tenantId = t
  BY <1>3, AnswerFields
<1> HIDE DEF data
<1>9. \A q \in Requests : req'[q] = IF q = r THEN y ELSE req[q]
  BY <1>1 DEF Base, TypeOK, Answers, Becomes
<1> HIDE DEF y
<1>10. TypeOK'
  BY <1>1, <1>2, <1>3, <1>6, <1>7 DEF Base, TypeOK, Answers, Becomes, y
<1>11. TicketsAreBorn'
  BY <1>1, <1>3, <1>7, <1>8, <1>9 DEF Base, TicketsAreBorn
<1>12. AnswersStayInTenant'
  BY <1>1, <1>7, <1>9 DEF Base, AnswersStayInTenant
<1>13. RemoveIsFinal'
  BY <1>1, <1>7, <1>9 DEF Base, RemoveIsFinal
<1>14. ContextIsVerified'
  <2>1. ASSUME NEW q \in Requests, q # r, ~allowHeader, req[q].kind \notin {"none", "signup"}
        PROVE  req[q].user # "none" /\ users'[req[q].user] = req[q].tenantId
    <3>1. /\ req[q].user # "none" /\ users[req[q].user] = req[q].tenantId
          /\ req[q].user \in Emails
      BY <2>1, HandlerFields DEF Base, TypeOK, ContextIsVerified
    <3>2. req[q].tenantId \in Tenants /\ req[r].email # req[q].user
      BY <1>2, <2>1, <3>1, TenancyAssumption DEF Base, TicketsAreBorn
    <3> QED
      BY <1>2, <1>6, <3>1, <3>2 DEF Base, TypeOK
  <2> QED
    BY <1>1, <1>7, <1>9, <2>1 DEF ContextIsVerified
<1>15. Base'
  BY <1>10, <1>11, <1>12, <1>13, <1>14 DEF Base
<1> QED
  BY <1>1, <1>2, <1>6, <1>9, <1>15 DEF y

LEMMA ServeBase ==
  ASSUME Base, Signups, NEW r \in Requests, Serve(r)
  PROVE  Base'
<1>1. CASE InsertTenant(r)
  BY <1>1, FailsBase, GoesOnBase DEF InsertTenant
<1>2. CASE InsertUser(r)
  BY <1>2, FailsBase, GoesOnBase DEF InsertUser
<1> QED
  BY <1>1, <1>2, CreateTicketBase, FindAllBase, FindOneBase, UpdateTicketBase,
     RemoveTicketBase, CommitBase DEF Serve

LEMMA NextBase ==
  ASSUME Base, Signups, [Next]_vars
  PROVE  Base'
<1>1. CASE UNCHANGED vars
  BY <1>1 DEF vars, Base, TypeOK, TicketsAreBorn, AnswersStayInTenant, RemoveIsFinal,
              ContextIsVerified
<1>2. CASE Quiet
  BY <1>1, <1>2 DEF Quiet
<1>3. ASSUME NEW r \in Requests, QueryFails(r)
      PROVE  Base'
  BY <1>3, FailsBase DEF QueryFails
<1> QED
  BY <1>1, <1>2, <1>3, CrashBase, ArriveBase, ServeBase DEF Next

LEMMA InitBase ==
  ASSUME Init
  PROVE  Base
<1>1. \A r \in Requests : req[r] = Start
  BY DEF Init
<1>2. ASSUME NEW row \in tickets
      PROVE  birth[row.id] = row.tenantId
  <2>1. row.id \in Tickets /\ row.tenantId \in Tenants
    BY DEF Init, Rows
  <2>2. \A other \in tickets : other.id = row.id => other = row
    BY DEF Init, Consistent
  <2>3. (CHOOSE other \in tickets : other.id = row.id) = row
    BY <2>2
  <2> QED
    BY <2>1, <2>3 DEF Init
<1>3. birth \in [Tickets -> Tenants \cup {"none"}]
  <2>1. ASSUME NEW i \in Tickets, \E row \in tickets : row.id = i
        PROVE  (CHOOSE row \in tickets : row.id = i).tenantId \in Tenants
    BY <2>1 DEF Init, Rows
  <2> QED
    BY <2>1 DEF Init
<1>4. TypeOK
  BY <1>3, EmptyHandlers DEF Init, TypeOK
<1> QED
  BY <1>1, <1>2, <1>4, EmptyHandlers
     DEF Base, TicketsAreBorn, AnswersStayInTenant, RemoveIsFinal, ContextIsVerified
(* A step that makes no handler sign up leaves the signups as they are.    *)
LEMMA OtherHandlers ==
  ASSUME Signups, UNCHANGED <<tenants, users>>,
         \A q \in Requests : req'[q] = req[q] \/ (req'[q].kind # "signup" /\
            req'[q].pc \notin {"tenant", "user", "commit"})
  PROVE  Signups'
<1>1. TransactionsHold'
  BY DEF Signups, TransactionsHold, Signing
<1>2. SignupAllOrNothing'
  BY DEF Signups, SignupAllOrNothing
<1>3. SignupOwns'
  BY DEF Signups, SignupOwns
<1> QED
  BY <1>1, <1>2, <1>3 DEF Signups

LEMMA OtherStep ==
  ASSUME Base, Signups, NEW r \in Requests, NEW x, Becomes(r, x), x.kind # "signup",
         x.pc \notin {"tenant", "user", "commit"}, UNCHANGED <<tenants, users>>
  PROVE  Signups'
<1>1. \A q \in Requests : req'[q] = IF q = r THEN x ELSE req[q]
  BY DEF Base, TypeOK, Becomes
<1> QED
  BY <1>1, OtherHandlers

LEMMA FailsSignups ==
  ASSUME Base, Signups, NEW r \in Requests, Fails(r), UNCHANGED <<tenants, users>>
  PROVE  Signups'
BY EmptyHandlers, OtherStep DEF Fails

LEMMA AnswersSignups ==
  ASSUME Base, Signups, NEW r \in Requests, req[r].kind # "signup",
         NEW ids \in SUBSET Tickets, Answers(r, ids), UNCHANGED <<tenants, users>>
  PROVE  Signups'
<1> DEFINE y == [req[r] EXCEPT !.pc = "done", !.answer = ids]
<1>1. y.pc = "done" /\ y.kind = req[r].kind
  <2>1. req[r] \in Handlers
    BY DEF Base, TypeOK
  <2> QED
    BY <2>1, AnswerFields
<1>2. Becomes(r, y)
  BY DEF Answers
<1> HIDE DEF y
<1> QED
  BY <1>1, <1>2, OtherStep

LEMMA TicketsSignups ==
  ASSUME Base, Signups, NEW r \in Requests,
         (\E i \in Tickets : CreateTicket(r, i)) \/ FindAll(r) \/ FindOne(r)
           \/ UpdateTicket(r) \/ RemoveTicket(r)
  PROVE  Signups'
<1>1. UNCHANGED <<tenants, users>> /\ req[r].kind # "signup"
  BY DEF CreateTicket, FindAll, FindOne, UpdateTicket, RemoveTicket
<1>2. req[r] \in Handlers /\ req[r].ticket \in Tickets \cup {"none"}
  BY HandlerFields DEF Base, TypeOK
<1>3. ASSUME NEW i \in Tickets, CreateTicket(r, i)
      PROVE  Signups'
  <2>1. {i} \in SUBSET Tickets
    OBVIOUS
  <2>2. Fails(r) \/ Answers(r, {i})
    BY <1>3 DEF CreateTicket
  <2> QED
    BY <1>1, <2>1, <2>2, FailsSignups, AnswersSignups
<1>4. CASE FindAll(r)
  <2> DEFINE where == IF req[r].status = "none" THEN << >> ELSE [status |-> req[r].status]
             ids == { row.id : row \in Query(r, "findMany", where) }
  <2>1. Answers(r, ids)
    BY <1>4 DEF FindAll
  <2> HIDE DEF where
  <2>2. ids \in SUBSET Tickets
    BY QueryStaysInTenant DEF Base, TypeOK, Rows
  <2> HIDE DEF ids
  <2> QED
    BY <1>1, <2>1, <2>2, AnswersSignups
<1>5. CASE FindOne(r)
  <2>1. {req[r].ticket} \in SUBSET Tickets
    BY <1>5, OwnStep DEF FindOne
  <2>2. CASE Fails(r)
    BY <1>1, <2>2, FailsSignups
  <2>3. CASE Answers(r, {req[r].ticket})
    BY <1>1, <2>1, <2>3, AnswersSignups
  <2>4. CASE Becomes(r, [req[r] EXCEPT !.pc = "writing"])
    <3> DEFINE y == [req[r] EXCEPT !.pc = "writing"]
    <3>1. y.pc = "writing" /\ y.kind = req[r].kind
      BY <1>2, PcFields
    <3>2. Becomes(r, y)
      BY <2>4
    <3> HIDE DEF y
    <3> QED
      BY <1>1, <3>1, <3>2, OtherStep
  <2> QED
    BY <1>5, <2>2, <2>3, <2>4 DEF FindOne
<1>6. CASE UpdateTicket(r) \/ RemoveTicket(r)
  <2>1. {req[r].ticket} \in SUBSET Tickets
    BY <1>6, OwnStep DEF UpdateTicket, RemoveTicket
  <2>2. Fails(r) \/ Answers(r, {req[r].ticket})
    BY <1>6 DEF UpdateTicket, RemoveTicket
  <2> QED
    BY <1>1, <2>1, <2>2, FailsSignups, AnswersSignups
<1> QED
  BY <1>3, <1>4, <1>5, <1>6
(* A transaction that begins or goes on: its handler keeps what the others *)
(* rely on.                                                                *)
LEMMA TransactionStep ==
  ASSUME Base, Signups, NEW r \in Requests, NEW y \in Handlers, Becomes(r, y),
         UNCHANGED <<tenants, users>>, y.kind = "signup",
         y.pc \in {"tenant", "user", "commit"},
         tenants[y.tenantId] = "none", y.email \in Emails, y.slug \in Slugs,
         y.pc # "tenant" => \A t \in Tenants : tenants[t] # y.slug,
         y.pc = "commit" => users[y.email] = "none",
         \A q \in Requests \ {r} : Signing(q) =>
            /\ y.tenantId # req[q].tenantId
            /\ y.pc # "tenant" /\ req[q].pc # "tenant" => y.slug # req[q].slug
            /\ y.pc = "commit" /\ req[q].pc = "commit" => y.email # req[q].email
  PROVE  Signups'
<1>1. \A q \in Requests : req'[q] = IF q = r THEN y ELSE req[q]
  BY DEF Base, TypeOK, Becomes
<1>2. TransactionsHold'
  BY <1>1 DEF Signups, TransactionsHold, Signing
<1>3. SignupAllOrNothing'
  BY DEF Signups, SignupAllOrNothing
<1>4. SignupOwns'
  BY <1>1 DEF Signups, SignupOwns
<1> QED
  BY <1>2, <1>3, <1>4 DEF Signups

LEMMA SignupSignups ==
  ASSUME Base, Signups, NEW r \in Requests, NEW e \in Emails, NEW s \in Slugs,
         NEW t \in Tenants, Signup(r, e, s, t)
  PROVE  Signups'
<1> DEFINE y == [Start EXCEPT !.pc = "tenant", !.kind = "signup", !.tenantId = t,
                              !.email = e, !.slug = s]
<1>1. /\ y \in Handlers /\ y.pc = "tenant" /\ y.kind = "signup" /\ y.tenantId = t
      /\ y.email = e /\ y.slug = s
  BY DEF Start, Handlers
<1>2. Becomes(r, y) /\ tenants[t] = "none" /\ UNCHANGED <<tenants, users>>
  BY DEF Signup
<1>3. \A q \in Requests : Signing(q) => req[q].tenantId # t
  BY DEF Signup, Signups, TransactionsHold
<1> HIDE DEF y
<1> QED
  BY <1>1, <1>2, <1>3, TransactionStep

LEMMA InsertTenantSignups ==
  ASSUME Base, Signups, NEW r \in Requests, InsertTenant(r)
  PROVE  Signups'
<1>1. /\ req[r].pc = "tenant" /\ ~SlugHeld(r, req[r].slug)
      /\ UNCHANGED <<tenants, users>> /\ req[r] \in Handlers
  BY DEF InsertTenant, Base, TypeOK
<1>2. CASE \E t \in Tenants : tenants[t] = req[r].slug
  BY <1>1, <1>2, FailsSignups DEF InsertTenant
<1>3. CASE \A t \in Tenants : tenants[t] # req[r].slug
  <2> DEFINE y == [req[r] EXCEPT !.pc = "user"]
  <2>1. /\ y \in Handlers /\ y.pc = "user" /\ y.kind = req[r].kind
        /\ y.tenantId = req[r].tenantId /\ y.email = req[r].email /\ y.slug = req[r].slug
    BY <1>1, PcFields
  <2>2. Becomes(r, y)
    BY <1>3 DEF InsertTenant
  <2> HIDE DEF y
  <2>3. /\ req[r].kind = "signup" /\ req[r].email \in Emails /\ req[r].slug \in Slugs
        /\ tenants[req[r].tenantId] = "none"
    BY <1>1 DEF Signups, TransactionsHold, Signing
  <2>4. \A q \in Requests \ {r} : Signing(q) =>
           /\ req[r].tenantId # req[q].tenantId
           /\ req[q].pc # "tenant" => req[r].slug # req[q].slug
    BY <1>1 DEF Signups, TransactionsHold, Signing, SlugHeld
  <2> QED
    BY <1>1, <1>3, <2>1, <2>2, <2>3, <2>4, TransactionStep
<1> QED
  BY <1>2, <1>3

LEMMA InsertUserSignups ==
  ASSUME Base, Signups, NEW r \in Requests, InsertUser(r)
  PROVE  Signups'
<1>1. /\ req[r].pc = "user" /\ ~EmailHeld(r, req[r].email)
      /\ UNCHANGED <<tenants, users>> /\ req[r] \in Handlers
  BY DEF InsertUser, Base, TypeOK
<1>2. CASE users[req[r].email] # "none"
  BY <1>1, <1>2, FailsSignups DEF InsertUser
<1>3. CASE users[req[r].email] = "none"
  <2> DEFINE y == [req[r] EXCEPT !.pc = "commit"]
  <2>1. /\ y \in Handlers /\ y.pc = "commit" /\ y.kind = req[r].kind
        /\ y.tenantId = req[r].tenantId /\ y.email = req[r].email /\ y.slug = req[r].slug
    BY <1>1, PcFields
  <2>2. Becomes(r, y)
    BY <1>3 DEF InsertUser
  <2> HIDE DEF y
  <2>3. /\ req[r].kind = "signup" /\ req[r].email \in Emails /\ req[r].slug \in Slugs
        /\ tenants[req[r].tenantId] = "none"
        /\ \A t \in Tenants : tenants[t] # req[r].slug
    BY <1>1 DEF Signups, TransactionsHold, Signing
  <2>4. \A q \in Requests \ {r} : Signing(q) =>
           /\ req[r].tenantId # req[q].tenantId
           /\ req[q].pc # "tenant" => req[r].slug # req[q].slug
           /\ req[q].pc = "commit" => req[r].email # req[q].email
    BY <1>1 DEF Signups, TransactionsHold, Signing, EmailHeld
  <2> QED
    BY <1>1, <1>3, <2>1, <2>2, <2>3, <2>4, TransactionStep
<1> QED
  BY <1>2, <1>3

LEMMA CommitSignups ==
  ASSUME Base, Signups, NEW r \in Requests, Commit(r)
  PROVE  Signups'
<1> DEFINE t == req[r].tenantId
           y == [req[r] EXCEPT !.pc = "done", !.answer = {}]
<1>1. /\ tenants' = [tenants EXCEPT ![t] = req[r].slug]
      /\ users' = [users EXCEPT ![req[r].email] = t]
      /\ \A q \in Requests : q # r => req'[q] = req[q]
      /\ req'[r] = y /\ users[req[r].email] = "none" /\ req[r].email \in Emails
      /\ req[r].pc = "commit"
  BY CommitBase DEF Commit
<1>2. /\ req[r].kind = "signup" /\ req[r].slug \in Slugs /\ tenants[t] = "none"
      /\ \A u \in Tenants : tenants[u] # req[r].slug
  BY <1>1 DEF Signups, TransactionsHold, Signing
<1>3. req[r] \in Handlers /\ t \in Tenants
  BY <1>1, OwnStep
<1>4. /\ y.pc = "done" /\ y.kind = "signup" /\ y.tenantId = t
      /\ y.email = req[r].email /\ y.slug = req[r].slug
  <2>1. {} \in SUBSET Tickets
    OBVIOUS
  <2> QED
    BY <1>2, <1>3, <2>1, AnswerFields
<1> HIDE DEF y
<1>5. /\ \A u \in Tenants : tenants'[u] = IF u = t THEN req[r].slug ELSE tenants[u]
      /\ \A e \in Emails : users'[e] = IF e = req[r].email THEN t ELSE users[e]
  BY <1>1, <1>3 DEF Base, TypeOK
<1> HIDE DEF t
<1>6. TransactionsHold'
  <2>1. ASSUME NEW q \in Requests, q # r, Signing(q)
        PROVE  /\ tenants'[req[q].tenantId] = "none"
               /\ req[q].pc # "tenant" => \A u \in Tenants : tenants'[u] # req[q].slug
               /\ req[q].pc = "commit" => users'[req[q].email] = "none"
    <3>1. /\ t # req[q].tenantId
          /\ req[q].pc # "tenant" => req[r].slug # req[q].slug
          /\ req[q].pc = "commit" => req[r].email # req[q].email
      BY <1>1, <2>1 DEF Signups, TransactionsHold, Signing, t
    <3>2. req[q].tenantId \in Tenants
      BY <2>1, OwnStep DEF Signing
    <3> QED
      BY <1>5, <2>1, <3>1, <3>2 DEF Signups, TransactionsHold
  <2> QED
    BY <1>1, <1>2, <1>4, <2>1 DEF Signups, TransactionsHold, Signing
<1>7. SignupAllOrNothing'
  <2>1. ASSUME NEW u \in Tenants
        PROVE  tenants'[u] # "none" <=> \E e \in Emails : users'[e] = u
    <3>1. CASE u = t
      BY <1>1, <1>2, <1>5, <3>1, TenancyAssumption
    <3>2. CASE u # t
      <4>1. \A e \in Emails : users'[e] = u <=> users[e] = u
        BY <1>1, <1>5, <3>2, TenancyAssumption
      <4> QED
        BY <1>5, <3>2, <4>1 DEF Signups, SignupAllOrNothing
    <3> QED
      BY <3>1, <3>2
  <2>2. \A u, v \in Tenants : tenants'[u] = tenants'[v] /\ tenants'[u] # "none" => u = v
    BY <1>2, <1>5 DEF Signups, SignupAllOrNothing
  <2> QED
    BY <2>1, <2>2 DEF SignupAllOrNothing
<1>8. SignupOwns'
  <2>1. ASSUME NEW q \in Requests, q # r, req[q].kind = "signup", req[q].pc = "done"
        PROVE  users'[req[q].email] = req[q].tenantId /\ tenants'[req[q].tenantId] = req[q].slug
    <3>1. /\ users[req[q].email] = req[q].tenantId /\ tenants[req[q].tenantId] = req[q].slug
          /\ req[q].email \in Emails /\ req[q].slug \in Slugs
      BY <2>1 DEF Signups, SignupOwns, TransactionsHold
    <3>2. req[q].tenantId \in Tenants
      BY <2>1, OwnStep
    <3>3. req[q].email # req[r].email /\ req[q].tenantId # t
      BY <1>1, <1>2, <3>1, <3>2, TenancyAssumption
    <3> QED
      BY <1>5, <3>1, <3>2, <3>3
  <2> QED
    BY <1>1, <1>3, <1>4, <1>5, <2>1 DEF SignupOwns
<1> QED
  BY <1>6, <1>7, <1>8 DEF Signups

LEMMA NextSignups ==
  ASSUME Base, Signups, [Next]_vars
  PROVE  Signups'
<1>1. CASE UNCHANGED vars
  BY <1>1, OtherHandlers DEF vars
<1>2. CASE Crash
  BY <1>2, EmptyHandlers, OtherHandlers DEF Crash, Base, TypeOK
<1>3. CASE Quiet
  BY <1>1, <1>3 DEF Quiet
<1>4. ASSUME NEW r \in Requests, QueryFails(r) \/ Rejected(r)
      PROVE  Signups'
  BY <1>4, FailsSignups DEF QueryFails, Rejected
<1>5. ASSUME NEW r \in Requests, NEW context, NEW kind, NEW i, NEW status,
             kind # "signup", TicketRequest(r, context, kind, i, status)
      PROVE  Signups'
  <2> DEFINE x == [Start EXCEPT !.pc = "querying", !.kind = kind,
                                !.user = context.user, !.tenantId = context.tenantId,
                                !.ticket = i, !.status = status]
  <2>1. x.pc = "querying" /\ x.kind = kind
    BY DEF Start
  <2>2. Becomes(r, x) /\ UNCHANGED <<tenants, users>>
    BY <1>5 DEF TicketRequest
  <2> HIDE DEF x
  <2> QED
    BY <1>5, <2>1, <2>2, OtherStep
<1>6. ASSUME NEW r \in Requests, NEW context, TicketRequests(r, context)
      PROVE  Signups'
  BY <1>5, <1>6 DEF TicketRequests
<1>7. ASSUME NEW r \in Requests, Arrive(r)
      PROVE  Signups'
  BY <1>4, <1>6, <1>7, SignupSignups DEF Arrive
<1>8. ASSUME NEW r \in Requests, Serve(r)
      PROVE  Signups'
  BY <1>8, TicketsSignups, InsertTenantSignups, InsertUserSignups, CommitSignups DEF Serve
<1> QED
  BY <1>1, <1>2, <1>3, <1>4, <1>7, <1>8 DEF Next

LEMMA InitSignups ==
  ASSUME Init
  PROVE  Signups
<1>1. \A r \in Requests : req[r] = Start
  BY DEF Init
<1> QED
  BY <1>1, EmptyHandlers
     DEF Init, Consistent, Signups, TransactionsHold, Signing, SignupAllOrNothing, SignupOwns
-----------------------------------------------------------------------------
(* The theorems.                                                           *)

(* All safety properties hold together, for whatever tenants, requests and *)
(* faults: every query is scoped by what the middleware established, and   *)
(* the signup's transaction keeps the tables consistent.                   *)
THEOREM Invariance == Spec => []Inv
<1>1. Inv <=> Base /\ Signups
  BY DEF Inv, Base, Signups
<1>2. Init => Inv
  BY <1>1, InitBase, InitSignups
<1>3. Inv /\ [Next]_vars => Inv'
  <2>1. (Base /\ Signups)' => Inv'
    BY DEF Inv, Base, Signups
  <2> QED
    BY <1>1, <2>1, NextBase, NextSignups
<1> QED
  BY <1>2, <1>3, PTL DEF Spec
(* The isolation of one step: the rows of a tenant differ only when a      *)
(* request of that tenant took it.                                         *)
Isolated ==
  \A t \in Tenants :
     RowsOf(t)' # RowsOf(t) => \E r \in Requests : req[r].tenantId = t /\ req'[r] # req[r]

(* A step of r that leaves the rows of every other tenant alone.           *)
LEMMA IsolatedStep ==
  ASSUME NEW r \in Requests, req'[r] # req[r],
         \A row : row.tenantId # req[r].tenantId => (row \in tickets' <=> row \in tickets)
  PROVE  Isolated
<1>1. ASSUME NEW t \in Tenants, t # req[r].tenantId
      PROVE  RowsOf(t)' = RowsOf(t)
  BY <1>1 DEF RowsOf
<1> QED
  BY <1>1 DEF Isolated

LEMMA ServedMoves ==
  ASSUME Base, NEW r \in Requests, req[r].pc \in {"querying", "writing"},
         NEW ids, Fails(r) \/ Answers(r, ids)
  PROVE  req'[r] # req[r]
<1>1. req \in [Requests -> Handlers] /\ req[r] \in Handlers
  BY DEF Base, TypeOK
<1>2. CASE Fails(r)
  BY <1>1, <1>2, EmptyHandlers DEF Fails, Becomes
<1>3. CASE Answers(r, ids)
  <2>1. req'[r] = [req[r] EXCEPT !.pc = "done", !.answer = ids]
    BY <1>1, <1>3 DEF Answers, Becomes
  <2>2. [req[r] EXCEPT !.pc = "done", !.answer = ids].pc = "done"
    BY <1>1 DEF Handlers
  <2> QED
    BY <2>1, <2>2
<1> QED
  BY <1>2, <1>3

LEMMA CreateIsolated ==
  ASSUME Base, NEW r \in Requests, NEW i \in Tickets, CreateTicket(r, i)
  PROVE  Isolated
<1> DEFINE t == req[r].tenantId
           row == [id |-> i, status |-> "OPEN", tenantId |-> t]
<1>1. req'[r] # req[r]
  BY ServedMoves DEF CreateTicket
<1>2. Scope("Ticket", "create", [data |-> row], t).data = Stamp(row, t)
  BY ScopedData DEF AdminModels
<1>3. Stamp(row, t) = row
  BY StampedTicket
<1>4. tickets' = tickets \/ tickets' = tickets \cup {row}
  BY <1>2, <1>3 DEF CreateTicket
<1>5. row.tenantId = t
  OBVIOUS
<1> HIDE DEF row
<1> QED
  BY <1>1, <1>4, <1>5, IsolatedStep

LEMMA UpdateIsolated ==
  ASSUME Base, NEW r \in Requests, UpdateTicket(r)
  PROVE  Isolated
<1> DEFINE i == req[r].ticket
           found == Query(r, "update", [id |-> i])
           changed(row) == IF req[r].status = "none" THEN row
                           ELSE [row EXCEPT !.status = req[r].status]
<1>1. /\ req[r].pc = "writing"
      /\ tickets' = (tickets \ found) \cup { changed(row) : row \in found }
      /\ Fails(r) \/ Answers(r, {i})
  BY DEF UpdateTicket
<1>2. req'[r] # req[r]
  BY <1>1, ServedMoves
<1>3. found \subseteq tickets /\ \A row \in found : row.tenantId = req[r].tenantId
  BY QueryStaysInTenant
<1>4. \A row \in Rows : changed(row).tenantId = row.tenantId
  BY DEF Rows
<1> HIDE DEF found, changed
<1>5. \A row : row.tenantId # req[r].tenantId => (row \in tickets' <=> row \in tickets)
  BY <1>1, <1>3, <1>4 DEF Base, TypeOK
<1> QED
  BY <1>2, <1>5, IsolatedStep

LEMMA RemoveIsolated ==
  ASSUME Base, NEW r \in Requests, RemoveTicket(r)
  PROVE  Isolated
<1> DEFINE i == req[r].ticket
           found == Query(r, "delete", [id |-> i])
<1>1. /\ req[r].pc = "writing" /\ tickets' = tickets \ found
      /\ Fails(r) \/ Answers(r, {i})
  BY DEF RemoveTicket
<1>2. req'[r] # req[r]
  BY <1>1, ServedMoves
<1>3. \A row \in found : row.tenantId = req[r].tenantId
  BY QueryStaysInTenant
<1> HIDE DEF found
<1> QED
  BY <1>1, <1>2, <1>3, IsolatedStep

(* No step of the system changes the tickets of a tenant unless a request  *)
(* of that tenant takes it (applyTenantScope).                             *)
THEOREM Isolation == Spec => TenantsAreIsolated
<1>1. ASSUME Inv, [Next]_vars
      PROVE  Isolated
  <2>1. Base
    BY <1>1 DEF Inv, Base
  <2>2. CASE UNCHANGED tickets
    BY <2>2 DEF Isolated, RowsOf
  <2>3. ASSUME NEW r \in Requests, Arrive(r)
        PROVE  UNCHANGED tickets
    <3>1. ASSUME NEW context, TicketRequests(r, context)
          PROVE  UNCHANGED tickets
      BY <3>1 DEF TicketRequests, TicketRequest
    <3> QED
      BY <2>3, <3>1 DEF Arrive, Rejected, Signup
  <2>4. ASSUME NEW r \in Requests, Serve(r)
        PROVE  UNCHANGED tickets \/ UpdateTicket(r) \/ RemoveTicket(r)
                 \/ \E i \in Tickets : CreateTicket(r, i)
    BY <2>4 DEF Serve, FindAll, FindOne, InsertTenant, InsertUser, Commit
  <2>5. CASE UNCHANGED vars \/ Crash \/ Quiet \/ \E r \in Requests : QueryFails(r)
    BY <2>2, <2>5 DEF vars, Crash, Quiet, QueryFails
  <2> QED
    BY <1>1, <2>1, <2>2, <2>3, <2>4, <2>5, CreateIsolated, UpdateIsolated, RemoveIsolated
       DEF Next
<1>2. Inv /\ [Next]_vars =>
        [\A t \in Tenants : RowsOf(t)' # RowsOf(t) =>
            \E r \in Requests : req[r].tenantId = t /\ req'[r] # req[r]]_vars
  BY <1>1 DEF Isolated
<1> QED
  BY <1>2, Invariance, PTL DEF Spec, TenantsAreIsolated

(* A response shows only tickets created for the tenant of its request.    *)
THEOREM AnswersStay == Spec => []AnswersStayInTenant
<1>1. Inv => AnswersStayInTenant
  BY DEF Inv
<1> QED
  BY <1>1, Invariance, PTL

(* What a remove has reported gone stays gone, and no other remove reports *)
(* it.                                                                     *)
THEOREM RemovedForGood == Spec => []RemoveIsFinal
<1>1. Inv => RemoveIsFinal
  BY DEF Inv
<1> QED
  BY <1>1, Invariance, PTL

(* Every tenant has an admin and every user a tenant, and no two tenants   *)
(* share a slug, whichever signups overlap and whatever fails.             *)
THEOREM SignupAtomic == Spec => []SignupAllOrNothing
<1>1. Inv => SignupAllOrNothing
  BY DEF Inv
<1> QED
  BY <1>1, Invariance, PTL

(* A signup that was answered with success keeps the tenant and the admin  *)
(* it registered.                                                          *)
THEOREM SignupKeeps == Spec => []SignupOwns
<1>1. Inv => SignupOwns
  BY DEF Inv
<1> QED
  BY <1>1, Invariance, PTL

(* Type correctness of the three tables and the handlers.                  *)
THEOREM TypeCorrect == Spec => []TypeOK
<1>1. Inv => TypeOK
  BY DEF Inv
<1> QED
  BY <1>1, Invariance, PTL

(* Without the header, whoever reaches the tickets is a user of the tenant *)
(* it acts for.                                                            *)
THEOREM ContextVerified == Spec => []ContextIsVerified
<1>1. Inv => ContextIsVerified
  BY DEF Inv
<1> QED
  BY <1>1, Invariance, PTL
=============================================================================
