------------------------------ MODULE Tenancy ------------------------------
(***************************************************************************)
(* Tenants over one database: the middleware that binds a tenant to a      *)
(* request, the client extension that scopes every query to it, the        *)
(* tickets, and the signup that creates a tenant with its first user.      *)
(*                                                                         *)
(* Handlers interleave at every query.  The signup's transaction is the    *)
(* database's: its inserts are seen by nobody before the commit, and an    *)
(* insert of a unique value waits while another open transaction has       *)
(* inserted the same one.                                                  *)
(***************************************************************************)
EXTENDS FiniteSets

CONSTANTS
    Requests,   \* the HTTP requests of a behaviour, each served once
    Tenants,    \* the ids a signup may draw
    Emails,     \* each names one user: the column is unique
    Slugs,
    Tickets,    \* ticket ids
    Faults      \* what may fail: "db" queries, the process

Statuses == {"OPEN", "CLOSED"}

ASSUME TenancyAssumption ==
    /\ "none" \notin Tenants \cup Emails \cup Slugs \cup Tickets
    /\ Faults \subseteq {"db", "crash"}

VARIABLES
    tenants,      \* the slug of each tenant in the table, or "none"
    users,        \* the tenant of each user in the table, or "none"
    tickets,      \* the rows of the Ticket table
    allowHeader,  \* ENV.ALLOW_TENANT_HEADER, read when the process starts
    req,          \* the local state of each request's handler
    birth         \* history: the tenant that acted when a ticket was created

vars == <<tenants, users, tickets, allowHeader, req, birth>>

Rows == [id : Tickets, tenantId : Tenants, status : Statuses]

(* user and tenantId are the request's context; email and slug belong to a *)
(* signup, ticket and status to a ticket operation.  answer holds the      *)
(* tickets a successful response shows.                                    *)
Handlers ==
    [ pc : {"idle", "tenant", "user", "commit", "querying", "writing",
            "done", "failed"},
      kind : {"none", "signup", "create", "findAll", "findOne", "update", "remove"},
      user : Emails \cup {"none"},
      tenantId : Tenants \cup {"none"},
      email : Emails \cup {"none"},
      slug : Slugs \cup {"none"},
      ticket : Tickets \cup {"none"},
      status : Statuses \cup {"none"},
      answer : SUBSET Tickets ]

Start ==
    [ pc |-> "idle", kind |-> "none", user |-> "none", tenantId |-> "none",
      email |-> "none", slug |-> "none", ticket |-> "none",
      status |-> "none", answer |-> {} ]

(* A database as earlier requests left it.                                 *)
Consistent ==
    /\ \A t \in Tenants : tenants[t] # "none" <=> \E e \in Emails : users[e] = t
    /\ \A t, u \in Tenants : tenants[t] = tenants[u] /\ tenants[t] # "none" => t = u
    /\ \A d, e \in Emails : users[d] = users[e] /\ users[d] # "none" => d = e
    /\ \A row \in tickets : tenants[row.tenantId] # "none"
    /\ \A row, other \in tickets : row.id = other.id => row = other

Init ==
    /\ tenants \in [Tenants -> Slugs \cup {"none"}]
    /\ users \in [Emails -> Tenants \cup {"none"}]
    /\ tickets \in SUBSET Rows
    /\ Consistent
    /\ allowHeader \in BOOLEAN
    /\ req = [r \in Requests |-> Start]
    /\ birth = [i \in Tickets |->
                  IF \E row \in tickets : row.id = i
                  THEN (CHOOSE row \in tickets : row.id = i).tenantId ELSE "none"]

-----------------------------------------------------------------------------
(* applyTenantScope.                                                       *)

With(f, key, v) == [x \in DOMAIN f \cup {key} |-> IF x = key THEN v ELSE f[x]]

Stamp(f, t) == With(f, "tenantId", t)

AdminModels == {"Tenant"}

(* Mutants: only what is created is stamped; operations by a unique id are *)
(* taken to need no tenant.                                                *)
ScopeCreates(model, operation, args, t) ==
    IF operation = "create" THEN With(args, "data", Stamp(args.data, t)) ELSE args

ScopeLists(model, operation, args, t) ==
    CASE operation = "create" -> With(args, "data", Stamp(args.data, t))
      [] operation = "findMany" -> With(args, "where", Stamp(args.where, t))
      [] OTHER -> args

(* The arguments of an operation after the extension has forced tenant t   *)
(* into them.                                                              *)
Scope(model, operation, args, t) ==
    IF model \in AdminModels THEN args
    ELSE IF operation = "create" THEN With(args, "data", Stamp(args.data, t))
    ELSE IF operation = "createMany" THEN
        With(args, "data", [i \in DOMAIN args.data |-> Stamp(args.data[i], t)])
    ELSE IF operation = "upsert" THEN
        With(With(args, "where", Stamp(args.where, t)), "create", Stamp(args.create, t))
    ELSE With(args, "where", Stamp(IF "where" \in DOMAIN args THEN args.where ELSE << >>, t))

(* The rows a where clause selects.                                        *)
Matching(where) ==
    { row \in tickets : \A field \in DOMAIN where : row[field] = where[field] }

(* The rows that an operation of request r on the tickets selects.         *)
Query(r, operation, where) ==
    Matching(Scope("Ticket", operation, [where |-> where], req[r].tenantId).where)

-----------------------------------------------------------------------------
(* AuthContextMiddleware, and the first step of every ticket operation.    *)

Becomes(r, x) == req' = [req EXCEPT ![r] = x]

Failed == [Start EXCEPT !.pc = "failed"]

Fails(r) == Becomes(r, Failed)

Answers(r, ids) == Becomes(r, [req[r] EXCEPT !.pc = "done", !.answer = ids])

NoContext == [user |-> "none", tenantId |-> "none"]

(* The claims of an access token: of the user who logged in, who has been  *)
(* in the table ever since.                                                *)
AccessTokens == { [user |-> e, tenantId |-> users[e]] : e \in {d \in Emails : users[d] # "none"} }

(* Mutant: the setting is not consulted.                                   *)
ContextOfHeader(header, bearer, cookie) ==
    IF header # "none" THEN [user |-> "none", tenantId |-> header]
    ELSE IF bearer # NoContext THEN bearer
    ELSE cookie

(* Where the request gets its tenant from: the header when the setting     *)
(* allows it, else the bearer token, else the cookie.                      *)
Context(header, bearer, cookie) ==
    IF allowHeader /\ header # "none" THEN [user |-> "none", tenantId |-> header]
    ELSE IF bearer # NoContext THEN bearer
    ELSE cookie

(* 400 or 401: a token that is missing or does not verify, a header or a   *)
(* body that does not validate.                                            *)
Rejected(r) ==
    /\ req[r].pc = "idle"
    /\ Fails(r)
    /\ UNCHANGED <<tenants, users, tickets, allowHeader, birth>>

TicketRequest(r, context, kind, i, status) ==
    /\ req[r].pc = "idle" /\ context # NoContext
    /\ Becomes(r, [Start EXCEPT !.pc = "querying", !.kind = kind,
                                !.user = context.user, !.tenantId = context.tenantId,
                                !.ticket = i, !.status = status])
    /\ UNCHANGED <<tenants, users, tickets, allowHeader, birth>>

-----------------------------------------------------------------------------
(* TicketsService.                                                         *)

(* A header may name a tenant that is not in the table: the foreign key    *)
(* refuses its tickets.                                                    *)
CreateTicket(r, i) ==
    LET t == req[r].tenantId
        data == [id |-> i, status |-> "OPEN", tenantId |-> t]
    IN  /\ req[r].pc = "querying" /\ req[r].kind = "create" /\ birth[i] = "none"
        /\ IF tenants[t] = "none"
           THEN Fails(r) /\ UNCHANGED <<tickets, birth>>
           ELSE /\ tickets' = tickets \cup
                     {Scope("Ticket", "create", [data |-> data], t).data}
                /\ birth' = [birth EXCEPT ![i] = t]
                /\ Answers(r, {i})
        /\ UNCHANGED <<tenants, users, allowHeader>>

FindAll(r) ==
    LET where == IF req[r].status = "none" THEN << >> ELSE [status |-> req[r].status]
    IN  /\ req[r].pc = "querying" /\ req[r].kind = "findAll"
        /\ Answers(r, { row.id : row \in Query(r, "findMany", where) })
        /\ UNCHANGED <<tenants, users, tickets, allowHeader, birth>>

(* findOne, which update and remove call first: 404 when nothing matches.  *)
FindOne(r) ==
    /\ req[r].pc = "querying" /\ req[r].kind \in {"findOne", "update", "remove"}
    /\ IF Query(r, "findUnique", [id |-> req[r].ticket]) = {} THEN Fails(r)
       ELSE IF req[r].kind = "findOne" THEN Answers(r, {req[r].ticket})
       ELSE Becomes(r, [req[r] EXCEPT !.pc = "writing"])
    /\ UNCHANGED <<tenants, users, tickets, allowHeader, birth>>

(* Mutant: a status that was not provided is written all the same.         *)
UpdateAllFields(r) ==
    LET found == Query(r, "update", [id |-> req[r].ticket])
    IN  /\ req[r].pc = "writing" /\ req[r].kind = "update"
        /\ tickets' = (tickets \ found)
                        \cup { [row EXCEPT !.status = req[r].status] : row \in found }
        /\ IF found = {} THEN Fails(r) ELSE Answers(r, {req[r].ticket})
        /\ UNCHANGED <<tenants, users, allowHeader, birth>>

(* The second query of update, which fails when the row is gone by now.    *)
UpdateTicket(r) ==
    LET found == Query(r, "update", [id |-> req[r].ticket])
        changed(row) == IF req[r].status = "none" THEN row
                        ELSE [row EXCEPT !.status = req[r].status]
    IN  /\ req[r].pc = "writing" /\ req[r].kind = "update"
        /\ tickets' = (tickets \ found) \cup { changed(row) : row \in found }
        /\ IF found = {} THEN Fails(r) ELSE Answers(r, {req[r].ticket})
        /\ UNCHANGED <<tenants, users, allowHeader, birth>>

(* Mutant: deleteMany, which does not mind a row that is gone.             *)
RemoveMany(r) ==
    /\ req[r].pc = "writing" /\ req[r].kind = "remove"
    /\ tickets' = tickets \ Query(r, "delete", [id |-> req[r].ticket])
    /\ Answers(r, {req[r].ticket})
    /\ UNCHANGED <<tenants, users, allowHeader, birth>>

RemoveTicket(r) ==
    LET found == Query(r, "delete", [id |-> req[r].ticket])
    IN  /\ req[r].pc = "writing" /\ req[r].kind = "remove"
        /\ tickets' = tickets \ found
        /\ IF found = {} THEN Fails(r) ELSE Answers(r, {req[r].ticket})
        /\ UNCHANGED <<tenants, users, allowHeader, birth>>

-----------------------------------------------------------------------------
(* SignupService.                                                          *)

(* The id is drawn before the transaction begins.                          *)
Signup(r, e, s, t) ==
    /\ req[r].pc = "idle"
    /\ tenants[t] = "none" /\ \A q \in Requests : req[q].kind = "signup" => req[q].tenantId # t
    /\ Becomes(r, [Start EXCEPT !.pc = "tenant", !.kind = "signup", !.tenantId = t,
                                !.email = e, !.slug = s])
    /\ UNCHANGED <<tenants, users, tickets, allowHeader, birth>>

(* An open transaction holds the unique values it has inserted.            *)
SlugHeld(r, s) ==
    \E q \in Requests \ {r} : req[q].pc \in {"user", "commit"} /\ req[q].slug = s

EmailHeld(r, e) == \E q \in Requests \ {r} : req[q].pc = "commit" /\ req[q].email = e

(* Mutant: the two inserts are no transaction.                             *)
InsertTenantAlone(r) ==
    /\ req[r].pc = "tenant" /\ ~SlugHeld(r, req[r].slug)
    /\ IF \E t \in Tenants : tenants[t] = req[r].slug
       THEN Fails(r) /\ UNCHANGED tenants
       ELSE /\ tenants' = [tenants EXCEPT ![req[r].tenantId] = req[r].slug]
            /\ Becomes(r, [req[r] EXCEPT !.pc = "user"])
    /\ UNCHANGED <<users, tickets, allowHeader, birth>>

(* A unique value that is taken rolls the transaction back: 409.           *)
InsertTenant(r) ==
    /\ req[r].pc = "tenant" /\ ~SlugHeld(r, req[r].slug)
    /\ IF \E t \in Tenants : tenants[t] = req[r].slug THEN Fails(r)
       ELSE Becomes(r, [req[r] EXCEPT !.pc = "user"])
    /\ UNCHANGED <<tenants, users, tickets, allowHeader, birth>>

(* Mutants: a user with this email is taken over, and a taken email is     *)
(* tried again.                                                            *)
UpsertUser(r) ==
    /\ req[r].pc = "user" /\ ~EmailHeld(r, req[r].email)
    /\ Becomes(r, [req[r] EXCEPT !.pc = "commit"])
    /\ UNCHANGED <<tenants, users, tickets, allowHeader, birth>>

InsertUserAgain(r) ==
    /\ req[r].pc = "user" /\ ~EmailHeld(r, req[r].email)
    /\ users[req[r].email] = "none"
    /\ Becomes(r, [req[r] EXCEPT !.pc = "commit"])
    /\ UNCHANGED <<tenants, users, tickets, allowHeader, birth>>

InsertUser(r) ==
    /\ req[r].pc = "user" /\ ~EmailHeld(r, req[r].email)
    /\ IF users[req[r].email] # "none" THEN Fails(r)
       ELSE Becomes(r, [req[r] EXCEPT !.pc = "commit"])
    /\ UNCHANGED <<tenants, users, tickets, allowHeader, birth>>

(* Both rows appear at once; the extension stamps the user's.              *)
Commit(r) ==
    LET t == req[r].tenantId
        data == [email |-> req[r].email, tenantId |-> t]
    IN  /\ req[r].pc = "commit"
        /\ tenants' = [tenants EXCEPT ![t] = req[r].slug]
        /\ users' = [users EXCEPT ![req[r].email] =
                       Scope("User", "create", [data |-> data], t).data.tenantId]
        /\ Answers(r, {})
        /\ UNCHANGED <<tickets, allowHeader, birth>>

-----------------------------------------------------------------------------
(* Faults.                                                                 *)

Active(r) == req[r].pc \notin {"idle", "done", "failed"}

(* A query rejects, or the transaction exceeds its time: nothing changes.  *)
QueryFails(r) ==
    /\ "db" \in Faults /\ Active(r)
    /\ Fails(r)
    /\ UNCHANGED <<tenants, users, tickets, allowHeader, birth>>

Crash ==
    /\ "crash" \in Faults
    /\ \E r \in Requests : Active(r)
    /\ req' = [r \in Requests |-> IF Active(r) THEN Failed ELSE req[r]]
    /\ UNCHANGED <<tenants, users, tickets, allowHeader, birth>>

Quiet ==
    /\ \A r \in Requests : req[r].pc \in {"done", "failed"}
    /\ UNCHANGED vars

-----------------------------------------------------------------------------

TicketRequests(r, context) ==
    \/ TicketRequest(r, context, "create", "none", "none")
    \/ \E status \in Statuses \cup {"none"} :
         \/ TicketRequest(r, context, "findAll", "none", status)
         \/ \E i \in Tickets : TicketRequest(r, context, "update", i, status)
    \/ \E i \in Tickets, kind \in {"findOne", "remove"} :
         TicketRequest(r, context, kind, i, "none")

Arrive(r) ==
    \/ Rejected(r)
    \/ \E e \in Emails, s \in Slugs, t \in Tenants : Signup(r, e, s, t)
    \/ \E header \in Tenants \cup {"none"}, bearer, cookie \in AccessTokens \cup {NoContext} :
         TicketRequests(r, Context(header, bearer, cookie))

Serve(r) ==
    \/ \E i \in Tickets : CreateTicket(r, i)
    \/ FindAll(r) \/ FindOne(r) \/ UpdateTicket(r) \/ RemoveTicket(r)
    \/ InsertTenant(r) \/ InsertUser(r) \/ Commit(r)

Next == Crash \/ Quiet \/ \E r \in Requests : Arrive(r) \/ Serve(r) \/ QueryFails(r)

Spec == Init /\ [][Next]_vars

(* Queries are answered, and the one who waits for a value that another    *)
(* transaction holds gets its turn.                                        *)
FairSpec == Spec /\ \A r \in Requests : WF_vars(Serve(r))

-----------------------------------------------------------------------------

TypeOK ==
    /\ tenants \in [Tenants -> Slugs \cup {"none"}]
    /\ users \in [Emails -> Tenants \cup {"none"}]
    /\ tickets \subseteq Rows
    /\ allowHeader \in BOOLEAN
    /\ req \in [Requests -> Handlers]
    /\ birth \in [Tickets -> Tenants \cup {"none"}]

RowsOf(t) == { row \in tickets : row.tenantId = t }

(* A tenant's tickets change only by the step of a request that acts for   *)
(* that tenant, whoever else is being served (applyTenantScope).           *)
TenantsAreIsolated ==
    [][\A t \in Tenants :
          RowsOf(t)' # RowsOf(t) =>
             \E r \in Requests : req[r].tenantId = t /\ req'[r] # req[r]]_vars

(* A response shows only tickets that were created for its tenant.         *)
AnswersStayInTenant ==
    \A r \in Requests : \A i \in req[r].answer : birth[i] = req[r].tenantId

(* A ticket is removed once: of removes that overlap one succeeds, and an  *)
(* update that looked it up before does not bring it back.                 *)
RemoveIsFinal ==
    \A r \in Requests : req[r].kind = "remove" /\ req[r].pc = "done" =>
        /\ \A row \in tickets : row.id # req[r].ticket
        /\ \A q \in Requests \ {r} :
              ~ (req[q].kind = "remove" /\ req[q].pc = "done" /\ req[q].ticket = req[r].ticket)

(* Signup leaves no tenant without its admin and no admin without tenant,  *)
(* at every moment and whatever fails; slugs stay unique.                  *)
SignupAllOrNothing ==
    /\ \A t \in Tenants : tenants[t] # "none" <=> \E e \in Emails : users[e] = t
    /\ \A t, u \in Tenants : tenants[t] = tenants[u] /\ tenants[t] # "none" => t = u

(* What a signup was told it has registered is its own for good: of two    *)
(* signups with one email or one slug at most one succeeds.                *)
SignupOwns ==
    \A r \in Requests : req[r].kind = "signup" /\ req[r].pc = "done" =>
        users[req[r].email] = req[r].tenantId /\ tenants[req[r].tenantId] = req[r].slug

(* Unless the header is allowed, a request that reaches the tickets acts   *)
(* for a user of its tenant who is in the table.                           *)
ContextIsVerified ==
    \A r \in Requests :
        ~allowHeader /\ req[r].kind \notin {"none", "signup"} =>
           req[r].user # "none" /\ users[req[r].user] = req[r].tenantId

(* Every signup is answered: transactions that wait for each other's       *)
(* values do so in one order.                                              *)
EverySignupEnds ==
    \A r \in Requests : req[r].kind = "signup" ~> req[r].pc \in {"done", "failed"}
-----------------------------------------------------------------------------
(* The inductive invariant behind the safety properties above.             *)

(* A row belongs to the tenant it was created for, and so does what a      *)
(* response shows; what was removed has been a ticket, so that its id is   *)
(* not drawn again.                                                        *)
TicketsAreBorn ==
    /\ \A row \in tickets : birth[row.id] = row.tenantId
    /\ \A r \in Requests :
          /\ IF req[r].pc \in {"idle", "failed"} THEN req[r].kind = "none"
             ELSE req[r].tenantId \in Tenants
          /\ req[r].answer # {} => req[r].pc = "done"
          /\ req[r].kind \in {"findOne", "update", "remove"} => req[r].ticket \in Tickets
          /\ req[r].kind = "remove" /\ req[r].pc = "done" => birth[req[r].ticket] # "none"

Signing(r) == req[r].pc \in {"tenant", "user", "commit"}

(* What an open transaction has found free is free, and no other open      *)
(* transaction has it.                                                     *)
TransactionsHold ==
    \A r \in Requests :
       /\ Signing(r) =>
             /\ req[r].kind = "signup"
             /\ tenants[req[r].tenantId] = "none"
             /\ req[r].pc # "tenant" => \A t \in Tenants : tenants[t] # req[r].slug
             /\ req[r].pc = "commit" => users[req[r].email] = "none"
       /\ req[r].kind = "signup" =>
             /\ Signing(r) \/ req[r].pc = "done"
             /\ req[r].email \in Emails /\ req[r].slug \in Slugs
       /\ \A q \in Requests \ {r} : Signing(r) /\ Signing(q) =>
             /\ req[r].tenantId # req[q].tenantId
             /\ req[r].pc # "tenant" /\ req[q].pc # "tenant" => req[r].slug # req[q].slug
             /\ req[r].pc = "commit" /\ req[q].pc = "commit" => req[r].email # req[q].email

Inv ==
    /\ TypeOK /\ TicketsAreBorn /\ AnswersStayInTenant /\ RemoveIsFinal
    /\ TransactionsHold /\ SignupAllOrNothing /\ SignupOwns /\ ContextIsVerified
=============================================================================
