----------------------------- MODULE RequestGate -----------------------------
(***************************************************************************)
(* What stands between a request and its handler under /api/v1: the token  *)
(* (EvoAuthMiddleware), in the enterprise build the membership of the      *)
(* tenant it names, the permission of its route and, for a write at the    *)
(* installation scope, one more permission.  Token and permissions are     *)
(* asked of the auth service by HTTP, once per request and gate, with a    *)
(* time limit and no cache; the membership is a query.  Meanwhile grants   *)
(* are given and taken back.                                               *)
(***************************************************************************)
EXTENDS Integers

CONSTANTS
    Worker,             \* goroutines serving requests
    User, Tenant, Agency,
    NoUser, NoTenant,
    NoAgency,           \* agency_id NULL
    Global              \* tenant_id NULL of a membership

ASSUME ConstantsAssumption ==
    /\ NoUser \notin User /\ NoTenant \notin Tenant /\ NoAgency \notin Agency
    /\ Global \notin Tenant

Permission == {"permission", "installation"}
Remote == {"token"} \cup Permission
Gate == Remote \cup {"membership"}

VARIABLES
    env,        \* the build, and EVO_AUTH_ALLOW_MISSING_PERMISSION_ENDPOINT
    agency,     \* agency_id of users and tenants
    members,    \* evo_enterprise_tenant_memberships
    granted,    \* granted[u]: what the auth service grants user u
    task,       \* task[w]: the request worker w serves
    seen        \* seen[w]: what was open and what was shut since it arrived (history)

vars == <<env, agency, members, granted, task, seen>>

\* The role matters in global rows alone.
Membership ==
    [user: User, tenant: Tenant, role: {"team"}]
        \cup [user: User, tenant: {Global}, role: {"evolution_admin", "team"}]

Reply == {"yes", "no", "missing", "broken"}

\* installation: the body names the installation scope, which asks for the last gate.
Task == [pc: Gate \cup {"idle", "handler"}, user: User \cup {NoUser},
         tenant: Tenant \cup {NoTenant}, installation: BOOLEAN, reply: Reply \cup {"none"}]

Idle == [pc |-> "idle", user |-> NoUser, tenant |-> NoTenant, installation |-> FALSE,
         reply |-> "none"]

\* lost: a reply was late, unusable or "no such endpoint".
History == [open: SUBSET Gate, shut: SUBSET Gate, absent: SUBSET Gate, lost: BOOLEAN]
Nothing == [open |-> {}, shut |-> {}, absent |-> {}, lost |-> FALSE]

TypeOK ==
    /\ env \in [enterprise: BOOLEAN, allowMissing: BOOLEAN]
    /\ agency \in [User \cup Tenant -> Agency \cup {NoAgency}]
    /\ members \in SUBSET Membership
    /\ granted \in [User -> SUBSET Remote]
    /\ task \in [Worker -> Task]
    /\ seen \in [Worker -> History]

Init ==
    /\ env \in [enterprise: BOOLEAN, allowMissing: BOOLEAN]
    /\ agency \in [User \cup Tenant -> Agency \cup {NoAgency}]
    /\ env.enterprise \/ \A x \in User \cup Tenant : agency[x] = NoAgency
    /\ members = {}
    /\ granted = [u \in User |-> {}]
    /\ task = [w \in Worker |-> Idle]
    /\ seen = [w \in Worker |-> Nothing]

(***************************************************************************)
(* The authorities.                                                        *)
(***************************************************************************)

\* A membership of the tenant, a global admin, or any other global membership for the
\* tenants of the user's agency; an agency that is NULL equals none.
\* Mutant of SameAgency: both sides may be NULL.
SameAgencyUnguarded(u, t) == agency[u] = agency[t]

SameAgency(u, t) == agency[u] # NoAgency /\ agency[t] # NoAgency /\ agency[u] = agency[t]

\* Mutant of AllowQuery: the global rows are not read.
AllowQueryOwn(u, t) == \E m \in members : m.user = u /\ m.tenant = t

AllowQuery(u, t) ==
    \E m \in members :
        /\ m.user = u
        /\ \/ m.tenant = t
           \/ m.tenant = Global /\ m.role = "evolution_admin"
           \/ m.tenant = Global /\ SameAgency(u, t)

\* What the auth service says: it reads the token with every question.
Grants(u, gate) == {"token", gate} \subseteq granted[u]

\* Who a tenant is open to, in the terms of its owner.
Reaches(u, t) ==
    \/ [user |-> u, tenant |-> t, role |-> "team"] \in members
    \/ [user |-> u, tenant |-> Global, role |-> "evolution_admin"] \in members
    \/ /\ [user |-> u, tenant |-> Global, role |-> "team"] \in members
       /\ \E a \in Agency : agency[u] = a /\ agency[t] = a

Open(u, t) == {g \in Remote : Grants(u, g)} \cup {g \in {"membership"} : Reaches(u, t)}

\* A change of the authorities, and what it opens and shuts to the requests under way.
Note ==
    seen' = [w \in Worker |->
        IF task[w].pc = "idle" THEN seen[w]
        ELSE LET open == Open(task[w].user, task[w].tenant)' IN
             [seen[w] EXCEPT !.open = @ \cup open, !.shut = @ \cup (Gate \ open)]]

Regrant(u) ==
    /\ \E g \in Remote :
          granted' = [granted EXCEPT ![u] = IF g \in @ THEN @ \ {g} ELSE @ \cup {g}]
    /\ UNCHANGED <<env, agency, members, task>>
    /\ Note

Enrol ==
    /\ env.enterprise
    /\ \E m \in Membership : members' = IF m \in members THEN members \ {m} ELSE members \cup {m}
    /\ UNCHANGED <<env, agency, granted, task>>
    /\ Note

(***************************************************************************)
(* A request.                                                              *)
(***************************************************************************)

\* A request with no token is answered 401 and changes nothing.
Arrive(w, u, t, installation) ==
    /\ task[w].pc = "idle"
    /\ task' = [task EXCEPT ![w] = [pc |-> "token", user |-> u, tenant |-> t,
                                    installation |-> installation, reply |-> "none"]]
    /\ LET open == Open(u, t) IN
       seen' = [seen EXCEPT ![w] = [Nothing EXCEPT !.open = open, !.shut = Gate \ open]]
    /\ UNCHANGED <<env, agency, members, granted>>

\* The gates this request has to pass, in this order.
Needed(t) ==
    {"token", "permission"}
        \cup (IF env.enterprise THEN {"membership"} ELSE {})
        \cup (IF t.installation THEN {"installation"} ELSE {})

After(t) ==
    CASE t.pc = "token"      -> IF env.enterprise THEN "membership" ELSE "permission"
      [] t.pc = "membership" -> "permission"
      [] t.pc = "permission" -> IF t.installation THEN "installation" ELSE "handler"
      [] OTHER               -> "handler"

\* The auth service decides and answers; or something else answers.
Judge(w) ==
    LET t == task[w] IN
    /\ t.pc \in Remote /\ t.reply = "none"
    /\ \E reply \in Reply :
          /\ reply \in {"yes", "no"} => reply = IF Grants(t.user, t.pc) THEN "yes" ELSE "no"
          /\ task' = [task EXCEPT ![w].reply = reply]
          /\ seen' = [seen EXCEPT
                ![w].lost = @ \/ reply \in {"missing", "broken"},
                ![w].absent = IF reply = "missing" THEN @ \cup {t.pc} ELSE @]
    /\ UNCHANGED <<env, agency, members, granted>>

Proceed(w) == task' = [task EXCEPT ![w].pc = After(task[w]), ![w].reply = "none"]

\* 401, 403 or 500: the chain is aborted.
Abort(w) == task' = [task EXCEPT ![w] = Idle]

\* ValidateToken: anything but a 200 with a data object is an error, and any error a 401.
HearToken(w) ==
    /\ task[w].pc = "token" /\ task[w].reply # "none"
    /\ IF task[w].reply = "yes" THEN Proceed(w) ELSE Abort(w)
    /\ UNCHANGED <<env, agency, members, granted, seen>>

\* permissionVerdict and permissionVerdictOnError.
Verdict(reply) == reply = "yes" \/ (reply = "missing" /\ env.allowMissing)

\* RequirePermission on the route, RequireInstallationScope in the handler.
HearPermission(w) ==
    /\ task[w].pc \in Permission /\ task[w].reply # "none"
    /\ IF Verdict(task[w].reply) THEN Proceed(w) ELSE Abort(w)
    /\ UNCHANGED <<env, agency, members, granted, seen>>

\* SQLChecker.Allowed: no row and a failed lookup deny alike.
CheckMembership(w) ==
    /\ task[w].pc = "membership"
    /\ IF AllowQuery(task[w].user, task[w].tenant) THEN Proceed(w) ELSE Abort(w)
    /\ UNCHANGED <<env, agency, members, granted, seen>>

LoseLookup(w) ==
    /\ task[w].pc = "membership"
    /\ Abort(w)
    /\ seen' = [seen EXCEPT ![w].lost = TRUE]
    /\ UNCHANGED <<env, agency, members, granted>>

\* Mutant of TimeOut: the client waits for ever.
TimeOutNever(w) == FALSE /\ UNCHANGED vars

\* The HTTP client gives up after ten seconds, which reads as a broken reply.
TimeOut(w) ==
    /\ task[w].pc \in Remote /\ task[w].reply = "none"
    /\ task' = [task EXCEPT ![w].reply = "broken"]
    /\ seen' = [seen EXCEPT ![w].lost = TRUE]
    /\ UNCHANGED <<env, agency, members, granted>>

Finish(w) ==
    /\ task[w].pc = "handler"
    /\ Abort(w)
    /\ seen' = [seen EXCEPT ![w] = Nothing]
    /\ UNCHANGED <<env, agency, members, granted>>

Serve(w) == \/ TimeOut(w) \/ HearToken(w) \/ HearPermission(w) \/ CheckMembership(w)
            \/ LoseLookup(w) \/ Finish(w)

Next ==
    \/ \E u \in User : Regrant(u)
    \/ Enrol
    \/ \E w \in Worker, u \in User, t \in Tenant, installation \in BOOLEAN :
          Arrive(w, u, t, installation)
    \/ \E w \in Worker : Judge(w) \/ Serve(w)

\* The service's own steps run and its clients time out; the auth service need not answer.
Spec == Init /\ [][Next]_vars
FairSpec == Spec /\ \A w \in Worker : WF_vars(Serve(w))

(***************************************************************************)
(* Properties.                                                             *)
(***************************************************************************)

\* Fail closed: a request gets to its handler only if each of its gates was open to it at
\* some moment since it arrived, so that what was taken back before never counts; the one
\* exception is a permission endpoint that answers 404 where the operator allows it.
FailsClosed ==
    \A w \in Worker :
        task[w].pc = "handler" =>
            \A g \in Needed(task[w]) :
                \/ g \in seen[w].open
                \/ g \in Permission /\ env.allowMissing /\ g \in seen[w].absent

\* And it is turned away only if one of its gates was shut at some moment since then or an
\* authority could not be heard.
RefusedForCause ==
    [][\A w \in Worker :
          task[w].pc \in Gate /\ task'[w].pc = "idle" =>
              seen'[w].lost \/ seen[w].shut \cap Needed(task[w]) # {}]_vars

\* An auth service that never answers does not hold a request.
Answered == \A w \in Worker : task[w].pc # "idle" ~> task[w].pc = "idle"
=============================================================================
