-------------------------------- MODULE Desk --------------------------------
(***************************************************************************)
(* Who is answered and what people leave at the desk: the access middleware *)
(* over the OIDC adapter (src/src/api/access_middleware.ts,                 *)
(* src/src/identity), the binding of sessions to their owners               *)
(* (src/src/access), and the handoff cases and feedback about answer runs   *)
(* (src/src/answer/handoff_store.ts, feedback_store.ts). A request waits    *)
(* for its identity; everything after that happens at once.                 *)
(***************************************************************************)
EXTENDS Integers, Sequences

CONSTANTS
    Asks,          \* what a request may ask for, with which token
    Envs,          \* settings of the process: access mode, blank OIDC fields, clock skew
    Sessions,
    AnswerRuns,
    MaxVisits,     \* requests that are made (bound)
    MaxClock       \* the clock stops there (bound)

States == {"open", "claimed", "resolved", "cancelled"}
Scopes == {"chat", "ingest", "review", "admin"}
Management == {"list", "patch"}
Routes == {"chat", "handoff", "feedback"} \cup Management

ASSUME DeskAssumption ==
    /\ MaxVisits \in Nat /\ MaxClock \in Nat
    /\ \A e \in Envs : /\ e.mode \in {"single_tenant", "enforced"}
                       /\ e.blank \subseteq {"issuer", "audience", "jwks"} /\ e.skew \in Int
    /\ \A a \in Asks : /\ a.route \in Routes /\ a.session \in Sessions /\ a.run \in AnswerRuns

VARIABLES
    oidc,          \* the OIDC configuration: noop, fail_closed or active, with its skew
    clock,
    visits,        \* per request made: what it asks, and the answer (0 while it waits)
    bindings,      \* rows of sessions and their owners
    answered,      \* which session was answered for which owner
    cases,         \* rows of handoff cases
    told,          \* per answer run: the states its cases were in, by which tenants
    feedback       \* rows of feedback

deskVars == <<oidc, clock, visits, bindings, answered, cases, told, feedback>>

-----------------------------------------------------------------------------
(* Identities. *)

\* Enforced mode without all of its settings refuses everyone.
LoadOidcConfig(env) ==
    [kind |-> CASE env.mode = "single_tenant" -> "noop"
                [] env.mode = "enforced" /\ (env.blank # {} \/ env.skew < 0) -> "fail_closed"
                [] OTHER -> "active",
     skew |-> env.skew]

Local == [tenant |-> "default", subject |-> "local", scopes |-> Scopes]

\* Nobody has to be let in.
Stranger == [tenant |-> "none", subject |-> "none", scopes |-> {}]

\* A token without a known scope may chat; without tenant or subject it is nobody's.
AccessContextFromClaims(token) ==
    IF "none" \in {token.tenant, token.subject} THEN Stranger
    ELSE [tenant |-> token.tenant, subject |-> token.subject,
          scopes |-> LET known == token.scopes \cap Scopes
                     IN  IF known = {} THEN {"chat"} ELSE known]

\* The keys may be out of reach; they can never make a forged or late token good.
Verifies(token) ==
    IF token.genuine /\ clock < token.exp + oidc.skew THEN BOOLEAN ELSE {FALSE}

\* Who a waiting request comes from, as soon as that is known.
Identities(v) ==
    IF visits[v].code # 0 THEN {}
    ELSE CASE oidc.kind = "noop" -> {Local}
           [] oidc.kind = "fail_closed" -> {Stranger}
           [] oidc.kind = "active" ->
                LET token == visits[v].ask.token
                IN  {IF good THEN AccessContextFromClaims(token) ELSE Stranger :
                        good \in Verifies(token)}

\* The middleware asks for the chat scope, the handlers of the management routes for theirs.
InScope(ask, who) ==
    IF ask.route \in Management THEN who.scopes \cap {"review", "admin"} # {}
    ELSE "chat" \in who.scopes

Owner(who) == [tenant |-> who.tenant, subject |-> who.subject]

-----------------------------------------------------------------------------
DeskTypeOK ==
    /\ oidc \in {LoadOidcConfig(e) : e \in Envs}
    /\ clock \in 0 .. MaxClock
    /\ visits \in Seq([ask : Asks, code : {0, 200, 400, 401, 403, 404, 409}])
    /\ \A c \in cases : c.run \in AnswerRuns /\ c.status \in States
    /\ \A f, g \in feedback : f.owner = g.owner /\ f.run = g.run => f = g

DeskInit ==
    /\ \E e \in Envs : oidc = LoadOidcConfig(e)
    /\ clock = 0
    /\ visits = << >>
    /\ bindings = {}
    /\ answered = {}
    /\ cases = {}
    /\ told = [r \in AnswerRuns |-> << >>]
    /\ feedback = {}

Arrive ==
    /\ Len(visits) < MaxVisits
    /\ \E ask \in Asks : visits' = Append(visits, [ask |-> ask, code |-> 0])
    /\ UNCHANGED <<oidc, clock, bindings, answered, cases, told, feedback>>

ClockTicks ==
    /\ clock < MaxClock
    /\ clock' = clock + 1
    /\ UNCHANGED <<oidc, visits, bindings, answered, cases, told, feedback>>

Respond(v, code) == visits' = [visits EXCEPT ![v].code = code]

\* The identity of the request is known, and it may use the route.
Admitted(v, route, who) ==
    /\ who \in Identities(v)
    /\ visits[v].ask.route = route
    /\ who # Stranger /\ InScope(visits[v].ask, who)

Refuse(v) ==
    /\ \E who \in Identities(v) :
        \/ who = Stranger /\ Respond(v, 401)
        \/ who # Stranger /\ ~InScope(visits[v].ask, who) /\ Respond(v, 403)
    /\ UNCHANGED <<oidc, clock, bindings, answered, cases, told, feedback>>

-----------------------------------------------------------------------------
(* The handlers. *)

Agrees(row, owner) == row.owner = owner

\* bindOrCheck: the first one binds the session, the others must be the same owner.
BindOrCheck(v, who) ==
    /\ Admitted(v, "chat", who)
    /\ LET session == visits[v].ask.session
           mine == [session |-> session, owner |-> Owner(who)]
           rows == {b \in bindings : b.session = session}
       IN  IF \A b \in rows : Agrees(b, Owner(who))
           THEN /\ Respond(v, 200)
                /\ bindings' = IF rows = {} THEN bindings \cup {mine} ELSE bindings
                /\ answered' = answered \cup {mine}
           ELSE Respond(v, 409) /\ UNCHANGED <<bindings, answered>>
    /\ UNCHANGED <<oidc, clock, cases, told, feedback>>

ValidTransitions ==
    [open |-> {"claimed", "cancelled"}, claimed |-> {"resolved", "cancelled"},
     resolved |-> {}, cancelled |-> {}]

Tell(run, status, who) ==
    told' = [told EXCEPT ![run] = Append(@, [status |-> status, tenant |-> who.tenant])]

\* The rows of a run, of any tenant or of one.
CasesOf(run) == {c \in cases : c.run = run}
CasesIn(run, tenant) == {c \in CasesOf(run) : c.tenant = tenant}

\* Mutation: unique by run and tenant.
UniqueInTenant(run, tenant) == CasesIn(run, tenant) = {}

\* INSERT OR IGNORE: unique by run.
Inserts(run, tenant) == CasesOf(run) = {}

\* The case that is there is the answer, unless it is of another tenant.
CreateHandoff(v, who) ==
    /\ Admitted(v, "handoff", who)
    /\ LET run == visits[v].ask.run
           new == [run |-> run, tenant |-> who.tenant, subject |-> who.subject,
                   status |-> "open"]
       IN  \/ /\ ~visits[v].ask.fits
              /\ Respond(v, 400) /\ UNCHANGED <<cases, told>>
           \/ /\ visits[v].ask.fits /\ Inserts(run, who.tenant)
              /\ cases' = cases \cup {new}
              /\ Tell(run, "open", who)
              /\ Respond(v, 200)
           \/ /\ visits[v].ask.fits /\ ~Inserts(run, who.tenant)
              /\ Respond(v, IF CasesIn(run, who.tenant) = {} THEN 404 ELSE 200)
              /\ UNCHANGED <<cases, told>>
    /\ UNCHANGED <<oidc, clock, bindings, answered, feedback>>

\* A case of another tenant is not found.
UpdateStatus(v, who) ==
    /\ Admitted(v, "patch", who)
    /\ LET run == visits[v].ask.run
           to == visits[v].ask.to
           found == CasesIn(run, who.tenant)
       IN  IF \E c \in found : to \in ValidTransitions[c.status]
           THEN /\ cases' = (cases \ found) \cup {[c EXCEPT !.status = to] : c \in found}
                /\ Tell(run, to, who)
                /\ Respond(v, 200)
           ELSE /\ Respond(v, IF to \notin States THEN 400 ELSE IF found = {} THEN 404 ELSE 409)
                /\ UNCHANGED <<cases, told>>
    /\ UNCHANGED <<oidc, clock, bindings, answered, feedback>>

\* listByTenant changes nothing.
ListCases(v, who) ==
    /\ Admitted(v, "list", who)
    /\ Respond(v, IF visits[v].ask.fits THEN 200 ELSE 400)
    /\ UNCHANGED <<oidc, clock, bindings, answered, cases, told, feedback>>

\* A bad rating needs one of the reasons, a good one none (fits); one row per owner and run.
PutFeedback(v, who) ==
    /\ Admitted(v, "feedback", who)
    /\ LET run == visits[v].ask.run
       IN  IF visits[v].ask.fits
           THEN /\ feedback' = {f \in feedback : f.owner # Owner(who) \/ f.run # run}
                                   \cup {[owner |-> Owner(who), run |-> run]}
                /\ Respond(v, 200)
           ELSE Respond(v, 400) /\ UNCHANGED feedback
    /\ UNCHANGED <<oidc, clock, bindings, answered, cases, told>>

DeskNext ==
    \/ ClockTicks \/ Arrive
    \/ \E v \in DOMAIN visits :
        \/ Refuse(v)
        \/ \E who \in Identities(v) :
            \/ BindOrCheck(v, who) \/ CreateHandoff(v, who) \/ UpdateStatus(v, who)
            \/ ListCases(v, who) \/ PutFeedback(v, who)

DeskSpec == DeskInit /\ [][DeskNext]_deskVars

-----------------------------------------------------------------------------
(* Property. *)

\* What a case can go through.
Stories ==
    {<< >>, <<"open">>, <<"open", "claimed">>, <<"open", "cancelled">>,
     <<"open", "claimed", "resolved">>, <<"open", "claimed", "cancelled">>}

\* However requests overlap while their identities are looked up, a session is answered
\* for one owner only, and an answer run has one case ever, told once from its opening
\* to its end by people of one tenant (bindOrCheck, create, updateStatus).
OneOwnerOneStory ==
    /\ \A a, b \in answered : a.session = b.session => a.owner = b.owner
    /\ \A r \in AnswerRuns :
        /\ [i \in DOMAIN told[r] |-> told[r][i].status] \in Stories
        /\ \A i, j \in DOMAIN told[r] : told[r][i].tenant = told[r][j].tenant
=============================================================================
