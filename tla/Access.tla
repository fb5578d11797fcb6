------------------------------- MODULE Access -------------------------------
(***************************************************************************)
(* Who may do what: the GitHub login (services/github_oauth_service.py,    *)
(* auth/oauth_state.py), tokens (auth/jwt.py, api/deps/auth.py), rate      *)
(* limits (core/rate_limit.py), the first organization                     *)
(* (services/organization_service.py), authorization (authz/) and the      *)
(* projects it guards (services/project_service.py).                       *)
(*                                                                         *)
(* Each client makes one request.  A request is a database session: what   *)
(* it has added is pending until a commit, and an exception rolls it back  *)
(* (core/database.py).  Redis holds the OAuth states and the counters of   *)
(* the rate limits, both with an expiry.  The clock counts fractions of a  *)
(* second, because the retry time is cut to whole seconds.                 *)
(*                                                                         *)
(* The identifier of a user, an organization or a project is the position  *)
(* of its row.  Nobody but an operator with direct access to the database  *)
(* changes memberships or disables users.                                  *)
(***************************************************************************)
EXTENDS Integers, Sequences, FiniteSets, ErrorStatus

CONSTANTS
    Clients,
    Identities,        \* GitHub accounts
    States,            \* OAuth states: random values
    Slugs,             \* of projects
    Second,            \* ticks of the clock
    WindowSeconds,     \* of the rate limits
    StateTTL,          \* github_oauth_state_ttl_seconds, in ticks
    TokenLife,         \* jwt_access_token_expire_minutes, in ticks
    None,
    Starts             \* what there is, and who asks for what

ASSUME TimeAssumption ==
    /\ {Second, WindowSeconds, TokenLife} \subseteq Nat \ {0}
    /\ StateTTL \in Nat \ {0}

Roles == {"member", "admin", "owner"}

\* The rows of a start respect the foreign keys and the unique keys of their
\* tables (a user's GitHub account and email, a project's slug), and a token
\* was issued to a user.
ASSUME StartsAssumption ==
    \A s \in Starts :
        /\ s.ops \in [Clients -> {"login", "callback", "onboard", "create", "update", "read",
                                  "nothing"}]
        /\ s.email \in [Identities -> Identities]
        /\ s.states \subseteq States
        /\ s.users \in Seq([github : Identities, active : BOOLEAN])
        /\ \A u, v \in DOMAIN s.users :
              s.email[s.users[u].github] = s.email[s.users[v].github] => u = v
        /\ s.members \subseteq [org : 1..s.orgs, user : DOMAIN s.users, role : Roles]
        /\ s.projects \in Seq([org : 1..s.orgs, slug : Slugs, name : Clients \cup {None}])
        /\ \A i, j \in DOMAIN s.projects :
              s.projects[i].org = s.projects[j].org /\ s.projects[i].slug = s.projects[j].slug
              => i = j
        /\ \A t \in s.tokens : t.sub \in DOMAIN s.users
        /\ {s.limit, s.horizon, s.changes, s.orgs} \subseteq Nat /\ s.faults \in BOOLEAN

ASSUME NoneAssumption == None \notin {"ok", "RateLimited"}

VARIABLES
    given,         \* the start: never changed; faults: whether anything fails
    now,           \* the clock
    counts,        \* Redis: the counters of the rate limits, [n, expires] by key
    states,        \* Redis: when the OAuth states that are saved expire
    users,         \* users: [github, active]
    orgs,          \* the number of organizations
    members,       \* organization_members: [org, user, role]
    projects,      \* projects: [org, slug, name]
    audit,         \* audit_events: [action, by]
    tokens,        \* the tokens given to clients: [sub, org, exp]
    call,          \* what each client's request is doing
    changes,       \* history: how often the operator has changed something
    passed,        \* history: the requests let through a rate limit: [key, at, by]
    consumed,      \* history: the states accepted by a callback: [state, by]
    held           \* history: <<org, role>> the user of a request had while it ran

vars == <<given, now, counts, states, users, orgs, members, projects, audit, tokens, call, changes,
          passed, consumed, held>>

Redis == <<counts, states>>

Tables == <<users, orgs, members, projects>>

History == <<changes, passed, consumed, held>>

-----------------------------------------------------------------------------
(* Requests *)

\* key is of the rate limit; org and project are the target; audits are the
\* audit events that are pending.
NoCall ==
    [pc |-> "idle", key |-> None, github |-> None, user |-> None, org |-> None, project |-> None,
     audits |-> {}, token |-> None, answer |-> None, retry |-> 0, at |-> 0]

Init ==
    \E s \in Starts :
        /\ given = [ops |-> s.ops, email |-> s.email, limit |-> s.limit, horizon |-> s.horizon,
                    changes |-> s.changes, faults |-> s.faults]
        /\ now = 0
        /\ counts = [k \in {} |-> 0]
        /\ states = [st \in s.states |-> StateTTL]
        /\ users = s.users
        /\ orgs = s.orgs
        /\ members = s.members
        /\ projects = s.projects
        /\ audit = {}
        /\ tokens = s.tokens
        /\ call = [c \in Clients |-> NoCall]
        /\ changes = 0
        /\ passed = {}
        /\ consumed = {}
        /\ held = [c \in Clients |-> {}]

\* The rows of the tables.
User(github) == [github |-> github, active |-> TRUE]

Membership(org, user, role) == [org |-> org, user |-> user, role |-> role]

Project(org, slug, name) == [org |-> org, slug |-> slug, name |-> name]

AuditEvent(action, c) == [action |-> action, by |-> c]

Is(c, ops) == given.ops[c] \in ops

At(c, ops, pc) == Is(c, ops) /\ call[c].pc = pc

Goto(c, pc) == call' = [call EXCEPT ![c].pc = pc]

\* An exception leaves the handler: the session is rolled back.
Raise(c, error) ==
    call' = [call EXCEPT ![c] = [@ EXCEPT !.pc = "done", !.answer = error, !.audits = {}]]

\* get_db_session commits what is pending, and then the client has its answer.
End(c) ==
    /\ call[c].pc = "ending"
    /\ audit' = audit \cup {AuditEvent(a, c) : a \in call[c].audits}
    /\ tokens' = IF call[c].token = None THEN tokens ELSE tokens \cup {call[c].token}
    /\ call' = [call EXCEPT ![c] = [@ EXCEPT !.pc = "done", !.answer = "ok", !.audits = {}]]
    /\ UNCHANGED <<given, now, Redis, Tables, History>>

\* Mutant of RecordRefusal: the event is left to the commit at the end.
RecordRefusalPending(c, action, error) ==
    /\ call' = [call EXCEPT ![c] = [@ EXCEPT !.pc = "refusing", !.answer = error,
                                             !.audits = {action}]]
    /\ UNCHANGED audit

\* _record_login_failure, _record_denial: the event is committed, because the
\* exception that follows would roll it back.
RecordRefusal(c, action, error) ==
    /\ call' = [call EXCEPT ![c] = [@ EXCEPT !.pc = "refusing", !.answer = error]]
    /\ audit' = audit \cup {AuditEvent(action, c)}

Refuse(c) ==
    /\ call[c].pc = "refusing"
    /\ Raise(c, call[c].answer)
    /\ UNCHANGED <<given, now, Redis, Tables, audit, tokens, History>>

\* The database or the process fails: the transaction is rolled back.
Fail(c) ==
    /\ given.faults
    /\ call[c].pc \notin {"idle", "done"}
    /\ Raise(c, "Crash")
    /\ UNCHANGED <<given, now, Redis, Tables, audit, tokens, History>>

Tick ==
    /\ now < given.horizon
    /\ now' = now + 1
    /\ UNCHANGED <<given, Redis, Tables, audit, tokens, call, History>>

-----------------------------------------------------------------------------
(* Rate limits: by the peer's address before there is a user, else by user *)

Window == WindowSeconds * Second

\* All clients that are not logged in have one address, 0.
Identity(c) == IF Is(c, {"login", "callback"}) THEN 0 ELSE call[c].user

\* build_key: the window is that of the application's clock ...
BuildKey(c) ==
    /\ \/ At(c, {"login", "callback"}, "idle")
       \/ At(c, {"onboard"}, "authenticated")
    /\ call' = [call EXCEPT ![c] = [@ EXCEPT !.pc = "keyed",
                                             !.key = <<Identity(c), now \div Window>>]]
    /\ UNCHANGED <<given, now, Redis, Tables, audit, tokens, History>>

\* retry_after_seconds: the rest of the window, cut to whole seconds.
RetryAfter(t) ==
    LET left == (Window - (t % Window)) \div Second
    IN  IF left < 1 THEN 1 ELSE left

\* A counter that has expired is gone.
Count(key) == IF key \in DOMAIN counts /\ now < counts[key].expires THEN counts[key].n ELSE 0

\* Mutant of Increment: the key lives for a second less than the window.
IncrementShortLived(key) ==
    [k \in DOMAIN counts \cup {key} |->
        IF k # key THEN counts[k]
        ELSE [n |-> Count(key) + 1,
              expires |-> IF Count(key) = 0 THEN now + Window - Second ELSE counts[key].expires]]

\* _FIXED_WINDOW_SCRIPT: INCR, and EXPIRE by whoever creates the key.
Increment(key) ==
    [k \in DOMAIN counts \cup {key} |->
        IF k # key THEN counts[k]
        ELSE [n |-> Count(key) + 1,
              expires |-> IF Count(key) = 0 THEN now + Window ELSE counts[key].expires]]

\* ... and the script runs when it gets there (enforce).
Enforce(c) ==
    /\ call[c].pc = "keyed"
    /\ \/ /\ counts' = Increment(call[c].key)
          /\ IF Count(call[c].key) + 1 <= given.limit
             THEN /\ call' = [call EXCEPT ![c] = [@ EXCEPT !.pc = "admitted", !.key = None]]
                  /\ passed' = passed \cup {[key |-> call[c].key, at |-> now, by |-> c]}
             ELSE /\ call' = [call EXCEPT ![c] = [@ EXCEPT !.pc = "done", !.answer = "RateLimited",
                                                           !.retry = RetryAfter(now), !.at = now]]
                  /\ UNCHANGED passed
       \/ given.faults /\ Raise(c, "RateLimiterUnavailable") /\ UNCHANGED <<counts, passed>>
    /\ UNCHANGED <<given, now, states, Tables, audit, tokens, changes, consumed, held>>

-----------------------------------------------------------------------------
(* GitHubOAuthService *)

\* start_login: the state is a random value, new.
FreshStates == States \ (DOMAIN states \cup {x.state : x \in consumed})

StartLogin(c) ==
    /\ At(c, {"login"}, "admitted")
    /\ \/ LET new == CHOOSE st \in FreshStates : TRUE
          IN  /\ FreshStates # {}
              /\ states' = [x \in DOMAIN states \cup {new} |->
                               IF x = new THEN now + StateTTL ELSE states[x]]
              /\ Goto(c, "ending")
       \/ given.faults /\ Raise(c, "OAuthStateStoreUnavailable") /\ UNCHANGED states
    /\ UNCHANGED <<given, now, counts, Tables, audit, tokens, History>>

Saved(st) == st \in DOMAIN states /\ now < states[st]

\* Mutant of Without: the state is read and not removed.
WithoutNothing(st) == states

\* GETDEL
Without(st) == [x \in DOMAIN states \ {st} |-> states[x]]

\* handle_callback until GitHub is asked: consume comes first, whatever else
\* the callback says.
Consume(c) ==
    /\ At(c, {"callback"}, "admitted")
    /\ \E st \in States :
          \/ /\ ~Saved(st)
             /\ RecordRefusal(c, "login_failure", "OAuthStateInvalid")
             /\ UNCHANGED <<states, consumed>>
          \/ /\ Saved(st)
             /\ states' = Without(st)
             /\ consumed' = consumed \cup {[state |-> st, by |-> c]}
             /\ \/ /\ RecordRefusal(c, "login_failure", "GitHubAuthorizationDenied")
                \/ /\ Raise(c, "MissingAuthorizationCode") /\ UNCHANGED audit
                \/ /\ Goto(c, "consumed") /\ UNCHANGED audit
          \/ /\ given.faults /\ Raise(c, "OAuthStateStoreUnavailable")
             /\ UNCHANGED <<states, consumed, audit>>
    /\ UNCHANGED <<given, now, counts, Tables, tokens, changes, passed, held>>

ExchangeErrors ==
    {"GitHubTokenExchangeFailed", "GitHubIdentityLookupFailed", "MalformedGitHubIdentity"}

\* exchange_code and fetch_identity
Exchange(c) ==
    /\ At(c, {"callback"}, "consumed")
    /\ \/ \E g \in Identities :
             call' = [call EXCEPT ![c] = [@ EXCEPT !.pc = "identified", !.github = g]]
       \/ given.faults /\ \E e \in ExchangeErrors : Raise(c, e)
    /\ UNCHANGED <<given, now, Redis, Tables, audit, tokens, History>>

\* get_by_github_id
LookupUser(c) ==
    /\ At(c, {"callback"}, "identified")
    /\ IF \E u \in DOMAIN users : users[u].github = call[c].github
       THEN call' = [call EXCEPT ![c] = [@ EXCEPT !.pc = "known",
                        !.user = CHOOSE u \in DOMAIN users : users[u].github = call[c].github]]
       ELSE Goto(c, "unknown")
    /\ UNCHANGED <<given, now, Redis, Tables, audit, tokens, History>>

\* github_user_id and email are unique.
SameUser(g, h) == g = h \/ given.email[g] = given.email[h]

UserTaken(g) == \E u \in DOMAIN users : SameUser(users[u].github, g)

\* create_from_github: the insert waits for a transaction that has inserted the
\* same user, and nobody catches the IntegrityError.
FlushUser(c) ==
    /\ At(c, {"callback"}, "unknown")
    /\ \A d \in Clients : call[d].pc = "created" => ~SameUser(call[d].github, call[c].github)
    /\ IF UserTaken(call[c].github) THEN Raise(c, "IntegrityError") ELSE Goto(c, "created")
    /\ UNCHANGED <<given, now, Redis, Tables, audit, tokens, History>>

CommitUser(c) ==
    /\ At(c, {"callback"}, "created")
    /\ users' = Append(users, User(call[c].github))
    /\ call' = [call EXCEPT ![c] = [@ EXCEPT !.pc = "known", !.user = Len(users) + 1]]
    /\ UNCHANGED <<given, now, Redis, orgs, members, projects, audit, tokens, History>>

MembershipsOf(u) == {m \in members : m.user = u}

\* encode_token
Token(u, org) == [sub |-> u, org |-> org, exp |-> now + TokenLife]

\* The token carries the organization if there is exactly one.
IssueToken(c) ==
    /\ At(c, {"callback"}, "known")
    /\ LET mine == MembershipsOf(call[c].user)
           org == IF Cardinality(mine) = 1 THEN (CHOOSE m \in mine : TRUE).org ELSE None
       IN  call' = [call EXCEPT ![c] = [@ EXCEPT !.pc = "ending", !.audits = {"login_success"},
                                                 !.token = Token(call[c].user, org)]]
    /\ UNCHANGED <<given, now, Redis, Tables, audit, tokens, History>>

-----------------------------------------------------------------------------
(* get_current_user *)

RolesOf(u) == {<<m.org, m.role>> : m \in MembershipsOf(u)}

\* No token, one that does not verify, or one of those that were issued.
Authenticate(c) ==
    /\ At(c, {"onboard", "create", "update", "read"}, "idle")
    /\ \/ \E e \in {"AuthenticationRequired", "InvalidToken"} : Raise(c, e) /\ UNCHANGED held
       \/ \E t \in tokens :
             \/ /\ now >= t.exp
                /\ Raise(c, "ExpiredToken") /\ UNCHANGED held
             \/ /\ now < t.exp /\ ~users[t.sub].active
                /\ Raise(c, "DisabledUser") /\ UNCHANGED held
             \/ /\ now < t.exp /\ users[t.sub].active
                /\ call' = [call EXCEPT ![c] = [@ EXCEPT !.pc = "authenticated", !.user = t.sub,
                                                         !.token = t]]
                /\ held' = [held EXCEPT ![c] = RolesOf(t.sub)]
    /\ UNCHANGED <<given, now, Redis, Tables, audit, tokens, changes, passed, consumed>>

-----------------------------------------------------------------------------
(* OrganizationService.onboard_first_organization *)

\* Mutant of LockUser: a plain SELECT.
LockUserPlain(c) ==
    /\ At(c, {"onboard"}, "admitted")
    /\ Goto(c, "locked")
    /\ UNCHANGED <<given, now, Redis, Tables, audit, tokens, History>>

\* Mutant of LockUser: the session is never closed, so the lock stays.
LockUserKept(c) ==
    /\ At(c, {"onboard"}, "admitted")
    /\ \A d \in Clients \ {c} :
          (Is(d, {"onboard"}) /\ call[d].pc \in {"locked", "clear", "ending", "done"})
          => call[d].user # call[c].user
    /\ Goto(c, "locked")
    /\ UNCHANGED <<given, now, Redis, Tables, audit, tokens, History>>

\* SELECT ... FOR UPDATE on the user's row
LockUser(c) ==
    /\ At(c, {"onboard"}, "admitted")
    /\ \A d \in Clients :
          call[d].pc \in {"locked", "clear"} => call[d].user # call[c].user
    /\ Goto(c, "locked")
    /\ UNCHANGED <<given, now, Redis, Tables, audit, tokens, History>>

CheckMemberships(c) ==
    /\ At(c, {"onboard"}, "locked")
    /\ IF MembershipsOf(call[c].user) = {}
       THEN Goto(c, "clear")
       ELSE Raise(c, "OrganizationAlreadyProvisioned")
    /\ UNCHANGED <<given, now, Redis, Tables, audit, tokens, History>>

\* Organization, membership and audit event in one commit; a token of the new
\* organization is the answer.
CommitOrganization(c) ==
    /\ At(c, {"onboard"}, "clear")
    /\ orgs' = orgs + 1
    /\ members' = members \cup {Membership(orgs + 1, call[c].user, "owner")}
    /\ audit' = audit \cup {AuditEvent("organization_created", c)}
    /\ call' = [call EXCEPT ![c] = [@ EXCEPT !.pc = "ending", !.org = orgs + 1,
                                             !.token = Token(call[c].user, orgs + 1)]]
    /\ held' = [d \in Clients |-> IF call[d].user = call[c].user
                                  THEN held[d] \cup {<<orgs + 1, "owner">>} ELSE held[d]]
    /\ UNCHANGED <<given, now, Redis, users, projects, tokens, changes, passed, consumed>>

-----------------------------------------------------------------------------
(* Authorization: the membership is read for the organization of the target *)

MemberPermissions ==
    {"project:read", "component:read", "scan:read", "trajectory:read", "replay:read", "graph:read",
     "differential:read", "risk:read", "github_integration:read"}

AdminPermissions ==
    MemberPermissions \cup
    {"project:create", "project:update", "component:write", "scan:execute", "trajectory:write",
     "replay:execute", "graph:write", "differential:execute", "risk:execute",
     "github_integration:manage", "audit:read"}

OwnerPermissions == AdminPermissions \cup {"membership:manage", "org:manage"}

\* role_has_permission
RoleHasPermission(role, permission) ==
    permission \in [member |-> MemberPermissions, admin |-> AdminPermissions,
                    owner |-> OwnerPermissions][role]

\* What the routes of api/v1/projects.py ask for.
PermissionFor ==
    [create |-> "project:create", update |-> "project:update", read |-> "project:read"]

\* Mutant of RolesIn: the organization of the token instead of the target's.
RolesInToken(c, org) == {m.role : m \in {x \in members : x.user = call[c].user /\
                                                         x.org = call[c].token.org}}

\* get_for_user_and_organization
RolesIn(c, org) == {m.role : m \in {x \in members : x.user = call[c].user /\ x.org = org}}

\* The decision on a request for something of org; missing is the error for
\* those who are no members.
Decide(c, org, project, missing) ==
    LET allowed == {r \in RolesIn(c, org) : RoleHasPermission(r, PermissionFor[given.ops[c]])}
    IN  \/ /\ RolesIn(c, org) = {}
           /\ call' = [call EXCEPT ![c] = [@ EXCEPT !.pc = "done", !.answer = missing, !.org = org]]
           /\ UNCHANGED audit
        \/ /\ RolesIn(c, org) # {} /\ allowed = {}
           /\ RecordRefusal(c, "authorization_denied", "PermissionDenied")
        \/ /\ allowed # {}
           /\ call' = [call EXCEPT ![c] = [@ EXCEPT !.pc = "authorized", !.org = org,
                                                    !.project = project]]
           /\ UNCHANGED audit

\* authorize_organization_access
AuthorizeOrganization(c) ==
    /\ At(c, {"create"}, "authenticated")
    /\ \E org \in 1..(orgs + 1) : Decide(c, org, None, "OrganizationAccessDenied")
    /\ UNCHANGED <<given, now, Redis, Tables, tokens, History>>

\* authorize_project_access
AuthorizeProject(c) ==
    /\ At(c, {"update", "read"}, "authenticated")
    /\ \/ Raise(c, "ProjectNotFound") /\ UNCHANGED audit
       \/ \E p \in DOMAIN projects : Decide(c, projects[p].org, p, "ProjectAccessDenied")
    /\ UNCHANGED <<given, now, Redis, Tables, tokens, History>>

-----------------------------------------------------------------------------
(* ProjectService *)

\* uq_projects_organization_id_slug
CreateProject(c) ==
    /\ At(c, {"create"}, "authorized")
    /\ \E new \in Slugs :
          IF \E i \in DOMAIN projects : projects[i].org = call[c].org /\ projects[i].slug = new
          THEN Raise(c, "DuplicateProject") /\ UNCHANGED projects
          ELSE /\ projects' = Append(projects, Project(call[c].org, new, c))
               /\ Goto(c, "ending")
    /\ UNCHANGED <<given, now, Redis, users, orgs, members, audit, tokens, History>>

UpdateProject(c) ==
    /\ At(c, {"update"}, "authorized")
    /\ projects' = [projects EXCEPT ![call[c].project].name = c]
    /\ Goto(c, "ending")
    /\ UNCHANGED <<given, now, Redis, users, orgs, members, audit, tokens, History>>

GetProject(c) ==
    /\ At(c, {"read"}, "authorized")
    /\ Goto(c, "ending")
    /\ UNCHANGED <<given, now, Redis, Tables, audit, tokens, History>>

-----------------------------------------------------------------------------
(* The operator, with direct access to the database: external *)

Operator ==
    /\ changes < given.changes
    /\ changes' = changes + 1
    /\ \/ \E u \in DOMAIN users :
             users' = [users EXCEPT ![u].active = ~@] /\ UNCHANGED members
       \/ \E m \in members, r \in Roles :
             /\ members' = (members \ {m}) \cup {[m EXCEPT !.role = r]}
             /\ UNCHANGED users
       \/ \E m \in members : members' = members \ {m} /\ UNCHANGED users
    /\ held' = [c \in Clients |->
                   held[c] \cup {<<m.org, m.role>> :
                                  m \in {x \in members' : x.user = call[c].user}}]
    /\ UNCHANGED <<given, now, Redis, orgs, projects, audit, tokens, call, passed, consumed>>

-----------------------------------------------------------------------------
Step(c) ==
    \/ BuildKey(c) \/ Enforce(c)
    \/ StartLogin(c) \/ Consume(c) \/ Exchange(c)
    \/ LookupUser(c) \/ FlushUser(c) \/ CommitUser(c) \/ IssueToken(c)
    \/ Authenticate(c)
    \/ LockUser(c) \/ CheckMemberships(c) \/ CommitOrganization(c)
    \/ AuthorizeOrganization(c) \/ AuthorizeProject(c)
    \/ CreateProject(c) \/ UpdateProject(c) \/ GetProject(c)
    \/ Refuse(c) \/ End(c)

Next ==
    \/ \E c \in Clients : Step(c) \/ Fail(c)
    \/ Tick
    \/ Operator

Spec == Init /\ [][Next]_vars

\* The server goes on with every request it has accepted.
FairSpec == Spec /\ \A c \in Clients : WF_vars(call[c].pc # "idle" /\ Step(c))

-----------------------------------------------------------------------------
(* Properties *)

\* While a window lasts, no more requests of one identity that arrived in it
\* are let through than the limit, however their keys and their checks
\* interleave: the counter of a window does not expire before the window ends.
WithinLimit ==
    \A k \in DOMAIN counts :
        Cardinality({a \in passed : a.key = k /\ a.at < (k[2] + 1) * Window}) <= given.limit

\* A client that is refused is told to wait at least a second and at most a
\* window, and if it waits one second longer than told it is in a later window:
\* cutting the time to whole seconds loses less than a second.
RetryLeavesWindow ==
    \A c \in Clients :
        call[c].answer = "RateLimited" =>
            /\ call[c].retry \in 1..WindowSeconds
            /\ (call[c].at + (call[c].retry + 1) * Second) \div Window > call[c].at \div Window

\* The limiter lets nobody through beyond the limit, and tells whom it refuses
\* when to come back.
LimiterSound == WithinLimit /\ RetryLeavesWindow

\* However callbacks overlap, and whatever else they say, a state is accepted
\* once and is gone from then on.
StateUsedOnce ==
    /\ \A x, y \in consumed : x.state = y.state => x = y
    /\ \A x \in consumed : x.state \notin DOMAIN states

\* Logins that race create one user of a GitHub account and of an email
\* address, and whoever is given a token gets that of the account GitHub named.
OneUserPerAccount ==
    /\ \A u, v \in DOMAIN users : SameUser(users[u].github, users[v].github) => u = v
    /\ \A c \in Clients :
          (Is(c, {"callback"}) /\ call[c].token # None) =>
              users[call[c].token.sub].github = call[c].github

\* A login is used once and leads to one user.
LoginSound == StateUsedOnce /\ OneUserPerAccount

\* Requests of one user that race create one organization; only the operator,
\* by taking a membership away, makes room for another.
OneOrganizationEach ==
    \A u \in DOMAIN users :
        Cardinality({a \in audit : a.action = "organization_created" /\ call[a.by].user = u})
            <= 1 + changes

\* Projects that are created at the same time have different slugs in their
\* organization, and belong to one that exists.
OneProjectPerSlug ==
    \A p \in DOMAIN projects :
        /\ projects[p].org \in 1..orgs
        /\ \A q \in DOMAIN projects :
              (projects[p].org = projects[q].org /\ projects[p].slug = projects[q].slug) => p = q

\* Races and retries create no tenant twice.
TenantsCreatedOnce == OneOrganizationEach /\ OneProjectPerSlug

\* Whoever changes or sees something of an organization had a role with the
\* permission in that very organization while the request was running, whatever
\* the token says and whatever the operator did before.
RightsWereHeld ==
    \A c \in Clients :
        (Is(c, {"create", "update", "read"}) /\ (call[c].pc \in {"authorized", "ending"} \/
                                                call[c].answer = "ok")) =>
            \E r \in Roles : /\ <<call[c].org, r>> \in held[c]
                             /\ RoleHasPermission(r, PermissionFor[given.ops[c]])

\* The request was refused to someone who never was a member of the target's
\* organization while it ran.
Stranger(c) ==
    /\ Is(c, {"create", "update", "read"}) /\ call[c].pc = "done" /\ call[c].org # None
    /\ \A r \in Roles : <<call[c].org, r>> \notin held[c]

\* A stranger is answered with the status and the code of a missing project and
\* is never told of a missing permission.  Strangers who want to create a
\* project get one and the same answer, message included, whether the
\* organization they name exists or not.  For a project that exists the message
\* does tell: see StrangersCannotTell.
StrangersGetNotFound ==
    /\ \A c \in Clients : Stranger(c) =>
          /\ ErrorAnswer(call[c].answer).status = ErrorAnswer("ProjectNotFound").status
          /\ ErrorAnswer(call[c].answer).code = ErrorAnswer("ProjectNotFound").code
    /\ \A c, d \in Clients :
          (Is(c, {"create"}) /\ Is(d, {"create"}) /\ Stranger(c) /\ Stranger(d)) =>
              ErrorAnswer(call[c].answer) = ErrorAnswer(call[d].answer)

\* Nobody gets at an organization's projects without a right, and who has none
\* at all is refused with 404 and RESOURCE_NOT_FOUND.
AccessWasGranted == RightsWereHeld /\ StrangersGetNotFound

\* ProjectAccessDenied is documented as "deliberately indistinguishable from
\* `ProjectNotFound` to a caller outside the tenant": whoever asks for a project
\* of an organization to which he never belonged gets the answer that there is
\* no such project, message included.
StrangersCannotTell ==
    \A c \in Clients :
        (Is(c, {"update", "read"}) /\ Stranger(c)) =>
            ErrorAnswer(call[c].answer) = ErrorAnswer("ProjectNotFound")

\* The audit events an answer calls for.
AuditFor(c) ==
    CASE call[c].answer \in {"OAuthStateInvalid", "GitHubAuthorizationDenied"} -> {"login_failure"}
      [] call[c].answer = "PermissionDenied" -> {"authorization_denied"}
      [] call[c].answer = "ok" /\ Is(c, {"callback"}) -> {"login_success"}
      [] call[c].answer = "ok" /\ Is(c, {"onboard"}) -> {"organization_created"}
      [] OTHER -> {}

\* The audit trail says of an answered request what the client was told: the
\* event of a refusal survives the rollback the refusal causes, and that of a
\* success is not there unless the request came to its end.
RefusalsAudited ==
    \A c \in Clients :
        (call[c].pc = "done" /\ call[c].answer # "Crash") =>
            {a.action : a \in {x \in audit : x.by = c}} = AuditFor(c)

\* Every request the server has accepted is answered: nobody waits for ever for
\* a row that someone else has inserted or locked.
EveryRequestAnswered == \A c \in Clients : (call[c].pc # "idle") ~> (call[c].pc = "done")

=============================================================================
