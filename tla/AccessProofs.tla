---------------------------- MODULE AccessProofs ----------------------------
(***************************************************************************)
(* What Access promises, for any number of clients, accounts and projects, *)
(* any limit and any window: a login is used once, one user is made of an  *)
(* account, one organization of a user's requests, nobody acts without a   *)
(* right, refusals are on the audit trail and the limiter keeps its limit. *)
(***************************************************************************)
EXTENDS Access, FiniteSetTheorems, TLAPS

-----------------------------------------------------------------------------
(* Types, and the way a request goes                                       *)

Ops == {"login", "callback", "onboard", "create", "update", "read", "nothing"}

ProjectOps == {"create", "update", "read"}

\* Where a request can be, by what is asked for, and which rows it then names.
PathOf(c) ==
    LET pc == call[c].pc
    IN  /\ Is(c, {"login"}) => pc \in {"idle", "keyed", "admitted", "ending", "done"}
        /\ Is(c, {"callback"}) =>
              pc \in {"idle", "keyed", "admitted", "consumed", "identified", "unknown", "created",
                      "known", "ending", "refusing", "done"}
        /\ Is(c, {"onboard"}) =>
              pc \in {"idle", "authenticated", "keyed", "admitted", "locked", "clear", "ending",
                      "done"}
        /\ Is(c, ProjectOps) =>
              pc \in {"idle", "authenticated", "authorized", "ending", "refusing", "done"}
        /\ Is(c, {"nothing"}) => pc = "idle"

RowsOf(c) ==
    LET pc == call[c].pc
    IN  /\ Is(c, {"callback"}) /\ pc = "known" => call[c].user \in DOMAIN users
        /\ Is(c, {"callback"}) /\ pc \in {"identified", "unknown", "created"} =>
              call[c].github \in Identities
        /\ Is(c, {"onboard"}) /\ pc \notin {"idle", "done"} => call[c].user \in DOMAIN users
        /\ call[c].token # None => call[c].token.sub \in DOMAIN users
        /\ Is(c, ProjectOps) /\ pc = "authorized" =>
              /\ call[c].org \in 1..orgs
              /\ Is(c, {"update"}) => call[c].project \in DOMAIN projects

TypeOK ==
    /\ given.ops \in [Clients -> Ops] /\ given.limit \in Nat
    /\ now \in Nat /\ changes \in Nat /\ orgs \in Nat
    /\ users \in Seq([github : Identities, active : BOOLEAN])
    /\ members \subseteq [org : 1..orgs, user : DOMAIN users, role : Roles]
    /\ projects \in Seq([org : 1..orgs, slug : Slugs, name : Clients \cup {None}])
    /\ \A t \in tokens : t.sub \in DOMAIN users
    /\ DOMAIN held = Clients
    /\ DOMAIN call = Clients
    /\ \A c \in Clients : DOMAIN call[c] = DOMAIN NoCall
    /\ \A c \in Clients : PathOf(c)
    /\ \A c \in Clients : RowsOf(c)

-----------------------------------------------------------------------------
(* Logins                                                                  *)

LoginAt(c) ==
    Is(c, {"callback"}) =>
        /\ call[c].pc = "known" => users[call[c].user].github = call[c].github
        /\ call[c].pc = "created" => ~UserTaken(call[c].github)
        /\ call[c].token # None => /\ call[c].pc \in {"ending", "done"}
                                   /\ users[call[c].token.sub].github = call[c].github

\* Of two logins that would insert the same user, one waits.
InsertsExclude ==
    \A c, d \in Clients :
        /\ call[c].pc = "created" /\ call[d].pc = "created"
        /\ SameUser(call[c].github, call[d].github)
        => c = d

UserInv ==
    /\ \A u, v \in DOMAIN users : SameUser(users[u].github, users[v].github) => u = v
    /\ \A c \in Clients : LoginAt(c)
    /\ InsertsExclude

-----------------------------------------------------------------------------
(* Organizations                                                           *)

\* The lock on the user's row
LocksExclude ==
    \A c, d \in Clients :
        /\ call[c].pc \in {"locked", "clear"} /\ call[d].pc \in {"locked", "clear"}
        /\ call[c].user = call[d].user
        => c = d

Created(u) == {a \in audit : a.action = "organization_created" /\ call[a.by].user = u}

Creators ==
    \A a \in audit : a.action = "organization_created" =>
        /\ a.by \in Clients /\ a = AuditEvent("organization_created", a.by)
        /\ Is(a.by, {"onboard"}) /\ call[a.by].pc \in {"ending", "done"}
        /\ call[a.by].user \in DOMAIN users

\* Each organization of a user but the one the user is still in has cost the
\* operator a change.
CreatedBound(u) ==
    /\ IsFiniteSet(Created(u))
    /\ Cardinality(Created(u)) <= changes + (IF MembershipsOf(u) = {} THEN 0 ELSE 1)

OrganizationInv ==
    /\ LocksExclude
    /\ Creators
    /\ \A c \in Clients : call[c].pc = "clear" => MembershipsOf(call[c].user) = {}
    /\ \A c \in Clients : call[c].audits \subseteq {"login_success"}
    /\ \A u \in DOMAIN users : CreatedBound(u)

-----------------------------------------------------------------------------
(* Rights                                                                  *)

Rights(c) ==
    \E r \in Roles : /\ <<call[c].org, r>> \in held[c]
                     /\ RoleHasPermission(r, PermissionFor[given.ops[c]])

Hidden == {"OrganizationAccessDenied", "ProjectAccessDenied"}

RightsAt(c) ==
    Is(c, ProjectOps) =>
        /\ call[c].pc = "idle" => call[c].org = None
        /\ call[c].pc = "authenticated" => RolesOf(call[c].user) \subseteq held[c]
        /\ call[c].pc \in {"authorized", "ending"} \/ call[c].answer = "ok" => Rights(c)
        /\ call[c].org # None => Rights(c) \/ (call[c].pc = "done" /\ call[c].answer \in Hidden)
        /\ call[c].pc \notin {"refusing", "done"} => call[c].answer = None
        /\ call[c].pc = "refusing" => call[c].answer = "PermissionDenied"

RightsInv == \A c \in Clients : RightsAt(c)

-----------------------------------------------------------------------------
(* The audit trail                                                         *)

EventsOf(c) == {a.action : a \in {x \in audit : x.by = c}}

Refusals == {"OAuthStateInvalid", "GitHubAuthorizationDenied", "PermissionDenied"}

AuditAt(c) ==
    /\ call[c].pc = "done" /\ call[c].answer # "Crash" => EventsOf(c) = AuditFor(c)
    /\ call[c].pc = "refusing" => /\ call[c].answer \in Refusals
                                  /\ EventsOf(c) = AuditFor(c)
    /\ call[c].pc = "ending" =>
          /\ EventsOf(c) = IF Is(c, {"onboard"}) THEN {"organization_created"} ELSE {}
          /\ call[c].audits = IF Is(c, {"callback"}) THEN {"login_success"} ELSE {}
    /\ call[c].pc \notin {"done", "refusing", "ending"} => EventsOf(c) = {}
    /\ call[c].pc # "ending" => call[c].audits = {}

AuditInv == \A c \in Clients : AuditAt(c)

-----------------------------------------------------------------------------
(* Rate limits                                                             *)

\* Those let through while the window of the key lasts.
InWindow(k) == {a \in passed : a.key = k /\ a.at < (k[2] + 1) * Window}

\* A counter lives until its window is over, and until then it has counted all
\* that were let through.
CounterAt(k) ==
    /\ k[2] \in Nat
    /\ counts[k].n \in Nat /\ counts[k].expires \in Nat
    /\ counts[k].expires >= (k[2] + 1) * Window
    /\ IsFiniteSet(InWindow(k)) /\ Cardinality(InWindow(k)) <= given.limit
    /\ now < (k[2] + 1) * Window => Cardinality(InWindow(k)) <= counts[k].n

LimitInv ==
    /\ \A k \in DOMAIN counts : CounterAt(k)
    /\ \A a \in passed : a.key \in DOMAIN counts
    /\ \A c \in Clients :
          /\ call[c].pc = "keyed" => /\ call[c].key[2] \in Nat
                                     /\ call[c].key[2] * Window <= now
          /\ call[c].pc # "done" => call[c].answer # "RateLimited"
          /\ call[c].answer = "RateLimited" => /\ call[c].at \in Nat
                                               /\ call[c].retry = RetryAfter(call[c].at)

AccessInv ==
    /\ TypeOK /\ StateUsedOnce /\ UserInv /\ OrganizationInv /\ OneProjectPerSlug
    /\ RightsInv /\ AuditInv /\ LimitInv

-----------------------------------------------------------------------------
(* A step of a request changes some fields of one request                  *)

Moves(c, fields) ==
    /\ DOMAIN call' = Clients /\ DOMAIN call'[c] = DOMAIN NoCall
    /\ \A d \in Clients \ {c} : call'[d] = call[d]
    /\ \A f \in DOMAIN NoCall \ fields : call'[c][f] = call[c][f]

LEMMA Fields ==
    DOMAIN NoCall = {"pc", "key", "github", "user", "org", "project", "audits", "token", "answer",
                     "retry", "at"}
  BY DEF NoCall

LEMMA RequestReplaced ==
    ASSUME TypeOK, NEW c \in Clients, NEW rec, call' = [call EXCEPT ![c] = rec]
    PROVE  /\ DOMAIN call' = Clients /\ call'[c] = rec
           /\ \A d \in Clients \ {c} : call'[d] = call[d]
<1>1. DOMAIN call = Clients
  BY DEF TypeOK
<1> QED
  BY <1>1

LEMMA GotoMoves ==
    ASSUME TypeOK, NEW c \in Clients, NEW pc, Goto(c, pc)
    PROVE  Moves(c, {"pc"}) /\ call'[c].pc = pc
<1> DEFINE rec == [call[c] EXCEPT !.pc = pc]
<1>1. call' = [call EXCEPT ![c] = rec]
  BY DEF Goto, TypeOK
<1>2. /\ DOMAIN rec = DOMAIN NoCall /\ rec.pc = pc
      /\ \A f \in DOMAIN NoCall \ {"pc"} : rec[f] = call[c][f]
  BY Fields DEF TypeOK
<1> HIDE DEF rec
<1> QED
  BY <1>1, <1>2, RequestReplaced DEF Moves

LEMMA RaiseMoves ==
    ASSUME TypeOK, NEW c \in Clients, NEW error, Raise(c, error)
    PROVE  /\ Moves(c, {"pc", "answer", "audits"})
           /\ call'[c].pc = "done" /\ call'[c].answer = error /\ call'[c].audits = {}
<1> DEFINE rec == [call[c] EXCEPT !.pc = "done", !.answer = error, !.audits = {}]
<1>1. call' = [call EXCEPT ![c] = rec]
  BY DEF Raise
<1>2. /\ DOMAIN rec = DOMAIN NoCall
      /\ rec.pc = "done" /\ rec.answer = error /\ rec.audits = {}
      /\ \A f \in DOMAIN NoCall \ {"pc", "answer", "audits"} : rec[f] = call[c][f]
  BY Fields DEF TypeOK
<1> HIDE DEF rec
<1> QED
  BY <1>1, <1>2, RequestReplaced DEF Moves

Rest == <<given, now, counts, states, users, orgs, members, projects, audit, tokens, changes,
          passed, consumed, held>>

LEMMA BuildKeyDoes ==
    ASSUME TypeOK, NEW c \in Clients, BuildKey(c)
    PROVE  /\ \/ At(c, {"login", "callback"}, "idle")
              \/ At(c, {"onboard"}, "authenticated")
           /\ Moves(c, {"pc", "key"})
           /\ call'[c].pc = "keyed"
           /\ call'[c].key = <<Identity(c), now \div Window>>
           /\ UNCHANGED Rest
<1> DEFINE rec == [call[c] EXCEPT !.pc = "keyed", !.key = <<Identity(c), now \div Window>>]
<1>1. call' = [call EXCEPT ![c] = rec]
  BY DEF BuildKey
<1>2. /\ DOMAIN rec = DOMAIN NoCall
      /\ rec.pc = "keyed"
      /\ rec.key = <<Identity(c), now \div Window>>
      /\ \A f \in DOMAIN NoCall \ {"pc", "key"} : rec[f] = call[c][f]
  BY Fields DEF TypeOK
<1> HIDE DEF rec
<1>3. Moves(c, {"pc", "key"}) /\ call'[c] = rec
  BY <1>1, <1>2, RequestReplaced DEF Moves
<1> QED
  BY <1>2, <1>3 DEF BuildKey, Redis, Tables, History, Rest

LEMMA EnforceDoes ==
    ASSUME TypeOK, NEW c \in Clients, Enforce(c)
    PROVE  /\ call[c].pc = "keyed"
           /\ UNCHANGED <<given, now, states, Tables, audit, tokens, changes, consumed, held>>
           /\ \/ /\ Moves(c, {"pc", "key"}) /\ call'[c].pc = "admitted"
                 /\ Count(call[c].key) + 1 <= given.limit
                 /\ counts' = Increment(call[c].key)
                 /\ passed' = passed \cup {[key |-> call[c].key, at |-> now, by |-> c]}
              \/ /\ Moves(c, {"pc", "answer", "retry", "at"}) /\ call'[c].pc = "done"
                 /\ call'[c].answer = "RateLimited"
                 /\ call'[c].retry = RetryAfter(now) /\ call'[c].at = now
                 /\ counts' = Increment(call[c].key)
                 /\ UNCHANGED passed
              \/ /\ Raise(c, "RateLimiterUnavailable") /\ UNCHANGED <<counts, passed>>
<1>1. ASSUME call' = [call EXCEPT ![c] = [@ EXCEPT !.pc = "admitted", !.key = None]]
      PROVE  Moves(c, {"pc", "key"}) /\ call'[c].pc = "admitted"
  <2> DEFINE rec == [call[c] EXCEPT !.pc = "admitted", !.key = None]
  <2>1. call' = [call EXCEPT ![c] = rec]
    BY <1>1
  <2>2. /\ DOMAIN rec = DOMAIN NoCall /\ rec.pc = "admitted"
        /\ \A f \in DOMAIN NoCall \ {"pc", "key"} : rec[f] = call[c][f]
    BY Fields DEF TypeOK
  <2> HIDE DEF rec
  <2> QED
    BY <2>1, <2>2, RequestReplaced DEF Moves
<1>2. ASSUME call' = [call EXCEPT ![c] = [@ EXCEPT !.pc = "done", !.answer = "RateLimited",
                                                   !.retry = RetryAfter(now), !.at = now]]
      PROVE  /\ Moves(c, {"pc", "answer", "retry", "at"}) /\ call'[c].pc = "done"
             /\ call'[c].answer = "RateLimited"
             /\ call'[c].retry = RetryAfter(now) /\ call'[c].at = now
  <2> DEFINE rec == [call[c] EXCEPT !.pc = "done", !.answer = "RateLimited",
                                    !.retry = RetryAfter(now), !.at = now]
  <2>1. call' = [call EXCEPT ![c] = rec]
    BY <1>2
  <2>2. /\ DOMAIN rec = DOMAIN NoCall /\ rec.pc = "done" /\ rec.answer = "RateLimited"
        /\ rec.retry = RetryAfter(now) /\ rec.at = now
        /\ \A f \in DOMAIN NoCall \ {"pc", "answer", "retry", "at"} : rec[f] = call[c][f]
    BY Fields DEF TypeOK
  <2> HIDE DEF rec
  <2> QED
    BY <2>1, <2>2, RequestReplaced DEF Moves
<1> QED
  BY <1>1, <1>2 DEF Enforce

LEMMA ExchangeDoes ==
    ASSUME TypeOK, NEW c \in Clients, Exchange(c)
    PROVE  /\ At(c, {"callback"}, "consumed")
           /\ \/ /\ Moves(c, {"pc", "github"}) /\ call'[c].pc = "identified"
                 /\ call'[c].github \in Identities
              \/ \E e \in ExchangeErrors : Raise(c, e)
           /\ UNCHANGED Rest
<1>1. ASSUME NEW g \in Identities,
             call' = [call EXCEPT ![c] = [@ EXCEPT !.pc = "identified", !.github = g]]
      PROVE  /\ Moves(c, {"pc", "github"}) /\ call'[c].pc = "identified"
             /\ call'[c].github \in Identities
  <2> DEFINE rec == [call[c] EXCEPT !.pc = "identified", !.github = g]
  <2>1. call' = [call EXCEPT ![c] = rec]
    BY <1>1
  <2>2. /\ DOMAIN rec = DOMAIN NoCall /\ rec.pc = "identified" /\ rec.github = g
        /\ \A f \in DOMAIN NoCall \ {"pc", "github"} : rec[f] = call[c][f]
    BY Fields DEF TypeOK
  <2> HIDE DEF rec
  <2> QED
    BY <2>1, <2>2, RequestReplaced DEF Moves
<1> QED
  BY <1>1 DEF Exchange, Redis, Tables, History, Rest

LEMMA LookupUserDoes ==
    ASSUME TypeOK, NEW c \in Clients, LookupUser(c)
    PROVE  /\ At(c, {"callback"}, "identified")
           /\ \/ /\ Moves(c, {"pc", "user"}) /\ call'[c].pc = "known"
                 /\ call'[c].user \in DOMAIN users
                 /\ users[call'[c].user].github = call[c].github
              \/ Goto(c, "unknown")
           /\ UNCHANGED Rest
<1> DEFINE found == CHOOSE u \in DOMAIN users : users[u].github = call[c].github
<1>1. ASSUME \E u \in DOMAIN users : users[u].github = call[c].github,
             call' = [call EXCEPT ![c] = [@ EXCEPT !.pc = "known", !.user = found]]
      PROVE  /\ Moves(c, {"pc", "user"}) /\ call'[c].pc = "known"
             /\ call'[c].user \in DOMAIN users
             /\ users[call'[c].user].github = call[c].github
  <2> DEFINE rec == [call[c] EXCEPT !.pc = "known", !.user = found]
  <2>1. found \in DOMAIN users /\ users[found].github = call[c].github
    BY <1>1
  <2>2. call' = [call EXCEPT ![c] = rec]
    BY <1>1
  <2>3. /\ DOMAIN rec = DOMAIN NoCall /\ rec.pc = "known" /\ rec.user = found
        /\ \A f \in DOMAIN NoCall \ {"pc", "user"} : rec[f] = call[c][f]
    BY Fields DEF TypeOK
  <2> HIDE DEF rec, found
  <2> QED
    BY <2>1, <2>2, <2>3, RequestReplaced DEF Moves
<1> QED
  BY <1>1 DEF LookupUser, Redis, Tables, History, Rest

LEMMA CommitUserDoes ==
    ASSUME TypeOK, NEW c \in Clients, CommitUser(c)
    PROVE  /\ At(c, {"callback"}, "created")
           /\ users' = Append(users, User(call[c].github))
           /\ Moves(c, {"pc", "user"})
           /\ call'[c].pc = "known"
           /\ call'[c].user = Len(users) + 1
           /\ UNCHANGED <<given, now, Redis, orgs, members, projects, audit, tokens, History>>
<1> DEFINE rec == [call[c] EXCEPT !.pc = "known", !.user = Len(users) + 1]
<1>1. call' = [call EXCEPT ![c] = rec]
  BY DEF CommitUser
<1>2. /\ DOMAIN rec = DOMAIN NoCall
      /\ rec.pc = "known"
      /\ rec.user = Len(users) + 1
      /\ \A f \in DOMAIN NoCall \ {"pc", "user"} : rec[f] = call[c][f]
  BY Fields DEF TypeOK
<1> HIDE DEF rec
<1>3. Moves(c, {"pc", "user"}) /\ call'[c] = rec
  BY <1>1, <1>2, RequestReplaced DEF Moves
<1> QED
  BY <1>2, <1>3 DEF CommitUser, Redis, Tables, History, Rest

LEMMA IssueTokenDoes ==
    ASSUME TypeOK, NEW c \in Clients, IssueToken(c)
    PROVE  /\ At(c, {"callback"}, "known")
           /\ Moves(c, {"pc", "audits", "token"}) /\ call'[c].pc = "ending"
           /\ call'[c].audits = {"login_success"} /\ call'[c].token.sub = call[c].user
           /\ UNCHANGED Rest
<1> DEFINE mine == MembershipsOf(call[c].user)
           org == IF Cardinality(mine) = 1 THEN (CHOOSE m \in mine : TRUE).org ELSE None
           token == Token(call[c].user, org)
           rec == [call[c] EXCEPT !.pc = "ending", !.audits = {"login_success"}, !.token = token]
<1>1. call' = [call EXCEPT ![c] = rec]
  BY DEF IssueToken
<1>2. token.sub = call[c].user
  BY DEF Token
<1> HIDE DEF token
<1>3. /\ DOMAIN rec = DOMAIN NoCall /\ rec.pc = "ending"
      /\ rec.audits = {"login_success"} /\ rec.token = token
      /\ \A f \in DOMAIN NoCall \ {"pc", "audits", "token"} : rec[f] = call[c][f]
  BY Fields DEF TypeOK
<1> HIDE DEF rec
<1>4. Moves(c, {"pc", "audits", "token"}) /\ call'[c] = rec
  BY <1>1, <1>3, RequestReplaced DEF Moves
<1> QED
  BY <1>2, <1>3, <1>4 DEF IssueToken, Redis, Tables, History, Rest

LEMMA AuthenticateDoes ==
    ASSUME TypeOK, NEW c \in Clients, Authenticate(c)
    PROVE  /\ At(c, {"onboard", "create", "update", "read"}, "idle")
           /\ UNCHANGED <<given, now, Redis, Tables, audit, tokens, changes, passed, consumed>>
           /\ \/ /\ \E e \in {"AuthenticationRequired", "InvalidToken", "ExpiredToken",
                              "DisabledUser"} : Raise(c, e)
                 /\ UNCHANGED held
              \/ /\ Moves(c, {"pc", "user", "token"}) /\ call'[c].pc = "authenticated"
                 /\ call'[c].token \in tokens /\ call'[c].user = call'[c].token.sub
                 /\ held' = [held EXCEPT ![c] = RolesOf(call'[c].user)]
<1>1. ASSUME NEW t \in tokens,
             call' = [call EXCEPT ![c] = [@ EXCEPT !.pc = "authenticated", !.user = t.sub,
                                                   !.token = t]]
      PROVE  /\ Moves(c, {"pc", "user", "token"}) /\ call'[c].pc = "authenticated"
             /\ call'[c].token = t /\ call'[c].user = t.sub
  <2> DEFINE rec == [call[c] EXCEPT !.pc = "authenticated", !.user = t.sub, !.token = t]
  <2>1. call' = [call EXCEPT ![c] = rec]
    BY <1>1
  <2>2. /\ DOMAIN rec = DOMAIN NoCall /\ rec.pc = "authenticated"
        /\ rec.user = t.sub /\ rec.token = t
        /\ \A f \in DOMAIN NoCall \ {"pc", "user", "token"} : rec[f] = call[c][f]
    BY Fields DEF TypeOK
  <2> HIDE DEF rec
  <2> QED
    BY <2>1, <2>2, RequestReplaced DEF Moves
<1>2. CASE /\ \E e \in {"AuthenticationRequired", "InvalidToken"} : Raise(c, e)
           /\ UNCHANGED held
  BY <1>2 DEF Authenticate
<1>3. ASSUME NEW t \in tokens, Raise(c, "ExpiredToken") \/ Raise(c, "DisabledUser"),
             UNCHANGED held
      PROVE  /\ \E e \in {"AuthenticationRequired", "InvalidToken", "ExpiredToken",
                          "DisabledUser"} : Raise(c, e)
             /\ UNCHANGED held
  BY <1>3
<1> QED
  BY <1>1, <1>2, <1>3 DEF Authenticate

LEMMA CommitOrganizationDoes ==
    ASSUME TypeOK, NEW c \in Clients, CommitOrganization(c)
    PROVE  /\ At(c, {"onboard"}, "clear")
           /\ Moves(c, {"pc", "org", "token"}) /\ call'[c].pc = "ending"
           /\ call'[c].token.sub = call[c].user
           /\ orgs' = orgs + 1
           /\ members' = members \cup {Membership(orgs + 1, call[c].user, "owner")}
           /\ audit' = audit \cup {AuditEvent("organization_created", c)}
           /\ held' = [d \in Clients |-> IF call[d].user = call[c].user
                                         THEN held[d] \cup {<<orgs + 1, "owner">>} ELSE held[d]]
           /\ UNCHANGED <<given, now, Redis, users, projects, tokens, changes, passed, consumed>>
<1> DEFINE token == Token(call[c].user, orgs + 1)
           rec == [call[c] EXCEPT !.pc = "ending", !.org = orgs + 1, !.token = token]
<1>1. call' = [call EXCEPT ![c] = rec]
  BY DEF CommitOrganization
<1>2. token.sub = call[c].user
  BY DEF Token
<1> HIDE DEF token
<1>3. /\ DOMAIN rec = DOMAIN NoCall /\ rec.pc = "ending" /\ rec.token = token
      /\ \A f \in DOMAIN NoCall \ {"pc", "org", "token"} : rec[f] = call[c][f]
  BY Fields DEF TypeOK
<1> HIDE DEF rec
<1>4. Moves(c, {"pc", "org", "token"}) /\ call'[c] = rec
  BY <1>1, <1>3, RequestReplaced DEF Moves
<1> QED
  BY <1>2, <1>3, <1>4 DEF CommitOrganization

LEMMA RefusalDoes ==
    ASSUME TypeOK, NEW c \in Clients, NEW action, NEW error, RecordRefusal(c, action, error)
    PROVE  /\ Moves(c, {"pc", "answer"}) /\ call'[c].pc = "refusing" /\ call'[c].answer = error
           /\ audit' = audit \cup {AuditEvent(action, c)}
<1> DEFINE rec == [call[c] EXCEPT !.pc = "refusing", !.answer = error]
<1>1. call' = [call EXCEPT ![c] = rec]
  BY DEF RecordRefusal
<1>2. /\ DOMAIN rec = DOMAIN NoCall /\ rec.pc = "refusing" /\ rec.answer = error
      /\ \A f \in DOMAIN NoCall \ {"pc", "answer"} : rec[f] = call[c][f]
  BY Fields DEF TypeOK
<1> HIDE DEF rec
<1> QED
  BY <1>1, <1>2, RequestReplaced DEF Moves, RecordRefusal

\* The three ways authorization goes
LEMMA DecideDoes ==
    ASSUME TypeOK, NEW c \in Clients, NEW org, NEW project, NEW missing,
           Decide(c, org, project, missing)
    PROVE  \/ /\ Moves(c, {"pc", "answer", "org"}) /\ call'[c].pc = "done"
              /\ call'[c].answer = missing /\ UNCHANGED audit
           \/ RecordRefusal(c, "authorization_denied", "PermissionDenied")
           \/ /\ Moves(c, {"pc", "org", "project"}) /\ call'[c].pc = "authorized"
              /\ call'[c].org = org /\ call'[c].project = project
              /\ \E m \in members : /\ m.user = call[c].user /\ m.org = org
                                    /\ RoleHasPermission(m.role, PermissionFor[given.ops[c]])
              /\ UNCHANGED audit
<1>1. ASSUME call' = [call EXCEPT ![c] = [@ EXCEPT !.pc = "done", !.answer = missing, !.org = org]]
      PROVE  /\ Moves(c, {"pc", "answer", "org"}) /\ call'[c].pc = "done"
             /\ call'[c].answer = missing
  <2> DEFINE rec == [call[c] EXCEPT !.pc = "done", !.answer = missing, !.org = org]
  <2>1. call' = [call EXCEPT ![c] = rec]
    BY <1>1
  <2>2. /\ DOMAIN rec = DOMAIN NoCall /\ rec.pc = "done" /\ rec.answer = missing
        /\ \A f \in DOMAIN NoCall \ {"pc", "answer", "org"} : rec[f] = call[c][f]
    BY Fields DEF TypeOK
  <2> HIDE DEF rec
  <2> QED
    BY <2>1, <2>2, RequestReplaced DEF Moves
<1>2. ASSUME call' = [call EXCEPT ![c] = [@ EXCEPT !.pc = "authorized", !.org = org,
                                                   !.project = project]]
      PROVE  /\ Moves(c, {"pc", "org", "project"}) /\ call'[c].pc = "authorized"
             /\ call'[c].org = org /\ call'[c].project = project
  <2> DEFINE rec == [call[c] EXCEPT !.pc = "authorized", !.org = org, !.project = project]
  <2>1. call' = [call EXCEPT ![c] = rec]
    BY <1>2
  <2>2. /\ DOMAIN rec = DOMAIN NoCall /\ rec.pc = "authorized" /\ rec.org = org
        /\ rec.project = project
        /\ \A f \in DOMAIN NoCall \ {"pc", "org", "project"} : rec[f] = call[c][f]
    BY Fields DEF TypeOK
  <2> HIDE DEF rec
  <2> QED
    BY <2>1, <2>2, RequestReplaced DEF Moves
<1>3. \A r \in RolesIn(c, org) : \E m \in members : m.user = call[c].user /\ m.org = org /\ m.role = r
  BY DEF RolesIn
<1> QED
  BY <1>1, <1>2, <1>3 DEF Decide

LEMMA EndDoes ==
    ASSUME TypeOK, NEW c \in Clients, End(c)
    PROVE  /\ call[c].pc = "ending"
           /\ audit' = audit \cup {AuditEvent(a, c) : a \in call[c].audits}
           /\ tokens' = IF call[c].token = None THEN tokens ELSE tokens \cup {call[c].token}
           /\ Moves(c, {"pc", "answer", "audits"})
           /\ call'[c].pc = "done"
           /\ call'[c].answer = "ok"
           /\ call'[c].audits = {}
           /\ UNCHANGED <<given, now, Redis, Tables, History>>
<1> DEFINE rec == [call[c] EXCEPT !.pc = "done", !.answer = "ok", !.audits = {}]
<1>1. call' = [call EXCEPT ![c] = rec]
  BY DEF End
<1>2. /\ DOMAIN rec = DOMAIN NoCall
      /\ rec.pc = "done"
      /\ rec.answer = "ok"
      /\ rec.audits = {}
      /\ \A f \in DOMAIN NoCall \ {"pc", "answer", "audits"} : rec[f] = call[c][f]
  BY Fields DEF TypeOK
<1> HIDE DEF rec
<1>3. Moves(c, {"pc", "answer", "audits"}) /\ call'[c] = rec
  BY <1>1, <1>2, RequestReplaced DEF Moves
<1> QED
  BY <1>2, <1>3 DEF End, Redis, Tables, History, Rest

-----------------------------------------------------------------------------
(* Types                                                                   *)

LEMMA TypeKept ==
    ASSUME TypeOK, NEW c \in Clients, NEW fields, Moves(c, fields),
           given' = given, now' \in Nat, changes' \in Nat, UNCHANGED Tables,
           \A t \in tokens' : t.sub \in DOMAIN users, DOMAIN held' = Clients,
           PathOf(c)', RowsOf(c)'
    PROVE  TypeOK'
<1>1. users' = users /\ orgs' = orgs /\ members' = members /\ projects' = projects
  BY DEF Tables
<1>2. \A d \in Clients \ {c} : call'[d] = call[d]
  BY DEF Moves
<1>3. \A d \in Clients : PathOf(d)'
  <2>1. \A d \in Clients \ {c} : PathOf(d)'
    BY <1>2 DEF TypeOK, PathOf, Is
  <2> QED
    BY <2>1
<1>4. \A d \in Clients : RowsOf(d)'
  <2>1. \A d \in Clients \ {c} : RowsOf(d)'
    BY <1>1, <1>2 DEF TypeOK, RowsOf, Is
  <2> QED
    BY <2>1
<1>5. DOMAIN call' = Clients /\ \A d \in Clients : DOMAIN call'[d] = DOMAIN NoCall
  BY <1>2 DEF Moves, TypeOK
<1> QED
  BY <1>1, <1>3, <1>4, <1>5 DEF TypeOK

\* A request that ends, or goes on without naming other rows.
LEMMA RowsKept ==
    ASSUME TypeOK, NEW c \in Clients, NEW fields, Moves(c, fields), given' = given,
           UNCHANGED Tables, fields \subseteq {"pc", "key", "answer", "audits", "retry", "at"},
           call'[c].pc = "done" \/ call[c].pc \notin {"idle", "done"} \/ ~Is(c, {"onboard"}),
           call'[c].pc \notin {"known", "authorized"},
           call'[c].pc \in {"identified", "unknown", "created"} =>
               call[c].pc \in {"identified", "unknown", "created"}
    PROVE  RowsOf(c)'
<1>1. /\ call'[c].user = call[c].user /\ call'[c].org = call[c].org
      /\ call'[c].project = call[c].project /\ call'[c].token = call[c].token
      /\ call'[c].github = call[c].github
  BY Fields DEF Moves
<1>2. RowsOf(c)
  BY DEF TypeOK
<1> QED
  BY <1>1, <1>2 DEF RowsOf, Is, Tables

LEMMA PlainType ==
    ASSUME TypeOK, NEW c \in Clients, NEW fields, Moves(c, fields),
           fields \subseteq {"pc", "key", "answer", "audits", "retry", "at"},
           given' = given, now' \in Nat, changes' \in Nat, UNCHANGED Tables,
           \A t \in tokens' : t.sub \in DOMAIN users, DOMAIN held' = Clients,
           call'[c].pc = "done" \/ call[c].pc \notin {"idle", "done"} \/ ~Is(c, {"onboard"}),
           call'[c].pc \notin {"known", "authorized"},
           call'[c].pc \in {"identified", "unknown", "created"} =>
               call[c].pc \in {"identified", "unknown", "created"},
           PathOf(c)'
    PROVE  TypeOK'
<1>1. RowsOf(c)'
  BY RowsKept
<1> QED
  BY <1>1, TypeKept

LEMMA RaiseType ==
    ASSUME TypeOK, NEW c \in Clients, NEW error, Raise(c, error), ~Is(c, {"nothing"}),
           given' = given, now' \in Nat, changes' \in Nat, UNCHANGED Tables,
           \A t \in tokens' : t.sub \in DOMAIN users, DOMAIN held' = Clients
    PROVE  TypeOK'
<1>1. Moves(c, {"pc", "answer", "audits"}) /\ call'[c].pc = "done"
  BY RaiseMoves
<1>2. RowsOf(c)'
  BY <1>1, RowsKept
<1>3. PathOf(c)'
  BY <1>1 DEF PathOf, Is
<1> QED
  BY <1>1, <1>2, <1>3, TypeKept

\* A request that is under way, or begins, asks for something.
LEMMA Asked ==
    ASSUME TypeOK, NEW c \in Clients, call[c].pc # "idle"
    PROVE  ~Is(c, {"nothing"})
  BY DEF TypeOK, PathOf

LEMMA TypeStep ==
    ASSUME TypeOK, NEW c \in Clients, Step(c) \/ Fail(c)
    PROVE  TypeOK'
<1> USE DEF At
<1>0. /\ UNCHANGED Rest => /\ given' = given /\ now' \in Nat /\ changes' \in Nat /\ UNCHANGED Tables
                           /\ \A t \in tokens' : t.sub \in DOMAIN users
                           /\ DOMAIN held' = Clients
      /\ now \in Nat /\ changes \in Nat /\ DOMAIN held = Clients
      /\ \A t \in tokens : t.sub \in DOMAIN users
      /\ DOMAIN users \subseteq Nat /\ 0 \notin DOMAIN users
      /\ PathOf(c) /\ RowsOf(c)
  BY DEF Rest, TypeOK, Tables
<1>1. CASE BuildKey(c)
  <2>1. /\ Moves(c, {"pc", "key"}) /\ call'[c].pc = "keyed" /\ UNCHANGED Rest
        /\ \/ At(c, {"login", "callback"}, "idle") \/ At(c, {"onboard"}, "authenticated")
    BY <1>1, BuildKeyDoes
  <2>2. Is(c, {"login", "callback"}) => ~Is(c, {"onboard"})
    BY DEF Is
  <2>3. RowsOf(c)'
    BY <1>0, <2>1, <2>2, RowsKept
  <2>4. PathOf(c)'
    BY <1>0, <2>1 DEF PathOf, Is, ProjectOps
  <2> QED
    BY <1>0, <2>1, <2>3, <2>4, TypeKept
<1>2. CASE Enforce(c)
  <2>1. /\ call[c].pc = "keyed" /\ given' = given /\ now' = now /\ changes' = changes
        /\ UNCHANGED Tables /\ tokens' = tokens /\ held' = held
        /\ \/ Moves(c, {"pc", "key"}) /\ call'[c].pc = "admitted"
           \/ Moves(c, {"pc", "answer", "retry", "at"}) /\ call'[c].pc = "done"
           \/ Raise(c, "RateLimiterUnavailable")
    BY <1>2, EnforceDoes
  <2>2. CASE Moves(c, {"pc", "key"}) /\ call'[c].pc = "admitted"
    <3>1. PathOf(c)'
      BY <1>0, <2>1, <2>2 DEF PathOf, Is, ProjectOps
    <3> QED
      BY <1>0, <2>1, <2>2, <3>1, PlainType
  <2>3. CASE Moves(c, {"pc", "answer", "retry", "at"}) /\ call'[c].pc = "done"
    <3>1. PathOf(c)'
      BY <1>0, <2>1, <2>3 DEF PathOf, Is, ProjectOps
    <3> QED
      BY <1>0, <2>1, <2>3, <3>1, PlainType
  <2>4. CASE Raise(c, "RateLimiterUnavailable")
    BY <1>0, <2>1, <2>4, Asked, RaiseType
  <2> QED
    BY <2>1, <2>2, <2>3, <2>4
<1>3. CASE StartLogin(c)
  <2>1. /\ Is(c, {"login"}) /\ call[c].pc = "admitted"
        /\ given' = given /\ now' = now /\ changes' = changes
        /\ UNCHANGED Tables /\ tokens' = tokens /\ held' = held
        /\ Goto(c, "ending") \/ Raise(c, "OAuthStateStoreUnavailable")
    BY <1>3 DEF StartLogin, History
  <2>2. CASE Goto(c, "ending")
    <3>1. Moves(c, {"pc"}) /\ call'[c].pc = "ending"
      BY <2>2, GotoMoves
    <3>2. PathOf(c)'
      BY <1>0, <2>1, <3>1 DEF PathOf, Is, ProjectOps
    <3> QED
      BY <1>0, <2>1, <3>1, <3>2, PlainType
  <2>3. CASE Raise(c, "OAuthStateStoreUnavailable")
    BY <1>0, <2>1, <2>3, Asked, RaiseType
  <2> QED
    BY <2>1, <2>2, <2>3
<1>4. CASE Consume(c)
  <2>1. /\ Is(c, {"callback"}) /\ call[c].pc = "admitted"
        /\ given' = given /\ now' = now /\ changes' = changes
        /\ UNCHANGED Tables /\ tokens' = tokens /\ held' = held
        /\ \/ RecordRefusal(c, "login_failure", "OAuthStateInvalid")
           \/ RecordRefusal(c, "login_failure", "GitHubAuthorizationDenied")
           \/ Raise(c, "MissingAuthorizationCode") \/ Raise(c, "OAuthStateStoreUnavailable")
           \/ Goto(c, "consumed")
    BY <1>4 DEF Consume
  <2>2. ASSUME NEW pc \in {"refusing", "consumed"}, Moves(c, {"pc", "answer"}), call'[c].pc = pc
        PROVE  TypeOK'
    <3>1. PathOf(c)'
      BY <1>0, <2>1, <2>2 DEF PathOf, Is, ProjectOps
    <3> QED
      BY <1>0, <2>1, <2>2, <3>1, PlainType
  <2>3. Goto(c, "consumed") => Moves(c, {"pc", "answer"}) /\ call'[c].pc = "consumed"
    BY GotoMoves DEF Moves
  <2>4. \A e : RecordRefusal(c, "login_failure", e) =>
                   Moves(c, {"pc", "answer"}) /\ call'[c].pc = "refusing"
    BY RefusalDoes
  <2>5. \A e : Raise(c, e) => TypeOK'
    BY <1>0, <2>1, Asked, RaiseType
  <2> QED
    BY <2>1, <2>2, <2>3, <2>4, <2>5
<1>5. CASE Exchange(c)
  <2>1. /\ Is(c, {"callback"}) /\ call[c].pc = "consumed" /\ UNCHANGED Rest
        /\ \/ /\ Moves(c, {"pc", "github"}) /\ call'[c].pc = "identified"
              /\ call'[c].github \in Identities
           \/ \E e \in ExchangeErrors : Raise(c, e)
    BY <1>5, ExchangeDoes
  <2>2. CASE /\ Moves(c, {"pc", "github"}) /\ call'[c].pc = "identified"
             /\ call'[c].github \in Identities
    <3>0. call'[c].token = call[c].token
      BY <2>2, Fields DEF Moves
    <3>1. RowsOf(c)'
      BY <1>0, <2>1, <2>2, <3>0 DEF RowsOf, Is, ProjectOps, Rest
    <3>2. PathOf(c)'
      BY <1>0, <2>1, <2>2 DEF PathOf, Is, ProjectOps
    <3> QED
      BY <1>0, <2>1, <2>2, <3>1, <3>2, TypeKept
  <2>3. CASE \E e \in ExchangeErrors : Raise(c, e)
    BY <1>0, <2>1, <2>3, Asked, RaiseType
  <2> QED
    BY <2>1, <2>2, <2>3
<1>6. CASE LookupUser(c)
  <2>1. /\ Is(c, {"callback"}) /\ call[c].pc = "identified" /\ UNCHANGED Rest
        /\ \/ /\ Moves(c, {"pc", "user"}) /\ call'[c].pc = "known"
              /\ call'[c].user \in DOMAIN users
           \/ Goto(c, "unknown")
    BY <1>6, LookupUserDoes
  <2>2. CASE Moves(c, {"pc", "user"}) /\ call'[c].pc = "known" /\ call'[c].user \in DOMAIN users
    <3>0. call'[c].token = call[c].token
      BY <2>2, Fields DEF Moves
    <3>1. RowsOf(c)'
      BY <1>0, <2>1, <2>2, <3>0 DEF RowsOf, Is, ProjectOps, Rest
    <3>2. PathOf(c)'
      BY <1>0, <2>1, <2>2 DEF PathOf, Is, ProjectOps
    <3> QED
      BY <1>0, <2>1, <2>2, <3>1, <3>2, TypeKept
  <2>3. CASE Goto(c, "unknown")
    <3>1. Moves(c, {"pc"}) /\ call'[c].pc = "unknown"
      BY <2>3, GotoMoves
    <3>2. PathOf(c)'
      BY <1>0, <2>1, <3>1 DEF PathOf, Is, ProjectOps
    <3> QED
      BY <1>0, <2>1, <3>1, <3>2, PlainType
  <2> QED
    BY <2>1, <2>2, <2>3
<1>7. CASE FlushUser(c)
  <2>1. /\ Is(c, {"callback"}) /\ call[c].pc = "unknown" /\ UNCHANGED Rest
        /\ Goto(c, "created") \/ Raise(c, "IntegrityError")
    BY <1>7 DEF FlushUser, Redis, Tables, History, Rest
  <2>2. CASE Goto(c, "created")
    <3>1. Moves(c, {"pc"}) /\ call'[c].pc = "created"
      BY <2>2, GotoMoves
    <3>2. PathOf(c)'
      BY <1>0, <2>1, <3>1 DEF PathOf, Is, ProjectOps
    <3> QED
      BY <1>0, <2>1, <3>1, <3>2, PlainType
  <2>3. CASE Raise(c, "IntegrityError")
    BY <1>0, <2>1, <2>3, Asked, RaiseType
  <2> QED
    BY <2>1, <2>2, <2>3
<1>8. CASE CommitUser(c)
  <2>1. /\ Is(c, {"callback"}) /\ call[c].pc = "created"
        /\ users' = Append(users, User(call[c].github))
        /\ Moves(c, {"pc", "user"}) /\ call'[c].pc = "known" /\ call'[c].user = Len(users) + 1
        /\ given' = given /\ now' = now /\ changes' = changes /\ orgs' = orgs
        /\ members' = members /\ projects' = projects /\ tokens' = tokens /\ held' = held
    BY <1>8, CommitUserDoes DEF History
  <2>2. call[c].github \in Identities
    BY <1>0, <2>1 DEF RowsOf
  <2>3. /\ users' \in Seq([github : Identities, active : BOOLEAN])
        /\ DOMAIN users' = DOMAIN users \cup {Len(users) + 1}
    <3>1. User(call[c].github) \in [github : Identities, active : BOOLEAN]
      BY <2>2 DEF User
    <3> QED
      BY <2>1, <3>1 DEF TypeOK
  <2>4. \A d \in Clients : PathOf(d)'
    <3>1. \A d \in Clients \ {c} : PathOf(d)'
      BY <2>1 DEF TypeOK, PathOf, Is, Moves
    <3>2. PathOf(c)'
      BY <2>1 DEF PathOf, Is, ProjectOps
    <3> QED
      BY <3>1, <3>2
  <2>5. \A d \in Clients : RowsOf(d)'
    <3>1. \A d \in Clients \ {c} : RowsOf(d)'
      BY <2>1, <2>3 DEF TypeOK, RowsOf, Is, Moves
    <3>2. call'[c].token = call[c].token
      BY <2>1, Fields DEF Moves
    <3>3. RowsOf(c)'
      BY <1>0, <2>1, <2>3, <3>2 DEF RowsOf, Is, ProjectOps
    <3> QED
      BY <3>1, <3>3
  <2>6. members' \subseteq [org : 1..orgs', user : DOMAIN users', role : Roles]
    BY <2>1, <2>3 DEF TypeOK
  <2>7. DOMAIN call' = Clients /\ \A d \in Clients : DOMAIN call'[d] = DOMAIN NoCall
    BY <2>1 DEF Moves, TypeOK
  <2> QED
    BY <2>1, <2>3, <2>4, <2>5, <2>6, <2>7 DEF TypeOK
<1>9. CASE IssueToken(c)
  <2>1. /\ Is(c, {"callback"}) /\ call[c].pc = "known" /\ UNCHANGED Rest
        /\ Moves(c, {"pc", "audits", "token"}) /\ call'[c].pc = "ending"
        /\ call'[c].token.sub = call[c].user
    BY <1>9, IssueTokenDoes
  <2>2. RowsOf(c)'
    BY <1>0, <2>1 DEF RowsOf, Is, ProjectOps, Rest
  <2>3. PathOf(c)'
    BY <1>0, <2>1 DEF PathOf, Is, ProjectOps
  <2> QED
    BY <1>0, <2>1, <2>2, <2>3, TypeKept
<1>10. CASE Authenticate(c)
  <2>1. /\ Is(c, {"onboard", "create", "update", "read"}) /\ call[c].pc = "idle"
        /\ given' = given /\ now' = now /\ changes' = changes
        /\ UNCHANGED Tables /\ tokens' = tokens
        /\ \/ /\ \E e \in {"AuthenticationRequired", "InvalidToken", "ExpiredToken",
                           "DisabledUser"} : Raise(c, e)
              /\ UNCHANGED held
           \/ /\ Moves(c, {"pc", "user", "token"}) /\ call'[c].pc = "authenticated"
              /\ call'[c].token \in tokens /\ call'[c].user = call'[c].token.sub
              /\ held' = [held EXCEPT ![c] = RolesOf(call'[c].user)]
    BY <1>10, AuthenticateDoes
  <2>2. CASE /\ \E e \in {"AuthenticationRequired", "InvalidToken", "ExpiredToken",
                          "DisabledUser"} : Raise(c, e)
             /\ UNCHANGED held
    <3>1. ~Is(c, {"nothing"})
      BY <2>1 DEF Is
    <3> QED
      BY <1>0, <2>1, <2>2, <3>1, RaiseType
  <2>3. CASE /\ Moves(c, {"pc", "user", "token"}) /\ call'[c].pc = "authenticated"
             /\ call'[c].token \in tokens /\ call'[c].user = call'[c].token.sub
             /\ held' = [held EXCEPT ![c] = RolesOf(call'[c].user)]
    <3>1. call'[c].user \in DOMAIN users
      BY <1>0, <2>3
    <3>2. RowsOf(c)'
      BY <1>0, <2>1, <2>3, <3>1 DEF RowsOf, Is, ProjectOps, Tables
    <3>3. PathOf(c)'
      BY <1>0, <2>1, <2>3 DEF PathOf, Is, ProjectOps
    <3>4. DOMAIN held' = Clients
      BY <1>0, <2>3
    <3> QED
      BY <1>0, <2>1, <2>3, <3>2, <3>3, <3>4, TypeKept
  <2> QED
    BY <2>1, <2>2, <2>3
<1>11. CASE LockUser(c) \/ CheckMemberships(c)
  <2>1. /\ Is(c, {"onboard"}) /\ call[c].pc \in {"admitted", "locked"} /\ UNCHANGED Rest
        /\ \/ Goto(c, "locked") \/ Goto(c, "clear")
           \/ Raise(c, "OrganizationAlreadyProvisioned")
    BY <1>11 DEF LockUser, CheckMemberships, Redis, Tables, History, Rest
  <2>2. ASSUME NEW pc \in {"locked", "clear"}, Goto(c, pc) PROVE TypeOK'
    <3>1. Moves(c, {"pc"}) /\ call'[c].pc = pc
      BY <2>2, GotoMoves
    <3>2. PathOf(c)'
      BY <1>0, <2>1, <3>1 DEF PathOf, Is, ProjectOps
    <3> QED
      BY <1>0, <2>1, <3>1, <3>2, PlainType
  <2>3. CASE Raise(c, "OrganizationAlreadyProvisioned")
    BY <1>0, <2>1, <2>3, Asked, RaiseType
  <2> QED
    BY <2>1, <2>2, <2>3
<1>12. CASE CommitOrganization(c)
  <2>1. /\ Is(c, {"onboard"}) /\ call[c].pc = "clear"
        /\ Moves(c, {"pc", "org", "token"}) /\ call'[c].pc = "ending"
        /\ call'[c].token.sub = call[c].user
        /\ orgs' = orgs + 1
        /\ members' = members \cup {Membership(orgs + 1, call[c].user, "owner")}
        /\ DOMAIN held' = Clients
        /\ given' = given /\ now' = now /\ changes' = changes /\ users' = users
        /\ projects' = projects /\ tokens' = tokens
    BY <1>12, CommitOrganizationDoes
  <2>2. call[c].user \in DOMAIN users /\ call'[c].user = call[c].user
    BY <1>0, <2>1, Fields DEF RowsOf, Moves
  <2>3. orgs' \in Nat /\ 1..orgs \subseteq 1..orgs' /\ orgs + 1 \in 1..orgs'
    BY <2>1 DEF TypeOK
  <2>4. members' \subseteq [org : 1..orgs', user : DOMAIN users', role : Roles]
    <3>1. Membership(orgs + 1, call[c].user, "owner") \in
              [org : 1..orgs', user : DOMAIN users', role : Roles]
      BY <2>1, <2>2, <2>3 DEF Membership, Roles
    <3>2. members \subseteq [org : 1..orgs', user : DOMAIN users', role : Roles]
      BY <2>1, <2>3 DEF TypeOK
    <3> QED
      BY <2>1, <3>1, <3>2
  <2>5. projects' \in Seq([org : 1..orgs', slug : Slugs, name : Clients \cup {None}])
    <3> DEFINE S == [org : 1..orgs, slug : Slugs, name : Clients \cup {None}]
               T == [org : 1..orgs', slug : Slugs, name : Clients \cup {None}]
    <3>1. S \subseteq T
      BY <2>3
    <3>2. projects \in Seq(S)
      BY DEF TypeOK
    <3> HIDE DEF S, T
    <3>3. projects \in Seq(T)
      BY <3>1, <3>2
    <3> QED
      BY <2>1, <3>3 DEF T
  <2>6. \A d \in Clients : PathOf(d)'
    <3>1. \A d \in Clients \ {c} : PathOf(d)'
      BY <2>1 DEF TypeOK, PathOf, Is, Moves
    <3>2. PathOf(c)'
      BY <2>1 DEF PathOf, Is, ProjectOps
    <3> QED
      BY <3>1, <3>2
  <2>7. \A d \in Clients : RowsOf(d)'
    <3>1. \A d \in Clients \ {c} : RowsOf(d)'
      BY <2>1, <2>3 DEF TypeOK, RowsOf, Is, Moves
    <3>2. RowsOf(c)'
      BY <1>0, <2>1, <2>2 DEF RowsOf, Is, ProjectOps
    <3> QED
      BY <3>1, <3>2
  <2>8. DOMAIN call' = Clients /\ \A d \in Clients : DOMAIN call'[d] = DOMAIN NoCall
    BY <2>1 DEF Moves, TypeOK
  <2> QED
    BY <2>1, <2>3, <2>4, <2>5, <2>6, <2>7, <2>8 DEF TypeOK
<1>13. CASE AuthorizeOrganization(c) \/ AuthorizeProject(c)
  <2>1. /\ Is(c, ProjectOps) /\ call[c].pc = "authenticated"
        /\ given' = given /\ now' = now /\ changes' = changes
        /\ UNCHANGED Tables /\ tokens' = tokens /\ held' = held
    BY <1>13 DEF AuthorizeOrganization, AuthorizeProject, Is, ProjectOps, History
  <2>2. \/ Raise(c, "ProjectNotFound")
        \/ Is(c, {"create"}) /\ \E org : Decide(c, org, None, "OrganizationAccessDenied")
        \/ \E q \in DOMAIN projects : Decide(c, projects[q].org, q, "ProjectAccessDenied")
    BY <1>13 DEF AuthorizeOrganization, AuthorizeProject
  <2>3. ASSUME NEW org, NEW q, NEW missing, Decide(c, org, q, missing),
               Is(c, {"create"}) \/ q \in DOMAIN projects
        PROVE  TypeOK'
    <3>1. CASE Moves(c, {"pc", "answer", "org"}) /\ call'[c].pc = "done"
      <4>1. call'[c].token = call[c].token
        BY <3>1, Fields DEF Moves
      <4>2. RowsOf(c)'
        BY <1>0, <2>1, <3>1, <4>1 DEF RowsOf, Is, ProjectOps, Tables
      <4>3. PathOf(c)'
        BY <1>0, <2>1, <3>1 DEF PathOf, Is, ProjectOps
      <4> QED
        BY <1>0, <2>1, <3>1, <4>2, <4>3, TypeKept
    <3>2. CASE RecordRefusal(c, "authorization_denied", "PermissionDenied")
      <4>1. Moves(c, {"pc", "answer"}) /\ call'[c].pc = "refusing"
        BY <3>2, RefusalDoes
      <4>2. PathOf(c)'
        BY <1>0, <2>1, <4>1 DEF PathOf, Is, ProjectOps
      <4> QED
        BY <1>0, <2>1, <4>1, <4>2, PlainType
    <3>3. CASE /\ Moves(c, {"pc", "org", "project"}) /\ call'[c].pc = "authorized"
               /\ call'[c].org = org /\ call'[c].project = q
               /\ \E m \in members : m.user = call[c].user /\ m.org = org
      <4>1. call'[c].token = call[c].token
        BY <3>3, Fields DEF Moves
      <4>2. org \in 1..orgs
        BY <3>3 DEF TypeOK
      <4>3. RowsOf(c)'
        BY <1>0, <2>1, <2>3, <3>3, <4>1, <4>2 DEF RowsOf, Is, ProjectOps, Tables
      <4>4. PathOf(c)'
        BY <1>0, <2>1, <3>3 DEF PathOf, Is, ProjectOps
      <4> QED
        BY <1>0, <2>1, <3>3, <4>3, <4>4, TypeKept
    <3> QED
      BY <2>3, <3>1, <3>2, <3>3, DecideDoes
  <2>4. Raise(c, "ProjectNotFound") => TypeOK'
    BY <1>0, <2>1, Asked, RaiseType
  <2> QED
    BY <2>2, <2>3, <2>4
<1>14. CASE CreateProject(c)
  <2>1. /\ Is(c, {"create"}) /\ call[c].pc = "authorized"
        /\ given' = given /\ now' = now /\ changes' = changes
        /\ users' = users /\ orgs' = orgs /\ members' = members /\ tokens' = tokens /\ held' = held
    BY <1>14 DEF CreateProject, History
  <2>2. CASE Raise(c, "DuplicateProject") /\ UNCHANGED projects
    <3>1. UNCHANGED Tables
      BY <2>1, <2>2 DEF Tables
    <3> QED
      BY <1>0, <2>1, <2>2, <3>1, Asked, RaiseType
  <2>3. ASSUME NEW new \in Slugs, projects' = Append(projects, Project(call[c].org, new, c)),
               Goto(c, "ending")
        PROVE  TypeOK'
    <3>1. Moves(c, {"pc"}) /\ call'[c].pc = "ending"
      BY <2>3, GotoMoves
    <3>2. /\ projects' \in Seq([org : 1..orgs, slug : Slugs, name : Clients \cup {None}])
          /\ DOMAIN projects \subseteq DOMAIN projects'
      <4>1. Project(call[c].org, new, c) \in [org : 1..orgs, slug : Slugs, name : Clients \cup {None}]
        BY <1>0, <2>1 DEF RowsOf, Project, Is, ProjectOps
      <4> QED
        BY <2>3, <4>1 DEF TypeOK
    <3>3. \A d \in Clients : PathOf(d)'
      <4>1. \A d \in Clients \ {c} : PathOf(d)'
        BY <2>1, <3>1 DEF TypeOK, PathOf, Is, Moves
      <4>2. PathOf(c)'
        BY <2>1, <3>1 DEF PathOf, Is, ProjectOps
      <4> QED
        BY <4>1, <4>2
    <3>4. \A d \in Clients : RowsOf(d)'
      <4>1. \A d \in Clients \ {c} : RowsOf(d)'
        BY <2>1, <3>1, <3>2 DEF TypeOK, RowsOf, Is, Moves
      <4>2. call'[c].token = call[c].token
        BY <3>1, Fields DEF Moves
      <4>3. RowsOf(c)'
        BY <1>0, <2>1, <3>1, <4>2 DEF RowsOf, Is, ProjectOps
      <4> QED
        BY <4>1, <4>3
    <3>5. DOMAIN call' = Clients /\ \A d \in Clients : DOMAIN call'[d] = DOMAIN NoCall
      BY <3>1 DEF Moves, TypeOK
    <3> QED
      BY <2>1, <3>2, <3>3, <3>4, <3>5 DEF TypeOK
  <2> QED
    BY <1>14, <2>2, <2>3 DEF CreateProject
<1>15. CASE UpdateProject(c)
  <2>1. /\ Is(c, {"update"}) /\ call[c].pc = "authorized" /\ Goto(c, "ending")
        /\ projects' = [projects EXCEPT ![call[c].project].name = c]
        /\ given' = given /\ now' = now /\ changes' = changes
        /\ users' = users /\ orgs' = orgs /\ members' = members /\ tokens' = tokens /\ held' = held
    BY <1>15 DEF UpdateProject, History
  <2>2. Moves(c, {"pc"}) /\ call'[c].pc = "ending"
    BY <2>1, GotoMoves
  <2>3. /\ projects' \in Seq([org : 1..orgs, slug : Slugs, name : Clients \cup {None}])
        /\ DOMAIN projects' = DOMAIN projects
    <3>1. call[c].project \in DOMAIN projects
      BY <1>0, <2>1 DEF RowsOf, Is, ProjectOps
    <3> DEFINE S == [org : 1..orgs, slug : Slugs, name : Clients \cup {None}]
               row == [projects[call[c].project] EXCEPT !.name = c]
    <3>2. projects \in Seq(S)
      BY DEF TypeOK
    <3>3. row \in S
      <4>1. projects[call[c].project] \in S
        <5> HIDE DEF S
        <5> QED
          BY <3>1, <3>2
      <4> QED
        BY <4>1
    <3>4. projects' = [projects EXCEPT ![call[c].project] = row]
      BY <2>1
    <3> HIDE DEF S, row
    <3>5. projects' \in Seq(S) /\ DOMAIN projects' = DOMAIN projects
      BY <3>1, <3>2, <3>3, <3>4
    <3> QED
      BY <3>5 DEF S
  <2>4. \A d \in Clients : PathOf(d)'
    <3>1. \A d \in Clients \ {c} : PathOf(d)'
      BY <2>1, <2>2 DEF TypeOK, PathOf, Is, Moves
    <3>2. PathOf(c)'
      BY <2>1, <2>2 DEF PathOf, Is, ProjectOps
    <3> QED
      BY <3>1, <3>2
  <2>5. \A d \in Clients : RowsOf(d)'
    <3>1. \A d \in Clients \ {c} : RowsOf(d)'
      BY <2>1, <2>2, <2>3 DEF TypeOK, RowsOf, Is, Moves
    <3>2. call'[c].token = call[c].token
      BY <2>2, Fields DEF Moves
    <3>3. RowsOf(c)'
      BY <1>0, <2>1, <2>2, <3>2 DEF RowsOf, Is, ProjectOps
    <3> QED
      BY <3>1, <3>3
  <2>6. DOMAIN call' = Clients /\ \A d \in Clients : DOMAIN call'[d] = DOMAIN NoCall
    BY <2>2 DEF Moves, TypeOK
  <2> QED
    BY <2>1, <2>3, <2>4, <2>5, <2>6 DEF TypeOK
<1>16. CASE GetProject(c)
  <2>1. /\ Is(c, {"read"}) /\ call[c].pc = "authorized" /\ Goto(c, "ending") /\ UNCHANGED Rest
    BY <1>16 DEF GetProject, Redis, Tables, History, Rest
  <2>2. Moves(c, {"pc"}) /\ call'[c].pc = "ending"
    BY <2>1, GotoMoves
  <2>3. PathOf(c)'
    BY <1>0, <2>1, <2>2 DEF PathOf, Is, ProjectOps
  <2> QED
    BY <1>0, <2>1, <2>2, <2>3, PlainType
<1>17. CASE Refuse(c) \/ Fail(c)
  <2>1. /\ UNCHANGED Rest /\ call[c].pc # "idle" /\ \E e : Raise(c, e)
    BY <1>17 DEF Refuse, Fail, Redis, Tables, History, Rest
  <2> QED
    BY <1>0, <2>1, Asked, RaiseType
<1>18. CASE End(c)
  <2>1. /\ call[c].pc = "ending" /\ Moves(c, {"pc", "answer", "audits"}) /\ call'[c].pc = "done"
        /\ tokens' = IF call[c].token = None THEN tokens ELSE tokens \cup {call[c].token}
        /\ given' = given /\ now' = now /\ changes' = changes /\ UNCHANGED Tables /\ held' = held
    BY <1>18, EndDoes DEF History
  <2>2. \A t \in tokens' : t.sub \in DOMAIN users
    BY <1>0, <2>1 DEF RowsOf
  <2>3. PathOf(c)'
    BY <1>0, <2>1 DEF PathOf, Is, ProjectOps
  <2> QED
    BY <1>0, <2>1, <2>2, <2>3, PlainType
<1> QED
  BY <1>1, <1>2, <1>3, <1>4, <1>5, <1>6, <1>7, <1>8, <1>9, <1>10, <1>11, <1>12, <1>13, <1>14,
     <1>15, <1>16, <1>17, <1>18 DEF Step

LEMMA TickType == ASSUME TypeOK, Tick PROVE TypeOK'
<1>1. /\ now' = now + 1 /\ given' = given /\ UNCHANGED Tables /\ tokens' = tokens /\ call' = call
      /\ changes' = changes /\ held' = held
  BY DEF Tick, History
<1>2. \A c \in Clients : PathOf(c)' /\ RowsOf(c)'
  BY <1>1 DEF TypeOK, PathOf, RowsOf, Is, Tables
<1> QED
  BY <1>1, <1>2 DEF TypeOK, Tables

\* The operator makes no user and no membership.
LEMMA OperatorDoes ==
    ASSUME TypeOK, Operator
    PROVE  /\ users' \in Seq([github : Identities, active : BOOLEAN])
           /\ DOMAIN users' = DOMAIN users
           /\ \A u \in DOMAIN users : users'[u].github = users[u].github
           /\ members' \subseteq [org : 1..orgs, user : DOMAIN users, role : Roles]
           /\ \A m \in members' : \E x \in members : x.user = m.user
           /\ changes' = changes + 1
           /\ held' = [c \in Clients |->
                         held[c] \cup {<<m.org, m.role>> :
                                         m \in {x \in members' : x.user = call[c].user}}]
           /\ UNCHANGED <<given, now, Redis, orgs, projects, audit, tokens, call, passed, consumed>>
<1> DEFINE S == [github : Identities, active : BOOLEAN]
           T == [org : 1..orgs, user : DOMAIN users, role : Roles]
<1>1. users \in Seq(S) /\ members \subseteq T
  BY DEF TypeOK
<1>2. ASSUME NEW u \in DOMAIN users, users' = [users EXCEPT ![u].active = ~@]
      PROVE  /\ users' \in Seq(S) /\ DOMAIN users' = DOMAIN users
             /\ \A v \in DOMAIN users : users'[v].github = users[v].github
  <2> DEFINE row == [users[u] EXCEPT !.active = ~@]
  <2>1. row \in S /\ row.github = users[u].github
    <3>1. users[u] \in S
      <4> HIDE DEF S
      <4> QED
        BY <1>1
    <3> QED
      BY <3>1
  <2>2. users' = [users EXCEPT ![u] = row]
    BY <1>2
  <2> HIDE DEF row, S
  <2> QED
    BY <1>1, <2>1, <2>2
<1>3. ASSUME NEW m \in members, NEW r \in Roles,
             members' = (members \ {m}) \cup {[m EXCEPT !.role = r]}
      PROVE  members' \subseteq T /\ \A n \in members' : \E x \in members : x.user = n.user
  <2>1. [m EXCEPT !.role = r] \in T /\ [m EXCEPT !.role = r].user = m.user
    BY <1>1
  <2> HIDE DEF T
  <2> QED
    BY <1>1, <1>3, <2>1
<1> HIDE DEF S, T
<1>4. ASSUME NEW m \in members, members' = members \ {m}
      PROVE  members' \subseteq T /\ \A n \in members' : \E x \in members : x.user = n.user
  BY <1>1, <1>4
<1>5. users' \in Seq(S) /\ DOMAIN users' = DOMAIN users
      /\ \A v \in DOMAIN users : users'[v].github = users[v].github
  BY <1>1, <1>2 DEF Operator
<1>6. members' \subseteq T /\ \A n \in members' : \E x \in members : x.user = n.user
  BY <1>1, <1>3, <1>4 DEF Operator
<1> QED
  BY <1>5, <1>6 DEF Operator, S, T

LEMMA OperatorType == ASSUME TypeOK, Operator PROVE TypeOK'
<1>1. /\ users' \in Seq([github : Identities, active : BOOLEAN])
      /\ DOMAIN users' = DOMAIN users
      /\ members' \subseteq [org : 1..orgs, user : DOMAIN users, role : Roles]
      /\ changes' = changes + 1 /\ DOMAIN held' = Clients
      /\ given' = given /\ now' = now /\ orgs' = orgs /\ projects' = projects /\ tokens' = tokens
      /\ call' = call
  BY OperatorDoes
<1>2. \A c \in Clients : PathOf(c)' /\ RowsOf(c)'
  BY <1>1 DEF TypeOK, PathOf, RowsOf, Is
<1> QED
  BY <1>1, <1>2 DEF TypeOK

LEMMA InitType == ASSUME Init PROVE TypeOK
<1>1. PICK s \in Starts :
          /\ given = [ops |-> s.ops, email |-> s.email, limit |-> s.limit, horizon |-> s.horizon,
                      changes |-> s.changes, faults |-> s.faults]
          /\ now = 0 /\ users = s.users /\ orgs = s.orgs /\ members = s.members
          /\ projects = s.projects /\ tokens = s.tokens
          /\ call = [c \in Clients |-> NoCall] /\ changes = 0
          /\ held = [c \in Clients |-> {}]
  BY DEF Init
<1>2. /\ s.ops \in [Clients -> Ops] /\ s.limit \in Nat /\ s.orgs \in Nat
      /\ s.users \in Seq([github : Identities, active : BOOLEAN])
      /\ s.members \subseteq [org : 1..s.orgs, user : DOMAIN s.users, role : Roles]
      /\ s.projects \in Seq([org : 1..s.orgs, slug : Slugs, name : Clients \cup {None}])
      /\ \A t \in s.tokens : t.sub \in DOMAIN s.users
  BY StartsAssumption DEF Ops
<1>3. NoCall.pc = "idle" /\ NoCall.token = None
  BY DEF NoCall
<1>4. \A c \in Clients : call[c].pc = "idle" /\ call[c].token = None
  BY <1>1, <1>3
<1>5. \A c \in Clients : PathOf(c) /\ RowsOf(c)
  BY <1>4 DEF PathOf, RowsOf
<1>6. given.ops = s.ops /\ given.limit = s.limit
  BY <1>1
<1>7. DOMAIN call = Clients /\ (\A c \in Clients : DOMAIN call[c] = DOMAIN NoCall)
      /\ DOMAIN held = Clients
  BY <1>1
<1> QED
  BY <1>1, <1>2, <1>5, <1>6, <1>7 DEF TypeOK

LEMMA StutterType == ASSUME TypeOK, UNCHANGED vars PROVE TypeOK'
<1>1. /\ given' = given /\ now' = now /\ changes' = changes /\ orgs' = orgs /\ users' = users
      /\ members' = members /\ projects' = projects /\ tokens' = tokens /\ held' = held
      /\ call' = call
  BY DEF vars
<1>2. \A c \in Clients : PathOf(c)' /\ RowsOf(c)'
  BY <1>1 DEF TypeOK, PathOf, RowsOf, Is
<1> QED
  BY <1>1, <1>2 DEF TypeOK

LEMMA NextType == TypeOK /\ [Next]_vars => TypeOK'
  BY TypeStep, TickType, OperatorType, StutterType DEF Next

-----------------------------------------------------------------------------
(* Who changes what                                                        *)

LEMMA Footprint ==
    ASSUME NEW c \in Clients, Step(c) \/ Fail(c)
    PROVE  /\ given' = given /\ now' = now /\ changes' = changes
           /\ UNCHANGED <<states, consumed>> \/ StartLogin(c) \/ Consume(c)
           /\ UNCHANGED <<counts, passed>> \/ Enforce(c)
           /\ UNCHANGED users \/ CommitUser(c)
           /\ UNCHANGED <<orgs, members>> \/ CommitOrganization(c)
           /\ UNCHANGED projects \/ CreateProject(c) \/ UpdateProject(c)
           /\ UNCHANGED held \/ Authenticate(c) \/ CommitOrganization(c)
           /\ \/ UNCHANGED audit \/ Consume(c) \/ CommitOrganization(c) \/ End(c)
              \/ AuthorizeOrganization(c) \/ AuthorizeProject(c)
<1> USE DEF Redis, Tables, History
<1>1. CASE BuildKey(c) \/ Enforce(c) \/ StartLogin(c) \/ Consume(c) \/ Exchange(c)
  BY <1>1 DEF BuildKey, Enforce, StartLogin, Consume, Exchange
<1>2. CASE LookupUser(c) \/ FlushUser(c) \/ CommitUser(c) \/ IssueToken(c) \/ Authenticate(c)
  BY <1>2 DEF LookupUser, FlushUser, CommitUser, IssueToken, Authenticate
<1>3. CASE LockUser(c) \/ CheckMemberships(c) \/ CommitOrganization(c)
           \/ AuthorizeOrganization(c) \/ AuthorizeProject(c)
  BY <1>3 DEF LockUser, CheckMemberships, CommitOrganization, AuthorizeOrganization,
              AuthorizeProject
<1>4. CASE CreateProject(c) \/ UpdateProject(c) \/ GetProject(c) \/ Refuse(c) \/ End(c) \/ Fail(c)
  BY <1>4 DEF CreateProject, UpdateProject, GetProject, Refuse, End, Fail
<1> QED
  BY <1>1, <1>2, <1>3, <1>4 DEF Step

\* The requests of the others stay where they are.
LEMMA OthersKept ==
    ASSUME TypeOK, NEW c \in Clients, Step(c) \/ Fail(c)
    PROVE  \A d \in Clients \ {c} : call'[d] = call[d]
<1>1. \A pc : Goto(c, pc) => Moves(c, {"pc"})
  BY GotoMoves
<1>2. \A e : Raise(c, e) => Moves(c, {"pc", "answer", "audits"})
  BY RaiseMoves
<1>3. \A a, e : RecordRefusal(c, a, e) => Moves(c, {"pc", "answer"})
  BY RefusalDoes
<1>4. CASE BuildKey(c) \/ Enforce(c) \/ Exchange(c) \/ LookupUser(c) \/ CommitUser(c)
           \/ IssueToken(c) \/ Authenticate(c) \/ CommitOrganization(c) \/ End(c)
  <2>1. \E fields : Moves(c, fields)
    BY <1>1, <1>2, <1>4, BuildKeyDoes, EnforceDoes, ExchangeDoes, LookupUserDoes, CommitUserDoes,
       IssueTokenDoes, AuthenticateDoes, CommitOrganizationDoes, EndDoes
  <2> QED
    BY <2>1 DEF Moves
<1>5. CASE AuthorizeOrganization(c) \/ AuthorizeProject(c)
  <2>1. \E fields : Moves(c, fields)
    BY <1>2, <1>3, <1>5, DecideDoes DEF AuthorizeOrganization, AuthorizeProject
  <2> QED
    BY <2>1 DEF Moves
<1>6. CASE StartLogin(c) \/ Consume(c) \/ FlushUser(c) \/ LockUser(c) \/ CheckMemberships(c)
           \/ CreateProject(c) \/ UpdateProject(c) \/ GetProject(c) \/ Refuse(c) \/ Fail(c)
  <2>1. \/ \E pc : Goto(c, pc)
        \/ \E e : Raise(c, e)
        \/ \E a, e : RecordRefusal(c, a, e)
    BY <1>6 DEF StartLogin, Consume, FlushUser, LockUser, CheckMemberships, CreateProject,
                UpdateProject, GetProject, Refuse, Fail
  <2> QED
    BY <1>1, <1>2, <1>3, <2>1 DEF Moves
<1> QED
  BY <1>4, <1>5, <1>6 DEF Step

-----------------------------------------------------------------------------
(* The state of a login                                                    *)

LEMMA StatesStep == ASSUME TypeOK, StateUsedOnce, [Next]_vars PROVE StateUsedOnce'
<1>1. CASE UNCHANGED <<states, consumed>>
  BY <1>1 DEF StateUsedOnce
<1>2. ASSUME NEW c \in Clients, StartLogin(c) PROVE StateUsedOnce'
  <2>1. consumed' = consumed
    BY <1>2 DEF StartLogin, History
  <2>2. CASE UNCHANGED states
    BY <2>1, <2>2 DEF StateUsedOnce
  <2>3. ASSUME NEW new, new = (CHOOSE st \in FreshStates : TRUE), FreshStates # {},
               states' = [x \in DOMAIN states \cup {new} |->
                             IF x = new THEN now + StateTTL ELSE states[x]]
        PROVE  StateUsedOnce'
    <3>1. new \in FreshStates
      BY <2>3
    <3>2. \A x \in consumed : x.state # new
      BY <3>1 DEF FreshStates
    <3>3. DOMAIN states' = DOMAIN states \cup {new}
      BY <2>3
    <3> QED
      BY <2>1, <3>2, <3>3 DEF StateUsedOnce
  <2> QED
    BY <1>2, <2>2, <2>3 DEF StartLogin
<1>3. ASSUME NEW c \in Clients, Consume(c) PROVE StateUsedOnce'
  <2>1. CASE UNCHANGED <<states, consumed>>
    BY <2>1 DEF StateUsedOnce
  <2>2. ASSUME NEW st \in States, Saved(st), states' = Without(st),
               consumed' = consumed \cup {[state |-> st, by |-> c]}
        PROVE  StateUsedOnce'
    <3>1. DOMAIN states' = DOMAIN states \ {st}
      BY <2>2 DEF Without
    <3>2. \A x \in consumed : x.state # st
      BY <2>2 DEF StateUsedOnce, Saved
    <3>3. [state |-> st, by |-> c].state = st
      OBVIOUS
    <3> QED
      BY <2>2, <3>1, <3>2, <3>3 DEF StateUsedOnce
  <2> QED
    BY <1>3, <2>1, <2>2 DEF Consume
<1>4. CASE Tick \/ Operator
  BY <1>1, <1>4 DEF Tick, Operator, Redis, History
<1> QED
  BY <1>1, <1>2, <1>3, <1>4, Footprint DEF Next, vars

-----------------------------------------------------------------------------
(* Users                                                                   *)

LEMMA SameUserIs ==
    /\ \A g : SameUser(g, g)
    /\ \A g, h : SameUser(g, h) => SameUser(h, g)
    /\ given' = given => \A g, h : SameUser(g, h) <=> SameUser(g, h)'
  BY DEF SameUser

\* No user is added, and nobody begins an insert.
LEMMA NoInsert ==
    ASSUME TypeOK, TypeOK', UserInv, NEW c \in Clients, given' = given, users' = users,
           \A d \in Clients \ {c} : call'[d] = call[d],
           LoginAt(c)', call'[c].pc # "created"
    PROVE  UserInv'
<1>1. \A d \in Clients : LoginAt(d)'
  <2>1. \A d \in Clients \ {c} : LoginAt(d)'
    BY DEF UserInv, LoginAt, Is, UserTaken, SameUser
  <2> QED
    BY <2>1
<1>2. InsertsExclude'
  BY DEF UserInv, InsertsExclude, SameUser
<1>3. (\A u, v \in DOMAIN users : SameUser(users[u].github, users[v].github) => u = v)'
  BY DEF UserInv, SameUser
<1> QED
  BY <1>1, <1>2, <1>3 DEF UserInv

LEMMA LoginGoesOn ==
    ASSUME TypeOK, UserInv, NEW c \in Clients, given' = given, users' = users,
           NEW fields, Moves(c, fields), "token" \notin fields,
           call'[c].pc \notin {"known", "created"},
           call[c].pc \in {"ending", "done"} => call'[c].pc \in {"ending", "done"},
           "github" \in fields => call[c].pc \notin {"ending", "done"}
    PROVE  LoginAt(c)'
<1>1. call'[c].token = call[c].token
  BY Fields DEF Moves
<1>2. "github" \notin fields => call'[c].github = call[c].github
  BY Fields DEF Moves
<1>3. LoginAt(c)
  BY DEF UserInv
<1> QED
  BY <1>1, <1>2, <1>3 DEF LoginAt, Is

LEMMA UsersStep ==
    ASSUME TypeOK, TypeOK', UserInv, NEW c \in Clients, Step(c) \/ Fail(c)
    PROVE  UserInv'
<1> USE DEF At
<1>0. /\ given' = given /\ \A d \in Clients \ {c} : call'[d] = call[d]
      /\ LoginAt(c)
  BY Footprint, OthersKept DEF UserInv
<1>1. CASE ~Is(c, {"callback"})
  <2>1. LoginAt(c)'
    BY <1>0, <1>1 DEF LoginAt, Is
  <2>2. call'[c].pc # "created"
    BY <1>0, <1>1 DEF TypeOK, PathOf, Is, Ops, ProjectOps
  <2>3. users' = users
    BY <1>1, Footprint DEF CommitUser
  <2> QED
    BY <1>0, <2>1, <2>2, <2>3, NoInsert
<1>2. \A e : Raise(c, e) /\ users' = users => UserInv'
  BY <1>0, RaiseMoves, LoginGoesOn, NoInsert
<1>3. \A pc : (/\ Goto(c, pc) /\ pc \notin {"known", "created"} /\ users' = users
               /\ call[c].pc \notin {"ending", "done"}) => UserInv'
  BY <1>0, GotoMoves, LoginGoesOn, NoInsert
<1>4. CASE Is(c, {"callback"})
  <2>1. CASE BuildKey(c)
    <3>1. Moves(c, {"pc", "key"}) /\ call'[c].pc = "keyed" /\ users' = users
      BY <2>1, BuildKeyDoes DEF Rest
    <3>2. call[c].pc \notin {"ending", "done"}
      BY <2>1 DEF BuildKey
    <3> QED
      BY <1>0, <3>1, <3>2, LoginGoesOn, NoInsert
  <2>2. CASE Enforce(c)
    <3>1. /\ call[c].pc = "keyed" /\ users' = users
          /\ \/ Moves(c, {"pc", "key"}) /\ call'[c].pc = "admitted"
             \/ Moves(c, {"pc", "answer", "retry", "at"}) /\ call'[c].pc = "done"
             \/ Raise(c, "RateLimiterUnavailable")
      BY <2>2, EnforceDoes DEF Tables
    <3>2. CASE Moves(c, {"pc", "key"}) /\ call'[c].pc = "admitted"
      BY <1>0, <3>1, <3>2, LoginGoesOn, NoInsert
    <3>3. CASE Moves(c, {"pc", "answer", "retry", "at"}) /\ call'[c].pc = "done"
      BY <1>0, <3>1, <3>3, LoginGoesOn, NoInsert
    <3> QED
      BY <1>2, <3>1, <3>2, <3>3
  <2>3. CASE Consume(c)
    <3>1. /\ call[c].pc = "admitted" /\ users' = users
          /\ \/ \E e : RecordRefusal(c, "login_failure", e)
             \/ \E e : Raise(c, e)
             \/ Goto(c, "consumed")
      BY <2>3 DEF Consume, Tables
    <3>2. ASSUME NEW e, RecordRefusal(c, "login_failure", e) PROVE UserInv'
      <4>1. Moves(c, {"pc", "answer"}) /\ call'[c].pc = "refusing"
        BY <3>2, RefusalDoes
      <4> QED
        BY <1>0, <3>1, <4>1, LoginGoesOn, NoInsert
    <3> QED
      BY <1>2, <1>3, <3>1, <3>2
  <2>4. CASE Exchange(c)
    <3>1. /\ call[c].pc = "consumed" /\ users' = users
          /\ \/ Moves(c, {"pc", "github"}) /\ call'[c].pc = "identified"
             \/ \E e : Raise(c, e)
      BY <2>4, ExchangeDoes DEF Rest
    <3>2. CASE Moves(c, {"pc", "github"}) /\ call'[c].pc = "identified"
      BY <1>0, <3>1, <3>2, LoginGoesOn, NoInsert
    <3> QED
      BY <1>2, <3>1, <3>2
  <2>5. CASE LookupUser(c)
    <3>1. /\ call[c].pc = "identified" /\ users' = users
          /\ \/ /\ Moves(c, {"pc", "user"}) /\ call'[c].pc = "known"
                /\ users[call'[c].user].github = call[c].github
             \/ Goto(c, "unknown")
      BY <2>5, LookupUserDoes DEF Rest
    <3>2. CASE /\ Moves(c, {"pc", "user"}) /\ call'[c].pc = "known"
               /\ users[call'[c].user].github = call[c].github
      <4>1. call'[c].token = call[c].token /\ call'[c].github = call[c].github
        BY <3>2, Fields DEF Moves
      <4>2. LoginAt(c)'
        BY <1>0, <3>1, <3>2, <4>1 DEF LoginAt, Is
      <4> QED
        BY <1>0, <3>1, <3>2, <4>2, NoInsert
    <3> QED
      BY <1>3, <3>1, <3>2
  <2>6. CASE FlushUser(c)
    <3>1. /\ call[c].pc = "unknown" /\ users' = users
          /\ \A d \in Clients : call[d].pc = "created" => ~SameUser(call[d].github, call[c].github)
          /\ \/ Raise(c, "IntegrityError")
             \/ ~UserTaken(call[c].github) /\ Goto(c, "created")
      BY <2>6 DEF FlushUser, Tables
    <3>2. CASE ~UserTaken(call[c].github) /\ Goto(c, "created")
      <4>1. Moves(c, {"pc"}) /\ call'[c].pc = "created"
        BY <3>2, GotoMoves
      <4>2. call'[c].token = call[c].token /\ call'[c].github = call[c].github
        BY <4>1, Fields DEF Moves
      <4>3. LoginAt(c)'
        BY <1>0, <3>1, <3>2, <4>1, <4>2 DEF LoginAt, Is, UserTaken, SameUser
      <4>4. \A d \in Clients : LoginAt(d)'
        <5>1. \A d \in Clients \ {c} : LoginAt(d)'
          BY <1>0, <3>1 DEF UserInv, LoginAt, Is, UserTaken, SameUser
        <5> QED
          BY <4>3, <5>1
      <4>5. InsertsExclude'
        BY <1>0, <3>1, <4>1, <4>2 DEF UserInv, InsertsExclude, SameUser
      <4>6. (\A u, v \in DOMAIN users : SameUser(users[u].github, users[v].github) => u = v)'
        BY <1>0, <3>1 DEF UserInv, SameUser
      <4> QED
        BY <4>4, <4>5, <4>6 DEF UserInv
    <3> QED
      BY <1>2, <3>1, <3>2
  <2>7. CASE CommitUser(c)
    <3> DEFINE new == Len(users) + 1
    <3>1. /\ call[c].pc = "created" /\ users' = Append(users, User(call[c].github))
          /\ Moves(c, {"pc", "user"}) /\ call'[c].pc = "known" /\ call'[c].user = new
      BY <2>7, CommitUserDoes
    <3>2. /\ DOMAIN users' = DOMAIN users \cup {new} /\ new \notin DOMAIN users
          /\ users'[new].github = call[c].github
          /\ \A u \in DOMAIN users : users'[u] = users[u]
      BY <3>1 DEF TypeOK, User
    <3>3. call'[c].token = call[c].token /\ call'[c].github = call[c].github
      BY <3>1, Fields DEF Moves
    <3>4. ~UserTaken(call[c].github)
      BY <1>0, <1>4, <3>1 DEF LoginAt
    <3> HIDE DEF new
    <3>5. \A u, v \in DOMAIN users' : SameUser(users'[u].github, users'[v].github) => u = v
      BY <3>2, <3>4 DEF UserInv, UserTaken, SameUser
    <3>6. (\A u, v \in DOMAIN users : SameUser(users[u].github, users[v].github) => u = v)'
      BY <1>0, <3>5 DEF SameUser
    <3>7. LoginAt(c)'
      BY <1>0, <3>1, <3>2, <3>3 DEF LoginAt, Is
    <3>8. ASSUME NEW d \in Clients \ {c} PROVE LoginAt(d)'
      <4>1. LoginAt(d) /\ RowsOf(d) /\ call'[d] = call[d]
        BY <1>0 DEF UserInv, TypeOK
      <4>2. call[d].pc = "created" => ~SameUser(call[c].github, call[d].github)
        BY <3>1 DEF UserInv, InsertsExclude
      <4> QED
        BY <1>0, <3>2, <4>1, <4>2 DEF LoginAt, RowsOf, Is, UserTaken, SameUser
    <3>9. InsertsExclude'
      BY <1>0, <3>1 DEF UserInv, InsertsExclude, SameUser
    <3> QED
      BY <3>6, <3>7, <3>8, <3>9 DEF UserInv
  <2>8. CASE IssueToken(c)
    <3>1. /\ call[c].pc = "known" /\ users' = users
          /\ Moves(c, {"pc", "audits", "token"}) /\ call'[c].pc = "ending"
          /\ call'[c].token.sub = call[c].user
      BY <2>8, IssueTokenDoes DEF Rest
    <3>2. call'[c].github = call[c].github
      BY <3>1, Fields DEF Moves
    <3>3. LoginAt(c)'
      BY <1>0, <3>1, <3>2 DEF LoginAt, Is
    <3> QED
      BY <1>0, <3>1, <3>3, NoInsert
  <2>9. CASE Refuse(c) \/ Fail(c)
    <3>1. users' = users /\ \E e : Raise(c, e)
      BY <2>9 DEF Refuse, Fail, Tables
    <3> QED
      BY <1>2, <3>1
  <2>10. CASE End(c)
    <3>1. Moves(c, {"pc", "answer", "audits"}) /\ call'[c].pc = "done" /\ users' = users
      BY <2>10, EndDoes DEF Tables
    <3> QED
      BY <1>0, <3>1, LoginGoesOn, NoInsert
  <2>11. ~(StartLogin(c) \/ Authenticate(c) \/ LockUser(c) \/ CheckMemberships(c)
           \/ CommitOrganization(c) \/ AuthorizeOrganization(c) \/ AuthorizeProject(c)
           \/ CreateProject(c) \/ UpdateProject(c) \/ GetProject(c))
    BY <1>4 DEF StartLogin, Authenticate, LockUser, CheckMemberships, CommitOrganization,
               AuthorizeOrganization, AuthorizeProject, CreateProject, UpdateProject, GetProject, Is
  <2> QED
    BY <2>1, <2>2, <2>3, <2>4, <2>5, <2>6, <2>7, <2>8, <2>9, <2>10, <2>11 DEF Step
<1> QED
  BY <1>1, <1>4

LEMMA UsersNext == ASSUME TypeOK, TypeOK', UserInv, [Next]_vars PROVE UserInv'
<1>1. ASSUME given' = given, call' = call, DOMAIN users' = DOMAIN users,
             \A u \in DOMAIN users : users'[u].github = users[u].github
      PROVE  UserInv'
  <2>1. \A c \in Clients : LoginAt(c)'
    <3> SUFFICES ASSUME NEW c \in Clients PROVE LoginAt(c)'
      OBVIOUS
    <3>1. LoginAt(c) /\ RowsOf(c)
      BY DEF UserInv, TypeOK
    <3> QED
      BY <1>1, <3>1 DEF LoginAt, RowsOf, Is, UserTaken, SameUser
  <2>2. InsertsExclude'
    BY <1>1 DEF UserInv, InsertsExclude, SameUser
  <2>3. (\A u, v \in DOMAIN users : SameUser(users[u].github, users[v].github) => u = v)'
    BY <1>1 DEF UserInv, SameUser
  <2> QED
    BY <2>1, <2>2, <2>3 DEF UserInv
<1>2. CASE Operator
  BY <1>1, <1>2, OperatorDoes
<1>3. CASE Tick \/ UNCHANGED vars
  BY <1>1, <1>3 DEF Tick, Tables, vars
<1> QED
  BY <1>2, <1>3, UsersStep DEF Next

-----------------------------------------------------------------------------
(* The status of an error: every class, or its base class, has a handler   *)

LEMMA Overriding ==
    ASSUME NEW f, NEW g
    PROVE  /\ DOMAIN (Union(f, g)) = DOMAIN f \cup DOMAIN g
           /\ \A e \in DOMAIN f : (Union(f, g))[e] = f[e]
           /\ \A e \in DOMAIN g \ DOMAIN f : (Union(f, g))[e] = g[e]
  BY DEF Union

\* Every class has a handler, or its base class is one of these, which have.
Families == {"NotFoundError", "ConflictError", "AuthenticationError", "WebhookSignatureError",
             "AgentABIError", "Exception"}

Covered(f) == \A e \in DOMAIN f : e \in DOMAIN Handlers \/ f[e] \in Families

LEMMA CoveredTogether ==
    ASSUME NEW f, NEW g, Covered(f), Covered(g) PROVE Covered(Union(f, g))
<1> DEFINE h == Union(f, g)
<1>1. /\ DOMAIN h = DOMAIN f \cup DOMAIN g
      /\ \A e \in DOMAIN f : h[e] = f[e]
      /\ \A e \in DOMAIN g \ DOMAIN f : h[e] = g[e]
  BY Overriding
<1> HIDE DEF h
<1>2. Covered(h)
  BY <1>1 DEF Covered
<1> QED
  BY <1>2 DEF h

LEMMA HandlersAre ==
    /\ DOMAIN Handlers = DOMAIN DomainErrorMap \cup {"AuthenticationError", "RateLimited", "Exception"}
    /\ \A e \in DOMAIN DomainErrorMap : Handlers[e] = DomainErrorMap[e]
<1> DEFINE f == DomainErrorMap
           g == [AuthenticationError |-> 401, RateLimited |-> 429, Exception |-> 500]
<1>1. Handlers = Union(f, g)
  BY DEF Handlers
<1>2. DOMAIN g = {"AuthenticationError", "RateLimited", "Exception"}
  OBVIOUS
<1> HIDE DEF f, g
<1>3. /\ DOMAIN (Union(f, g)) = DOMAIN f \cup DOMAIN g
      /\ \A e \in DOMAIN f : (Union(f, g))[e] = f[e]
  BY Overriding
<1> QED
  BY <1>1, <1>2, <1>3 DEF f

LEMMA UnionHolds ==
    ASSUME NEW f, NEW g, NEW e
    PROVE  /\ e \in DOMAIN f => e \in DOMAIN Union(f, g) /\ Union(f, g)[e] = f[e]
           /\ e \in DOMAIN g => e \in DOMAIN Union(f, g)
  BY Overriding

LEMMA AllCovered ==
    /\ Covered(RegistryErrors) /\ Covered(TrajectoryErrors) /\ Covered(ReplayErrors)
    /\ Covered(AuthenticationErrors) /\ Covered(OAuthErrors) /\ Covered(AccessErrors)
    /\ Covered(WebhookErrors) /\ Covered(EvidenceErrors) /\ Covered(GitHubErrors)
<1> DEFINE H == DOMAIN Handlers
<1>1. /\ {"NotFoundError", "ConflictError", "OAuthStateInvalid", "WebhookSignatureError",
          "AgentABIError", "PermissionDenied", "OrganizationAccessDenied", "ProjectAccessDenied",
          "AuthenticationError", "RateLimited", "Exception", "LLMProviderNotConfigured",
          "LLMProviderUnavailable", "LLMProviderTimeout", "LLMInvalidResponse",
          "LLMExplanationFailed", "OAuthStateStoreUnavailable", "GitHubOAuthNotConfigured",
          "MissingAuthorizationCode", "GitHubAuthorizationDenied", "GitHubTokenExchangeFailed",
          "GitHubIdentityLookupFailed", "MalformedGitHubIdentity"} \subseteq H
  BY HandlersAre DEF DomainErrorMap
<1> HIDE DEF H
<1>r. \A f : Covered(f) <=> \A e \in DOMAIN f : e \in H \/ f[e] \in Families
  BY DEF Covered, H
<1>2. Covered(RegistryErrors) /\ Covered(TrajectoryErrors) 
  BY <1>1, <1>r DEF Families, RegistryErrors, TrajectoryErrors
<1>3. Covered(ReplayErrors) /\ Covered(AuthenticationErrors)
  BY <1>1, <1>r DEF Families, ReplayErrors, AuthenticationErrors
<1>4. Covered(OAuthErrors) /\ Covered(AccessErrors)
  BY <1>1, <1>r DEF Families, OAuthErrors, AccessErrors
<1>5. Covered(WebhookErrors) /\ Covered(EvidenceErrors) /\ Covered(GitHubErrors)
  BY <1>1, <1>r DEF Families, WebhookErrors, EvidenceErrors, GitHubErrors
<1> QED
  BY <1>2, <1>3, <1>4, <1>5

LEMMA BaseCovered == Covered(Base)
<1>1. Covered([AgentABIError |-> "Exception", IntegrityError |-> "Exception",
               Crash |-> "Exception"])
  BY HandlersAre DEF Covered, Families
<1> QED
  BY <1>1, AllCovered, CoveredTogether DEF Base

\* Some of the classes
LEMMA BaseHolds ==
    /\ {"NotFoundError", "ConflictError", "AuthenticationError", "WebhookSignatureError",
        "AgentABIError", "OrganizationAccessDenied", "ProjectAccessDenied", "ProjectNotFound"}
           \subseteq DOMAIN Base
    /\ Base["ProjectNotFound"] = "NotFoundError"
<1> DEFINE root == [AgentABIError |-> "Exception", IntegrityError |-> "Exception",
                    Crash |-> "Exception"]
           a == Union(RegistryErrors, TrajectoryErrors)
           b == Union(ReplayErrors, AuthenticationErrors)
           c == Union(OAuthErrors, AccessErrors)
           d == Union(WebhookErrors, EvidenceErrors)
           f == Union(GitHubErrors, root)
           ab == Union(a, b)
           cd == Union(c, d)
           cf == Union(cd, f)
<1>1. Base = Union(ab, cf)
  BY DEF Base
<1>2. /\ {"NotFoundError", "ConflictError", "ProjectNotFound"} \subseteq DOMAIN RegistryErrors
      /\ RegistryErrors["ProjectNotFound"] = "NotFoundError"
      /\ "AuthenticationError" \in DOMAIN AuthenticationErrors
      /\ "WebhookSignatureError" \in DOMAIN WebhookErrors
      /\ "AgentABIError" \in DOMAIN root
      /\ {"OrganizationAccessDenied", "ProjectAccessDenied"} \subseteq DOMAIN AccessErrors
  BY DEF RegistryErrors, AuthenticationErrors, WebhookErrors, AccessErrors
<1> HIDE DEF root
<1>3. /\ {"NotFoundError", "ConflictError", "ProjectNotFound"} \subseteq DOMAIN a
      /\ a["ProjectNotFound"] = "NotFoundError" /\ "AuthenticationError" \in DOMAIN b
  BY <1>2, UnionHolds
<1>4. /\ "WebhookSignatureError" \in DOMAIN d /\ "AgentABIError" \in DOMAIN f
      /\ {"OrganizationAccessDenied", "ProjectAccessDenied"} \subseteq DOMAIN c
  BY <1>2, UnionHolds
<1> HIDE DEF a, b, c, d, f
<1>5. /\ {"NotFoundError", "ConflictError", "ProjectNotFound", "AuthenticationError"}
            \subseteq DOMAIN ab
      /\ ab["ProjectNotFound"] = "NotFoundError"
  BY <1>3, UnionHolds
<1>6. {"WebhookSignatureError", "OrganizationAccessDenied", "ProjectAccessDenied"}
          \subseteq DOMAIN cd
  BY <1>4, UnionHolds
<1> HIDE DEF ab, cd
<1>7. {"WebhookSignatureError", "OrganizationAccessDenied", "ProjectAccessDenied", "AgentABIError"}
          \subseteq DOMAIN cf
  BY <1>4, <1>6, UnionHolds
<1> HIDE DEF cf
<1> QED
  BY <1>1, <1>5, <1>7, UnionHolds

LEMMA FamiliesHandled ==
    Families \subseteq DOMAIN Handlers /\ Families \subseteq DOMAIN Base \cup {"Exception"}
<1>1. Families \subseteq DOMAIN Handlers
  BY HandlersAre DEF Families, DomainErrorMap
<1>2. Families \subseteq DOMAIN Base \cup {"Exception"}
  BY BaseHolds DEF Families
<1> QED
  BY <1>1, <1>2

LEMMA HandlerIs ==
    ASSUME NEW e \in DOMAIN Base \cup {"Exception"}
    PROVE  HandlerOf(e) = IF e \in DOMAIN Handlers THEN e ELSE Base[e]
<1> DEFINE D == DOMAIN Base \cup {"Exception"}
           g == [x \in D |-> IF x \in DOMAIN Handlers THEN x ELSE Base[x]]
           Search(of) == of = [x \in D |-> IF x \in DOMAIN Handlers THEN x ELSE of[Base[x]]]
           of == CHOOSE f : Search(f)
<1>1. \A x \in D : x \in DOMAIN Handlers \/ (Base[x] \in D /\ Base[x] \in DOMAIN Handlers)
  BY FamiliesHandled, BaseCovered, HandlersAre DEF Covered
<1>2. Search(g)
  BY <1>1
<1>3. Search(of)
  BY <1>2
<1>4. HandlerOf(e) = of[e]
  BY DEF HandlerOf
<1> QED
  BY <1>1, <1>3, <1>4

\* Who is no member is refused with the status and the code of a missing
\* project; the two refusals are one and the same answer.
LEMMA HiddenLooksMissing ==
    ASSUME NEW e \in {"OrganizationAccessDenied", "ProjectAccessDenied"}
    PROVE  /\ Status(e) = 404 /\ Code(e) = "RESOURCE_NOT_FOUND" /\ Message(e) = "Not found"
           /\ Status("ProjectNotFound") = 404 /\ Code("ProjectNotFound") = "RESOURCE_NOT_FOUND"
<1>1. "ProjectNotFound" \notin DOMAIN Handlers
  BY HandlersAre DEF DomainErrorMap
<1>2. /\ Handlers["OrganizationAccessDenied"] = 404 /\ Handlers["ProjectAccessDenied"] = 404
      /\ Handlers["NotFoundError"] = 404
      /\ {"OrganizationAccessDenied", "ProjectAccessDenied"} \subseteq DOMAIN Handlers
  BY HandlersAre DEF DomainErrorMap
<1>3. HandlerOf(e) = e /\ HandlerOf("ProjectNotFound") = "NotFoundError"
  BY <1>1, <1>2, BaseHolds, HandlerIs
<1>4. Status(e) = 404 /\ Status("ProjectNotFound") = 404
  BY <1>2, <1>3 DEF Status
<1>5. Code(e) = "RESOURCE_NOT_FOUND" /\ Code("ProjectNotFound") = "RESOURCE_NOT_FOUND"
  BY <1>3, <1>4 DEF Code, CodeFor
<1>6. Message(e) = "Not found"
  BY <1>3 DEF Message
<1> QED
  BY <1>4, <1>5, <1>6

-----------------------------------------------------------------------------
(* Rights                                                                  *)

LEMMA RightsStay ==
    ASSUME NEW d, given' = given, call'[d].org = call[d].org, held[d] \subseteq held'[d], Rights(d)
    PROVE  Rights(d)'
  BY DEF Rights

\* What a request had, it has: of the others, and when the tables change.
LEMMA RightsKept ==
    ASSUME NEW d \in Clients, given' = given, call'[d] = call[d], held[d] \subseteq held'[d],
           RightsAt(d),
           call[d].pc = "authenticated" => RolesOf(call[d].user)' \subseteq held'[d]
    PROVE  RightsAt(d)'
<1>1. Rights(d) => Rights(d)'
  BY RightsStay
<1> QED
  BY <1>1 DEF RightsAt, Is

LEMMA RightsRaised ==
    ASSUME TypeOK, NEW c \in Clients, NEW e, Raise(c, e), e # "ok", given' = given, held' = held,
           call[c].pc # "done", RightsAt(c)
    PROVE  RightsAt(c)'
<1>1. Moves(c, {"pc", "answer", "audits"}) /\ call'[c].pc = "done" /\ call'[c].answer = e
  BY RaiseMoves
<1>2. call'[c].org = call[c].org
  BY <1>1, Fields DEF Moves
<1>3. Rights(c) => Rights(c)'
  BY <1>2, RightsStay
<1> QED
  BY <1>1, <1>2, <1>3 DEF RightsAt, Is

LEMMA RightsDecided ==
    ASSUME TypeOK, NEW c \in Clients, NEW org, NEW project, NEW missing \in Hidden,
           Decide(c, org, project, missing), given' = given, held' = held,
           Is(c, ProjectOps), call[c].pc = "authenticated", RightsAt(c)
    PROVE  RightsAt(c)'
<1>1. /\ RolesOf(call[c].user) \subseteq held[c] /\ call[c].answer = None
      /\ call[c].org # None => Rights(c)
  BY DEF RightsAt
<1>2. CASE /\ Moves(c, {"pc", "answer", "org"}) /\ call'[c].pc = "done"
           /\ call'[c].answer = missing
  BY <1>2 DEF RightsAt, Hidden
<1>3. CASE RecordRefusal(c, "authorization_denied", "PermissionDenied")
  <2>1. /\ Moves(c, {"pc", "answer"}) /\ call'[c].pc = "refusing"
        /\ call'[c].answer = "PermissionDenied"
    BY <1>3, RefusalDoes
  <2>2. call'[c].org = call[c].org
    BY <2>1, Fields DEF Moves
  <2>3. Rights(c) => Rights(c)'
    BY <2>2, RightsStay
  <2> QED
    BY <1>1, <2>1, <2>2, <2>3 DEF RightsAt
<1>4. CASE /\ Moves(c, {"pc", "org", "project"}) /\ call'[c].pc = "authorized"
           /\ call'[c].org = org
           /\ \E m \in members : /\ m.user = call[c].user /\ m.org = org
                                 /\ RoleHasPermission(m.role, PermissionFor[given.ops[c]])
  <2>1. PICK m \in members : /\ m.user = call[c].user /\ m.org = org
                             /\ RoleHasPermission(m.role, PermissionFor[given.ops[c]])
    BY <1>4
  <2>2. <<m.org, m.role>> \in held[c]
    BY <1>1, <2>1 DEF RolesOf, MembershipsOf
  <2>3. m.role \in Roles
    BY DEF TypeOK
  <2>4. Rights(c)'
    BY <1>4, <2>1, <2>2, <2>3 DEF Rights
  <2>5. call'[c].answer = None
    BY <1>1, <1>4, Fields DEF Moves
  <2> QED
    BY <1>4, <2>4, <2>5 DEF RightsAt
<1> QED
  BY <1>2, <1>3, <1>4, DecideDoes

LEMMA RightsStep ==
    ASSUME TypeOK, TypeOK', RightsInv, NEW c \in Clients, Step(c) \/ Fail(c)
    PROVE  RightsAt(c)'
<1> USE DEF At
<1>0. given' = given /\ RightsAt(c) /\ PathOf(c)
  BY Footprint DEF RightsInv, TypeOK
<1>1. CASE ~Is(c, ProjectOps)
  BY <1>0, <1>1 DEF RightsAt, Is
<1>2. CASE Is(c, ProjectOps)
  <2>1. CASE Authenticate(c)
    <3>1. CASE /\ \E e \in {"AuthenticationRequired", "InvalidToken", "ExpiredToken",
                            "DisabledUser"} : Raise(c, e)
               /\ UNCHANGED held
      BY <1>0, <2>1, <3>1, RightsRaised DEF Authenticate
    <3>2. CASE /\ Moves(c, {"pc", "user", "token"}) /\ call'[c].pc = "authenticated"
               /\ held' = [held EXCEPT ![c] = RolesOf(call'[c].user)]
      <4>1. call'[c].answer = call[c].answer /\ call'[c].org = call[c].org
        BY <3>2, Fields DEF Moves
      <4>2. call[c].pc = "idle" /\ members' = members
        BY <2>1 DEF Authenticate, Tables
      <4>3. held'[c] = RolesOf(call'[c].user)
        BY <3>2 DEF TypeOK
      <4>4. RolesOf(call[c].user)' \subseteq held'[c]
        BY <4>2, <4>3 DEF RolesOf, MembershipsOf
      <4>5. call[c].answer = None /\ call[c].org = None
        BY <1>0, <1>2, <4>2 DEF RightsAt
      <4> QED
        BY <3>2, <4>1, <4>4, <4>5, NoneAssumption DEF RightsAt
    <3> QED
      BY <2>1, <3>1, <3>2, AuthenticateDoes
  <2>2. CASE AuthorizeOrganization(c) \/ AuthorizeProject(c)
    <3>1. held' = held /\ call[c].pc = "authenticated"
      BY <2>2 DEF AuthorizeOrganization, AuthorizeProject, History
    <3>2. CASE Raise(c, "ProjectNotFound")
      BY <1>0, <3>1, <3>2, RightsRaised
    <3>3. ASSUME NEW org, NEW project, NEW missing \in Hidden, Decide(c, org, project, missing)
          PROVE  RightsAt(c)'
      BY <1>0, <1>2, <3>1, <3>3, RightsDecided
    <3> QED
      BY <2>2, <3>2, <3>3 DEF AuthorizeOrganization, AuthorizeProject, Hidden
  <2>3. CASE CreateProject(c) \/ UpdateProject(c) \/ GetProject(c)
    <3>1. /\ held' = held /\ call[c].pc = "authorized"
          /\ Goto(c, "ending") \/ Raise(c, "DuplicateProject")
      BY <2>3 DEF CreateProject, UpdateProject, GetProject, History
    <3>2. CASE Goto(c, "ending")
      <4>1. Moves(c, {"pc"}) /\ call'[c].pc = "ending"
        BY <3>2, GotoMoves
      <4>2. call'[c].answer = call[c].answer /\ call'[c].org = call[c].org
        BY <4>1, Fields DEF Moves
      <4>3. Rights(c) /\ call[c].answer = None
        BY <1>0, <1>2, <3>1 DEF RightsAt
      <4>4. Rights(c)'
        BY <1>0, <3>1, <4>2, <4>3, RightsStay
      <4> QED
        BY <4>1, <4>2, <4>3, <4>4 DEF RightsAt
    <3> QED
      BY <1>0, <3>1, <3>2, RightsRaised
  <2>4. CASE Refuse(c) \/ Fail(c)
    <3>1. /\ held' = held /\ call[c].pc # "done"
          /\ \/ call[c].pc = "refusing" /\ Raise(c, call[c].answer)
             \/ Raise(c, "Crash")
      BY <2>4 DEF Refuse, Fail, History
    <3>2. call[c].pc = "refusing" => call[c].answer = "PermissionDenied"
      BY <1>0, <1>2 DEF RightsAt
    <3> QED
      BY <1>0, <3>1, <3>2, RightsRaised
  <2>5. CASE End(c)
    <3>1. /\ call[c].pc = "ending" /\ Moves(c, {"pc", "answer", "audits"})
          /\ call'[c].pc = "done" /\ held' = held
      BY <2>5, EndDoes DEF History
    <3>2. call'[c].org = call[c].org
      BY <3>1, Fields DEF Moves
    <3>3. Rights(c)'
      BY <1>0, <1>2, <3>1, <3>2, RightsStay DEF RightsAt
    <3> QED
      BY <3>1, <3>3 DEF RightsAt
  <2>6. ~(BuildKey(c) \/ Enforce(c) \/ StartLogin(c) \/ Consume(c) \/ Exchange(c) \/ LookupUser(c)
          \/ FlushUser(c) \/ CommitUser(c) \/ IssueToken(c) \/ LockUser(c) \/ CheckMemberships(c)
          \/ CommitOrganization(c))
    BY <1>0, <1>2 DEF BuildKey, Enforce, StartLogin, Consume, Exchange, LookupUser, FlushUser,
       CommitUser, IssueToken, LockUser, CheckMemberships, CommitOrganization, PathOf, Is,
       ProjectOps
  <2> QED
    BY <2>1, <2>2, <2>3, <2>4, <2>5, <2>6 DEF Step
<1> QED
  BY <1>1, <1>2

LEMMA RightsNext == ASSUME TypeOK, TypeOK', RightsInv, [Next]_vars PROVE RightsInv'
<1>1. ASSUME NEW c \in Clients, Step(c) \/ Fail(c) PROVE RightsInv'
  <2>1. RightsAt(c)'
    BY <1>1, RightsStep
  <2>2. ASSUME NEW d \in Clients \ {c} PROVE RightsAt(d)'
    <3>1. /\ given' = given /\ call'[d] = call[d] /\ RightsAt(d)
      BY <1>1, Footprint, OthersKept DEF RightsInv
    <3>2. CASE CommitOrganization(c)
      <4>1. /\ members' = members \cup {Membership(orgs + 1, call[c].user, "owner")}
            /\ held' = [x \in Clients |-> IF call[x].user = call[c].user
                                          THEN held[x] \cup {<<orgs + 1, "owner">>} ELSE held[x]]
        BY <3>2, CommitOrganizationDoes
      <4> DEFINE m == Membership(orgs + 1, call[c].user, "owner")
      <4>2. m.user = call[c].user /\ m.org = orgs + 1 /\ m.role = "owner"
        BY DEF Membership
      <4> HIDE DEF m
      <4>3. /\ held'[d] = IF call[d].user = call[c].user
                          THEN held[d] \cup {<<orgs + 1, "owner">>} ELSE held[d]
            /\ members' = members \cup {m}
        BY <4>1 DEF m
      <4>4. ASSUME call[d].pc = "authenticated", Is(d, ProjectOps)
            PROVE  RolesOf(call[d].user)' \subseteq held'[d]
        <5>1. RolesOf(call[d].user) \subseteq held[d]
          BY <3>1, <4>4 DEF RightsAt
        <5> QED
          BY <3>1, <4>2, <4>3, <5>1 DEF RolesOf, MembershipsOf
      <4> QED
        BY <3>1, <4>3, <4>4, RightsKept DEF RightsAt, Is
    <3>3. CASE ~CommitOrganization(c)
      <4>1. members' = members /\ held'[d] = held[d]
        BY <1>1, <3>3, Footprint, AuthenticateDoes DEF TypeOK
      <4>2. Is(d, ProjectOps) /\ call[d].pc = "authenticated"
            => RolesOf(call[d].user)' \subseteq held'[d]
        BY <3>1, <4>1 DEF RightsAt, RolesOf, MembershipsOf
      <4> QED
        BY <3>1, <4>1, <4>2, RightsKept DEF RightsAt, Is
    <3> QED
      BY <3>2, <3>3
  <2> QED
    BY <2>1, <2>2 DEF RightsInv
<1>2. CASE Operator
  <2>1. /\ given' = given /\ call' = call
        /\ held' = [c \in Clients |->
                      held[c] \cup {<<m.org, m.role>> :
                                      m \in {x \in members' : x.user = call[c].user}}]
    BY <1>2, OperatorDoes
  <2>2. ASSUME NEW d \in Clients PROVE RightsAt(d)'
    <3>1. held'[d] = held[d] \cup {<<m.org, m.role>> :
                                     m \in {x \in members' : x.user = call[d].user}}
      BY <2>1
    <3>2. RolesOf(call[d].user)' \subseteq held'[d]
      BY <2>1, <3>1 DEF RolesOf, MembershipsOf
    <3> QED
      BY <2>1, <3>1, <3>2, RightsKept DEF RightsInv
  <2> QED
    BY <2>2 DEF RightsInv
<1>3. CASE Tick \/ UNCHANGED vars
  <2>1. given' = given /\ call' = call /\ held' = held /\ members' = members
    BY <1>3 DEF Tick, Tables, History, vars
  <2>2. \A d : RolesOf(call[d].user)' = RolesOf(call[d].user)
    BY <2>1 DEF RolesOf, MembershipsOf
  <2> QED
    BY <2>1, <2>2 DEF RightsInv, RightsAt, Rights, Is
<1> QED
  BY <1>1, <1>2, <1>3 DEF Next

-----------------------------------------------------------------------------
(* Projects                                                                *)

LEMMA ProjectsNext ==
    ASSUME TypeOK, TypeOK', OneProjectPerSlug, [Next]_vars
    PROVE  OneProjectPerSlug'
<1>1. \A p \in DOMAIN projects' : projects'[p].org \in 1..orgs'
  <2> DEFINE S == [org : 1..orgs', slug : Slugs, name : Clients \cup {None}]
  <2>1. projects' \in Seq(S)
    BY DEF TypeOK
  <2>2. \A p \in DOMAIN projects' : projects'[p] \in S
    <3> HIDE DEF S
    <3> QED
      BY <2>1
  <2> QED
    BY <2>2
<1>2. ASSUME NEW p \in DOMAIN projects', NEW q \in DOMAIN projects',
             projects'[p].org = projects'[q].org, projects'[p].slug = projects'[q].slug
      PROVE  p = q
  <2>1. CASE projects' = projects
    BY <1>2, <2>1 DEF OneProjectPerSlug
  <2>2. ASSUME NEW c \in Clients, CreateProject(c), projects' # projects PROVE p = q
    <3>1. PICK new \in Slugs :
              /\ ~ \E i \in DOMAIN projects : /\ projects[i].org = call[c].org
                                              /\ projects[i].slug = new
              /\ projects' = Append(projects, Project(call[c].org, new, c))
      BY <2>2 DEF CreateProject
    <3> DEFINE row == Project(call[c].org, new, c)
               n == Len(projects) + 1
    <3>2. row.org = call[c].org /\ row.slug = new
      BY DEF Project
    <3> HIDE DEF row
    <3>3. /\ DOMAIN projects' = DOMAIN projects \cup {n} /\ n \notin DOMAIN projects
          /\ projects'[n] = row
          /\ \A i \in DOMAIN projects : projects'[i] = projects[i]
      BY <3>1, SMTT(30) DEF TypeOK, row
    <3> HIDE DEF n
    <3> QED
      BY <1>2, <3>1, <3>2, <3>3 DEF OneProjectPerSlug
  <2>3. ASSUME NEW c \in Clients, UpdateProject(c) PROVE p = q
    <3>1. projects' = [projects EXCEPT ![call[c].project].name = c]
      BY <2>3 DEF UpdateProject
    <3>2. /\ DOMAIN projects' = DOMAIN projects
          /\ \A i \in DOMAIN projects : /\ projects'[i].org = projects[i].org
                                        /\ projects'[i].slug = projects[i].slug
      BY <3>1
    <3> QED
      BY <1>2, <3>2 DEF OneProjectPerSlug
  <2>4. CASE Tick \/ Operator \/ UNCHANGED vars
    <3>1. projects' = projects
      BY <2>4 DEF Tick, Operator, Tables, vars
    <3> QED
      BY <2>1, <3>1
  <2> QED
    BY <2>1, <2>2, <2>3, <2>4, Footprint DEF Next
<1> QED
  BY <1>1, <1>2 DEF OneProjectPerSlug

-----------------------------------------------------------------------------
(* Organizations                                                           *)

LEMMA WayStep ==
    ASSUME TypeOK, NEW c \in Clients, Step(c) \/ Fail(c)
    PROVE  /\ call[c].pc = "ending" => call'[c].pc = "done" /\ call'[c].user = call[c].user
           /\ call'[c].pc = "locked" => LockUser(c)
           /\ call'[c].pc = "clear" => CheckMemberships(c)
           /\ call[c].pc # "done"
           /\ call'[c].audits \subseteq {"login_success"} \cup call[c].audits
<1> USE DEF At
<1>1. \A pc : Goto(c, pc) => Moves(c, {"pc"}) /\ call'[c].pc = pc
  BY GotoMoves
<1>2. \A e : Raise(c, e) => /\ Moves(c, {"pc", "answer", "audits"}) /\ call'[c].pc = "done"
                            /\ call'[c].audits = {}
  BY RaiseMoves
<1>3. \A a, e : RecordRefusal(c, a, e) => Moves(c, {"pc", "answer"}) /\ call'[c].pc = "refusing"
  BY RefusalDoes
<1>4. /\ \A fields : Moves(c, fields) /\ "audits" \notin fields => call'[c].audits = call[c].audits
      /\ \A fields : Moves(c, fields) /\ "user" \notin fields => call'[c].user = call[c].user
  BY Fields DEF Moves
<1>5. CASE BuildKey(c) \/ Enforce(c) \/ Exchange(c) \/ LookupUser(c) \/ CommitUser(c)
  <2>1. /\ call[c].pc \notin {"ending", "done"}
        /\ \/ \E e : Raise(c, e)
           \/ Goto(c, "unknown")
           \/ /\ \E fields : Moves(c, fields) /\ "audits" \notin fields
              /\ call'[c].pc \in {"keyed", "admitted", "done", "identified", "known"}
    BY <1>5, BuildKeyDoes, EnforceDoes, ExchangeDoes, LookupUserDoes, CommitUserDoes
  <2> QED
    BY <1>1, <1>2, <1>4, <2>1
<1>6. CASE IssueToken(c) \/ Authenticate(c) \/ CommitOrganization(c)
  <2>1. /\ call[c].pc \notin {"ending", "done"}
        /\ \/ \E e : Raise(c, e)
           \/ /\ call'[c].pc \in {"ending", "authenticated"}
              /\ \/ call'[c].audits = {"login_success"}
                 \/ \E fields : Moves(c, fields) /\ "audits" \notin fields
    BY <1>6, IssueTokenDoes, AuthenticateDoes, CommitOrganizationDoes
  <2> QED
    BY <1>2, <1>4, <2>1
<1>7. CASE End(c)
  <2>1. /\ call[c].pc = "ending" /\ call'[c].pc = "done" /\ call'[c].audits = {}
        /\ Moves(c, {"pc", "answer", "audits"})
    BY <1>7, EndDoes
  <2> QED
    BY <1>4, <2>1
<1>8. CASE AuthorizeOrganization(c) \/ AuthorizeProject(c)
  <2>1. /\ call[c].pc \notin {"ending", "done"}
        /\ \/ \E e : Raise(c, e)
           \/ \E a, e : RecordRefusal(c, a, e)
           \/ Moves(c, {"pc", "answer", "org"}) /\ call'[c].pc = "done"
           \/ Moves(c, {"pc", "org", "project"}) /\ call'[c].pc = "authorized"
    BY <1>8, DecideDoes DEF AuthorizeOrganization, AuthorizeProject
  <2> QED
    BY <1>2, <1>3, <1>4, <2>1
<1>9. CASE StartLogin(c) \/ Consume(c) \/ FlushUser(c) \/ CreateProject(c) \/ UpdateProject(c)
           \/ GetProject(c) \/ Refuse(c)
  <2>1. /\ call[c].pc \notin {"ending", "done"}
        /\ \/ \E pc \in {"ending", "consumed", "created"} : Goto(c, pc)
           \/ \E e : Raise(c, e)
           \/ \E a, e : RecordRefusal(c, a, e)
    BY <1>9 DEF StartLogin, Consume, FlushUser, CreateProject, UpdateProject, GetProject, Refuse
  <2> QED
    BY <1>1, <1>2, <1>3, <1>4, <2>1
<1>10. CASE Fail(c)
  <2>1. call[c].pc # "done" /\ Raise(c, "Crash")
    BY <1>10 DEF Fail
  <2>2. call'[c].pc = "done" /\ call'[c].audits = {} /\ Moves(c, {"pc", "answer", "audits"})
    BY <1>2, <2>1
  <2> QED
    BY <1>4, <2>1, <2>2
<1>11. CASE LockUser(c)
  <2>1. call[c].pc = "admitted" /\ Moves(c, {"pc"}) /\ call'[c].pc = "locked"
    BY <1>1, <1>11 DEF LockUser
  <2> QED
    BY <1>4, <1>11, <2>1
<1>12. CASE CheckMemberships(c)
  <2>1. /\ call[c].pc = "locked"
        /\ \E e : Raise(c, e) \/ Goto(c, "clear")
    BY <1>12 DEF CheckMemberships
  <2> QED
    BY <1>1, <1>2, <1>4, <1>12, <2>1
<1> QED
  BY <1>5, <1>6, <1>7, <1>8, <1>9, <1>10, <1>11, <1>12 DEF Step

\* Events are only added, and only those of the request.
LEMMA AuditStep ==
    ASSUME TypeOK, NEW c \in Clients, Step(c) \/ Fail(c)
    PROVE  \/ audit' = audit
           \/ audit' = audit \cup {AuditEvent("login_failure", c)} /\ Consume(c)
           \/ /\ audit' = audit \cup {AuditEvent("authorization_denied", c)}
              /\ AuthorizeOrganization(c) \/ AuthorizeProject(c)
           \/ audit' = audit \cup {AuditEvent("organization_created", c)} /\ CommitOrganization(c)
           \/ audit' = audit \cup {AuditEvent(a, c) : a \in call[c].audits} /\ End(c)
<1>1. \A a, e : RecordRefusal(c, a, e) => audit' = audit \cup {AuditEvent(a, c)}
  BY DEF RecordRefusal
<1>2. CASE Consume(c)
  BY <1>1, <1>2 DEF Consume
<1>3. CASE AuthorizeOrganization(c) \/ AuthorizeProject(c)
  BY <1>1, <1>3 DEF AuthorizeOrganization, AuthorizeProject, Decide
<1>4. CASE CommitOrganization(c) \/ End(c)
  BY <1>4 DEF CommitOrganization, End
<1> QED
  BY <1>2, <1>3, <1>4, Footprint

LEMMA EventFields ==
    ASSUME NEW a, NEW c
    PROVE  AuditEvent(a, c).action = a /\ AuditEvent(a, c).by = c
  BY DEF AuditEvent

\* What says that an organization was created
LEMMA CreatedEvents ==
    ASSUME TypeOK, OrganizationInv, NEW c \in Clients, Step(c) \/ Fail(c), NEW a
    PROVE  (a \in audit' /\ a.action = "organization_created") <=>
               \/ a \in audit /\ a.action = "organization_created"
               \/ CommitOrganization(c) /\ a = AuditEvent("organization_created", c)
<1>1. CASE CommitOrganization(c)
  <2>1. audit' = audit \cup {AuditEvent("organization_created", c)}
    BY <1>1 DEF CommitOrganization
  <2> QED
    BY <1>1, <2>1, EventFields
<1>2. CASE ~CommitOrganization(c)
  <2>1. CASE audit' = audit
    BY <1>2, <2>1
  <2>2. ASSUME NEW e \in {"login_failure", "authorization_denied"},
               audit' = audit \cup {AuditEvent(e, c)}
        PROVE  (a \in audit' /\ a.action = "organization_created") <=>
                   a \in audit /\ a.action = "organization_created"
    BY <2>2, EventFields
  <2>3. CASE audit' = audit \cup {AuditEvent(e, c) : e \in call[c].audits}
    <3>1. call[c].audits \subseteq {"login_success"}
      BY DEF OrganizationInv
    <3> QED
      BY <1>2, <2>3, <3>1, EventFields
  <2> QED
    BY <1>2, <2>1, <2>2, <2>3, AuditStep
<1> QED
  BY <1>1, <1>2

LEMMA CreatorsStep ==
    ASSUME TypeOK, OrganizationInv, NEW c \in Clients, Step(c) \/ Fail(c)
    PROVE  /\ Creators'
           /\ \A a \in audit : a.action = "organization_created" =>
                  call'[a.by].user = call[a.by].user
           /\ DOMAIN users \subseteq DOMAIN users'
<1>0. /\ \A d \in Clients \ {c} : call'[d] = call[d]
      /\ given' = given
  BY Footprint, OthersKept
<1>1. DOMAIN users \subseteq DOMAIN users'
  <2>1. CASE CommitUser(c)
    <3>1. users' = Append(users, User(call[c].github))
      BY <2>1 DEF CommitUser
    <3> QED
      BY <3>1 DEF TypeOK
  <2> QED
    BY <2>1, Footprint
<1>2. ASSUME NEW a \in audit, a.action = "organization_created"
      PROVE  /\ call'[a.by].user = call[a.by].user /\ a.by \in Clients
             /\ a = AuditEvent("organization_created", a.by)
             /\ Is(a.by, {"onboard"})' /\ call'[a.by].pc \in {"ending", "done"}
             /\ call'[a.by].user \in DOMAIN users'
  <2>1. /\ a.by \in Clients /\ a = AuditEvent("organization_created", a.by)
        /\ Is(a.by, {"onboard"}) /\ call[a.by].pc \in {"ending", "done"}
        /\ call[a.by].user \in DOMAIN users
    BY <1>2 DEF OrganizationInv, Creators
  <2>2. call'[a.by].user = call[a.by].user /\ call'[a.by].pc \in {"ending", "done"}
    BY <1>0, <2>1, WayStep
  <2> QED
    BY <1>0, <1>1, <2>1, <2>2 DEF Is
<1>3. ASSUME CommitOrganization(c)
      PROVE  LET a == AuditEvent("organization_created", c)
             IN  /\ a.by \in Clients /\ a = AuditEvent("organization_created", a.by)
                 /\ Is(a.by, {"onboard"})' /\ call'[a.by].pc \in {"ending", "done"}
                 /\ call'[a.by].user \in DOMAIN users'
  <2>1. /\ Is(c, {"onboard"}) /\ call[c].pc = "clear" /\ call'[c].pc = "ending"
        /\ Moves(c, {"pc", "org", "token"}) /\ users' = users
    BY <1>3, CommitOrganizationDoes DEF At
  <2>2. call'[c].user = call[c].user
    BY <2>1, Fields DEF Moves
  <2>3. call[c].user \in DOMAIN users
    BY <2>1 DEF TypeOK, RowsOf
  <2>4. AuditEvent("organization_created", c).by = c
    BY EventFields
  <2> QED
    BY <1>0, <2>1, <2>2, <2>3, <2>4 DEF Is
<1>4. Creators'
  <2> SUFFICES ASSUME NEW a \in audit', a.action = "organization_created"
               PROVE  /\ a.by \in Clients /\ a = AuditEvent("organization_created", a.by)
                      /\ Is(a.by, {"onboard"})' /\ call'[a.by].pc \in {"ending", "done"}
                      /\ call'[a.by].user \in DOMAIN users'
    BY DEF Creators, AuditEvent
  <2>1. CASE a \in audit
    BY <1>2, <2>1
  <2>2. CASE CommitOrganization(c) /\ a = AuditEvent("organization_created", c)
    BY <1>3, <2>2
  <2> QED
    BY <2>1, <2>2, CreatedEvents
<1> QED
  BY <1>1, <1>2, <1>4

\* The requests of users that create organizations: one more, or none.
LEMMA CreatedStep ==
    ASSUME TypeOK, OrganizationInv, NEW c \in Clients, Step(c) \/ Fail(c), NEW u
    PROVE  IF CommitOrganization(c) /\ u = call[c].user
           THEN Created(u)' = Created(u) \cup {AuditEvent("organization_created", c)}
           ELSE Created(u)' = Created(u)
<1> DEFINE new == AuditEvent("organization_created", c)
<1>1. ASSUME CommitOrganization(c) PROVE call'[c].user = call[c].user
  BY <1>1, CommitOrganizationDoes, Fields DEF Moves
<1>2. new.by = c
  BY EventFields
<1>3. \A a : (a \in audit' /\ a.action = "organization_created") <=>
               \/ a \in audit /\ a.action = "organization_created"
               \/ CommitOrganization(c) /\ a = new
  BY CreatedEvents
<1>4. \A a \in audit : a.action = "organization_created" => call'[a.by].user = call[a.by].user
  BY CreatorsStep
<1> HIDE DEF new
<1>5. Created(u)' = {a \in audit' : a.action = "organization_created" /\ call'[a.by].user = u}
  BY DEF Created
<1>6. CommitOrganization(c) => (new \in audit' /\ new.action = "organization_created")
  BY <1>3
<1>7. CASE CommitOrganization(c) /\ u = call[c].user
  BY <1>1, <1>2, <1>3, <1>4, <1>5, <1>6, <1>7 DEF Created, new
<1>8. CASE ~(CommitOrganization(c) /\ u = call[c].user)
  BY <1>1, <1>2, <1>3, <1>4, <1>5, <1>8 DEF Created
<1> QED
  BY <1>7, <1>8

LEMMA LocksStep ==
    ASSUME TypeOK, OrganizationInv, NEW c \in Clients, Step(c) \/ Fail(c)
    PROVE  LocksExclude'
<1>1. /\ \A d \in Clients \ {c} : call'[d] = call[d]
      /\ LocksExclude
  BY OthersKept DEF OrganizationInv
<1>2. CASE LockUser(c)
  <2>1. /\ \A d \in Clients : call[d].pc \in {"locked", "clear"} => call[d].user # call[c].user
        /\ Moves(c, {"pc"})
    BY <1>2, GotoMoves DEF LockUser
  <2>2. call'[c].user = call[c].user
    BY <2>1, Fields DEF Moves
  <2> QED
    BY <1>1, <2>1, <2>2 DEF LocksExclude
<1>3. CASE CheckMemberships(c) /\ call'[c].pc = "clear"
  <2>1. call[c].pc = "locked" /\ \E e : Raise(c, e) \/ Goto(c, "clear")
    BY <1>3 DEF CheckMemberships, At
  <2>2. call'[c].user = call[c].user
    BY <2>1, RaiseMoves, GotoMoves, Fields DEF Moves
  <2> QED
    BY <1>1, <2>1, <2>2 DEF LocksExclude
<1>4. CASE call'[c].pc \notin {"locked", "clear"}
  BY <1>1, <1>4 DEF LocksExclude
<1> QED
  BY <1>2, <1>3, <1>4, WayStep

LEMMA ClearStep ==
    ASSUME TypeOK, OrganizationInv, NEW c \in Clients, Step(c) \/ Fail(c), NEW d \in Clients,
           call'[d].pc = "clear"
    PROVE  (MembershipsOf(call[d].user) = {})'
<1>1. CASE CommitOrganization(c)
  <2> DEFINE new == Membership(orgs + 1, call[c].user, "owner")
  <2>1. call[c].pc = "clear" /\ members' = members \cup {new} /\ call'[c].pc = "ending"
    BY <1>1, CommitOrganizationDoes DEF At
  <2>2. d # c /\ call'[d] = call[d]
    BY <2>1, OthersKept
  <2>3. call[d].user # call[c].user /\ MembershipsOf(call[d].user) = {}
    BY <2>1, <2>2 DEF OrganizationInv, LocksExclude
  <2>4. new.user = call[c].user
    BY DEF Membership
  <2> HIDE DEF new
  <2> QED
    BY <2>1, <2>2, <2>3, <2>4 DEF MembershipsOf
<1>2. CASE ~CommitOrganization(c)
  <2>1. members' = members
    BY <1>2, Footprint
  <2>2. CASE d # c
    <3>1. call'[d] = call[d]
      BY <2>2, OthersKept
    <3> QED
      BY <2>1, <3>1 DEF OrganizationInv, MembershipsOf
  <2>3. CASE d = c
    <3>1. CheckMemberships(c)
      BY <2>3, WayStep
    <3>2. \A e : Raise(c, e) => call'[c].pc = "done"
      BY RaiseMoves
    <3>3. MembershipsOf(call[c].user) = {} /\ Goto(c, "clear")
      BY <2>3, <3>1, <3>2 DEF CheckMemberships
    <3>4. call'[c].user = call[c].user
      BY <3>3, GotoMoves, Fields DEF Moves
    <3> QED
      BY <2>1, <2>3, <3>3, <3>4 DEF MembershipsOf
  <2> QED
    BY <2>2, <2>3
<1> QED
  BY <1>1, <1>2

LEMMA BoundStep ==
    ASSUME TypeOK, OrganizationInv, NEW c \in Clients, Step(c) \/ Fail(c), NEW u \in DOMAIN users'
    PROVE  CreatedBound(u)'
<1>0. changes' = changes /\ changes \in Nat
  BY Footprint DEF TypeOK
<1>1. CASE CommitOrganization(c) /\ u = call[c].user
  <2> DEFINE new == AuditEvent("organization_created", c)
             row == Membership(orgs + 1, u, "owner")
  <2>1. /\ call[c].pc = "clear" /\ members' = members \cup {row} /\ users' = users
    BY <1>1, CommitOrganizationDoes DEF At
  <2>2. MembershipsOf(u) = {} /\ CreatedBound(u)
    BY <1>1, <2>1 DEF OrganizationInv
  <2>3. row.user = u
    BY DEF Membership
  <2> HIDE DEF row, new
  <2>4. MembershipsOf(u)' # {}
    BY <2>1, <2>3 DEF MembershipsOf
  <2>5. Created(u)' = Created(u) \cup {new}
    BY <1>1, CreatedStep DEF new
  <2>6. IsFiniteSet(Created(u)) /\ Cardinality(Created(u)) <= changes
    BY <1>0, <2>2, FS_CardinalityType DEF CreatedBound
  <2>7. /\ IsFiniteSet(Created(u) \cup {new})
        /\ Cardinality(Created(u) \cup {new}) <= Cardinality(Created(u)) + 1
        /\ Cardinality(Created(u)) \in Nat /\ Cardinality(Created(u) \cup {new}) \in Nat
    <3> DEFINE C == Created(u)
    <3>1. IsFiniteSet(C)
      BY <2>6
    <3> HIDE DEF C
    <3>2. /\ IsFiniteSet(C \cup {new})
          /\ Cardinality(C \cup {new}) = IF new \in C THEN Cardinality(C) ELSE Cardinality(C) + 1
      BY <3>1, FS_AddElement
    <3>3. Cardinality(C) \in Nat
      BY <3>1, FS_CardinalityType
    <3>4. Cardinality(C \cup {new}) \in Nat /\ Cardinality(C \cup {new}) <= Cardinality(C) + 1
      BY <3>2, <3>3
    <3> QED
      BY <3>2, <3>3, <3>4 DEF C
  <2>8. IsFiniteSet(Created(u)') /\ Cardinality(Created(u)') <= changes' + 1
    BY <1>0, <2>5, <2>6, <2>7
  <2> QED
    BY <2>4, <2>8 DEF CreatedBound
<1>2. CASE ~(CommitOrganization(c) /\ u = call[c].user)
  <2>1. Created(u)' = Created(u)
    BY <1>2, CreatedStep
  <2>2. CASE u \in DOMAIN users
    <3>1. CreatedBound(u)
      BY <2>2 DEF OrganizationInv
    <3>2. (MembershipsOf(u)' = {}) <=> (MembershipsOf(u) = {})
      <4>1. CASE CommitOrganization(c)
        <5> DEFINE row == Membership(orgs + 1, call[c].user, "owner")
        <5>1. members' = members \cup {row}
          BY <4>1 DEF CommitOrganization
        <5>2. row.user # u
          BY <1>2, <4>1 DEF Membership
        <5> HIDE DEF row
        <5> QED
          BY <5>1, <5>2 DEF MembershipsOf
      <4>2. CASE members' = members
        BY <4>2 DEF MembershipsOf
      <4> QED
        BY <4>1, <4>2, Footprint
    <3> QED
      BY <1>0, <2>1, <3>1, <3>2 DEF CreatedBound
  <2>3. CASE u \notin DOMAIN users
    <3>1. Created(u) = {}
      BY <2>3 DEF OrganizationInv, Creators, Created
    <3>2. IsFiniteSet(Created(u)') /\ Cardinality(Created(u)') = 0
      BY <2>1, <3>1, FS_EmptySet
    <3> QED
      BY <1>0, <3>2 DEF CreatedBound
  <2> QED
    BY <2>2, <2>3
<1> QED
  BY <1>1, <1>2

LEMMA OrganizationsNext == ASSUME TypeOK, OrganizationInv, [Next]_vars PROVE OrganizationInv'
<1>1. ASSUME NEW c \in Clients, Step(c) \/ Fail(c) PROVE OrganizationInv'
  <2>1. LocksExclude' /\ Creators'
    BY <1>1, LocksStep, CreatorsStep
  <2>2. \A d \in Clients : call'[d].pc = "clear" => (MembershipsOf(call[d].user) = {})'
    BY <1>1, ClearStep
  <2>3. \A d \in Clients : call'[d].audits \subseteq {"login_success"}
    <3>1. \A d \in Clients : call[d].audits \subseteq {"login_success"}
      BY DEF OrganizationInv
    <3>2. call'[c].audits \subseteq {"login_success"} \cup call[c].audits
      BY <1>1, WayStep
    <3> QED
      BY <1>1, <3>1, <3>2, OthersKept
  <2>4. \A u \in DOMAIN users' : CreatedBound(u)'
    BY <1>1, BoundStep
  <2> QED
    BY <2>1, <2>2, <2>3, <2>4 DEF OrganizationInv
<1>2. ASSUME given' = given, call' = call, audit' = audit, changes' \in Nat,
             DOMAIN users' = DOMAIN users,
             \A u : MembershipsOf(u) = {} => MembershipsOf(u)' = {},
             \/ changes' = changes + 1
             \/ changes' = changes /\ members' = members
      PROVE  OrganizationInv'
  <2>1. LocksExclude'
    BY <1>2 DEF OrganizationInv, LocksExclude
  <2>2. Creators'
    BY <1>2 DEF OrganizationInv, Creators, Is, AuditEvent
  <2>3. ASSUME NEW d \in Clients, call'[d].pc = "clear"
        PROVE  (MembershipsOf(call[d].user) = {})'
    <3>1. MembershipsOf(call[d].user) = {}
      BY <1>2, <2>3 DEF OrganizationInv
    <3> QED
      BY <1>2, <3>1 DEF MembershipsOf
  <2>4. ASSUME NEW u \in DOMAIN users' PROVE CreatedBound(u)'
    <3>1. CreatedBound(u) /\ Created(u)' = Created(u) /\ changes \in Nat
      BY <1>2 DEF OrganizationInv, Created, TypeOK
    <3>2. Cardinality(Created(u)) \in Nat
      BY <3>1, FS_CardinalityType DEF CreatedBound
    <3>3. changes' = changes /\ members' = members => MembershipsOf(u)' = MembershipsOf(u)
      BY DEF MembershipsOf
    <3> QED
      BY <1>2, <3>1, <3>2, <3>3 DEF CreatedBound
  <2> QED
    BY <1>2, <2>1, <2>2, <2>3, <2>4 DEF OrganizationInv
<1>3. CASE Operator
  <2>1. /\ given' = given /\ call' = call /\ audit' = audit /\ changes' = changes + 1
        /\ DOMAIN users' = DOMAIN users
        /\ \A m \in members' : \E x \in members : x.user = m.user
    BY <1>3, OperatorDoes
  <2>2. \A u : MembershipsOf(u) = {} => MembershipsOf(u)' = {}
    BY <2>1 DEF MembershipsOf
  <2>3. changes' \in Nat
    BY <2>1 DEF TypeOK
  <2> QED
    BY <1>2, <2>1, <2>2, <2>3
<1>4. CASE Tick \/ UNCHANGED vars
  <2>1. /\ given' = given /\ call' = call /\ audit' = audit /\ changes' = changes
        /\ users' = users /\ members' = members /\ changes \in Nat
    BY <1>4 DEF Tick, Tables, History, vars, TypeOK
  <2>2. \A u : MembershipsOf(u)' = MembershipsOf(u)
    BY <2>1 DEF MembershipsOf
  <2> QED
    BY <1>2, <2>1, <2>2
<1> QED
  BY <1>1, <1>3, <1>4 DEF Next

-----------------------------------------------------------------------------
(* The audit trail                                                         *)

LEMMA EventsAdded ==
    ASSUME NEW c, NEW new, audit' = audit \cup {AuditEvent(a, c) : a \in new}
    PROVE  /\ EventsOf(c)' = EventsOf(c) \cup new
           /\ \A d : d # c => EventsOf(d)' = EventsOf(d)
<1>1. \A a : AuditEvent(a, c).action = a /\ AuditEvent(a, c).by = c
  BY EventFields
<1>2. EventsOf(c)' = EventsOf(c) \cup new
  <2>1. \A e : e \in EventsOf(c)' <=> \E x \in audit' : x.by = c /\ x.action = e
    BY DEF EventsOf
  <2>2. \A e : e \in EventsOf(c) <=> \E x \in audit : x.by = c /\ x.action = e
    BY DEF EventsOf
  <2>3. ASSUME NEW e \in EventsOf(c)' PROVE e \in EventsOf(c) \cup new
    <3>1. PICK x \in audit' : x.by = c /\ x.action = e
      BY <2>1, <2>3
    <3> QED
      BY <1>1, <2>2, <3>1
  <2>4. ASSUME NEW e \in EventsOf(c) PROVE e \in EventsOf(c)'
    BY <2>1, <2>2, <2>4
  <2>5. ASSUME NEW e \in new PROVE e \in EventsOf(c)'
    <3>1. AuditEvent(e, c) \in audit'
      OBVIOUS
    <3> QED
      BY <1>1, <2>1, <3>1
  <2> QED
    BY <2>3, <2>4, <2>5
<1>3. ASSUME NEW d, d # c PROVE EventsOf(d)' = EventsOf(d)
  <2>1. {x \in audit' : x.by = d} = {x \in audit : x.by = d}
    BY <1>1, <1>3
  <2> QED
    BY <2>1 DEF EventsOf
<1> QED
  BY <1>2, <1>3

\* A request that goes on without an event
LEMMA AuditQuiet ==
    ASSUME NEW c \in Clients, NEW fields, Moves(c, fields), "audits" \notin fields,
           audit' = audit, given' = given, AuditAt(c),
           call[c].pc \notin {"done", "refusing", "ending"},
           call'[c].pc \notin {"done", "refusing", "ending"}
    PROVE  AuditAt(c)'
<1>1. call'[c].audits = call[c].audits
  BY Fields DEF Moves
<1>2. EventsOf(c)' = EventsOf(c)
  BY DEF EventsOf
<1> QED
  BY <1>1, <1>2 DEF AuditAt

\* A request that ends with an error that calls for no event
LEMMA AuditRaised ==
    ASSUME TypeOK, NEW c \in Clients, audit' = audit, given' = given, AuditAt(c),
           call'[c].pc = "done", call'[c].audits = {}, call'[c].answer \notin Refusals \cup {"ok"},
           call[c].pc \notin {"done", "refusing", "ending"}
    PROVE  AuditAt(c)'
<1>1. EventsOf(c)' = {}
  BY DEF EventsOf, AuditAt
<1>2. AuditFor(c)' = {}
  BY DEF AuditFor, Refusals
<1> QED
  BY <1>1, <1>2 DEF AuditAt

LEMMA AuditRefused ==
    ASSUME TypeOK, NEW c \in Clients, NEW action, NEW error, RecordRefusal(c, action, error),
           given' = given, AuditAt(c), call[c].pc \notin {"done", "refusing", "ending"},
           \/ /\ error \in {"OAuthStateInvalid", "GitHubAuthorizationDenied"}
              /\ action = "login_failure"
           \/ error = "PermissionDenied" /\ action = "authorization_denied"
    PROVE  AuditAt(c)'
<1>1. /\ Moves(c, {"pc", "answer"}) /\ call'[c].pc = "refusing" /\ call'[c].answer = error
      /\ audit' = audit \cup {AuditEvent(action, c)}
  BY RefusalDoes
<1>2. call'[c].audits = {}
  BY <1>1, Fields DEF Moves, AuditAt
<1>3. audit' = audit \cup {AuditEvent(a, c) : a \in {action}}
  BY <1>1
<1>4. EventsOf(c)' = EventsOf(c) \cup {action}
  BY <1>3, EventsAdded
<1>5. EventsOf(c) = {}
  BY DEF AuditAt
<1>6. AuditFor(c)' = {action}
  BY <1>1 DEF AuditFor
<1> QED
  BY <1>1, <1>2, <1>4, <1>5, <1>6 DEF AuditAt, Refusals

\* A request whose work is done
LEMMA AuditEnding ==
    ASSUME NEW c \in Clients, NEW fields, Moves(c, fields), "audits" \notin fields,
           audit' = audit, given' = given, AuditAt(c), ~Is(c, {"callback", "onboard"}),
           call[c].pc \notin {"done", "refusing", "ending"}, call'[c].pc = "ending"
    PROVE  AuditAt(c)'
<1>1. call'[c].audits = call[c].audits
  BY Fields DEF Moves
<1>2. EventsOf(c)' = EventsOf(c)
  BY DEF EventsOf
<1>3. EventsOf(c) = {} /\ call[c].audits = {}
  BY DEF AuditAt
<1>4. ~Is(c, {"callback"})' /\ ~Is(c, {"onboard"})'
  BY DEF Is
<1> QED
  BY <1>1, <1>2, <1>3, <1>4 DEF AuditAt

LEMMA AuditAtStep ==
    ASSUME TypeOK, AuditInv, NEW c \in Clients, Step(c) \/ Fail(c)
    PROVE  AuditAt(c)'
<1> USE DEF At
<1>0. given' = given /\ AuditAt(c) /\ PathOf(c)
  BY Footprint DEF AuditInv, TypeOK
<1>1. \A pc : (/\ Goto(c, pc) /\ audit' = audit /\ pc \notin {"done", "refusing", "ending"}
               /\ call[c].pc \notin {"done", "refusing", "ending"}) => AuditAt(c)'
  BY <1>0, GotoMoves, AuditQuiet
<1>2. \A e : (/\ Raise(c, e) /\ audit' = audit /\ e \notin Refusals \cup {"ok"}
              /\ call[c].pc \notin {"done", "refusing", "ending"}) => AuditAt(c)'
  BY <1>0, RaiseMoves, AuditRaised
<1>3. (/\ Goto(c, "ending") /\ audit' = audit /\ ~Is(c, {"callback", "onboard"})
       /\ call[c].pc \notin {"done", "refusing", "ending"}) => AuditAt(c)'
  BY <1>0, GotoMoves, AuditEnding
<1>4. \A e \in {"OAuthStateInvalid", "GitHubAuthorizationDenied"} :
          RecordRefusal(c, "login_failure", e) /\ call[c].pc = "admitted" => AuditAt(c)'
  BY <1>0, AuditRefused
<1>5. CASE BuildKey(c) \/ CommitUser(c)
  <2>1. /\ call[c].pc \notin {"done", "refusing", "ending"} /\ audit' = audit
        /\ call'[c].pc \notin {"done", "refusing", "ending"}
        /\ Moves(c, {"pc", "key"}) \/ Moves(c, {"pc", "user"})
    BY <1>5, BuildKeyDoes, CommitUserDoes DEF Rest
  <2> QED
    BY <1>0, <2>1, AuditQuiet
<1>6. CASE Enforce(c)
  <2>1. call[c].pc = "keyed" /\ audit' = audit
    BY <1>6, EnforceDoes
  <2>2. CASE Moves(c, {"pc", "key"}) /\ call'[c].pc = "admitted"
    BY <1>0, <2>1, <2>2, AuditQuiet
  <2>3. CASE /\ Moves(c, {"pc", "answer", "retry", "at"}) /\ call'[c].pc = "done"
             /\ call'[c].answer = "RateLimited"
    <3>1. call'[c].audits = {}
      BY <1>0, <2>1, <2>3, Fields DEF Moves, AuditAt
    <3>2. "RateLimited" \notin Refusals \cup {"ok"}
      BY DEF Refusals
    <3> QED
      BY <1>0, <2>1, <2>3, <3>1, <3>2, AuditRaised
  <2>4. CASE Raise(c, "RateLimiterUnavailable")
    BY <1>2, <2>1, <2>4 DEF Refusals
  <2> QED
    BY <1>6, <2>2, <2>3, <2>4, EnforceDoes
<1>7. CASE StartLogin(c)
  <2>1. /\ Is(c, {"login"}) /\ call[c].pc = "admitted" /\ audit' = audit
        /\ Goto(c, "ending") \/ Raise(c, "OAuthStateStoreUnavailable")
    BY <1>7 DEF StartLogin
  <2>2. ~Is(c, {"callback", "onboard"})
    BY <2>1 DEF Is
  <2> QED
    BY <1>2, <1>3, <2>1, <2>2 DEF Refusals
<1>8. CASE Consume(c)
  <2>1. /\ call[c].pc = "admitted"
        /\ \/ \E e \in {"OAuthStateInvalid", "GitHubAuthorizationDenied"} :
                  RecordRefusal(c, "login_failure", e)
           \/ /\ audit' = audit
              /\ \/ Raise(c, "MissingAuthorizationCode") \/ Raise(c, "OAuthStateStoreUnavailable")
                 \/ Goto(c, "consumed")
    BY <1>8 DEF Consume
  <2> QED
    BY <1>1, <1>2, <1>4, <2>1 DEF Refusals
<1>9. CASE Exchange(c)
  <2>1. /\ call[c].pc = "consumed" /\ audit' = audit
        /\ \/ Moves(c, {"pc", "github"}) /\ call'[c].pc = "identified"
           \/ \E e \in ExchangeErrors : Raise(c, e)
    BY <1>9, ExchangeDoes DEF Rest
  <2>2. CASE Moves(c, {"pc", "github"}) /\ call'[c].pc = "identified"
    BY <1>0, <2>1, <2>2, AuditQuiet
  <2>3. \A e \in ExchangeErrors : e \notin Refusals \cup {"ok"}
    BY DEF ExchangeErrors, Refusals
  <2> QED
    BY <1>2, <2>1, <2>2, <2>3
<1>10. CASE LookupUser(c)
  <2>1. /\ call[c].pc = "identified" /\ audit' = audit
        /\ \/ Moves(c, {"pc", "user"}) /\ call'[c].pc = "known"
           \/ Goto(c, "unknown")
    BY <1>10, LookupUserDoes DEF Rest
  <2> QED
    BY <1>0, <1>1, <2>1, AuditQuiet
<1>11. CASE FlushUser(c) \/ LockUser(c) \/ CheckMemberships(c)
  <2>1. /\ call[c].pc \notin {"done", "refusing", "ending"} /\ audit' = audit
        /\ \/ \E e \in {"IntegrityError", "OrganizationAlreadyProvisioned"} : Raise(c, e)
           \/ \E pc \in {"created", "locked", "clear"} : Goto(c, pc)
    BY <1>11 DEF FlushUser, LockUser, CheckMemberships
  <2> QED
    BY <1>1, <1>2, <2>1 DEF Refusals
<1>12. CASE IssueToken(c)
  <2>1. /\ Is(c, {"callback"}) /\ call[c].pc = "known" /\ audit' = audit
        /\ call'[c].pc = "ending" /\ call'[c].audits = {"login_success"}
    BY <1>12, IssueTokenDoes DEF Rest
  <2>2. EventsOf(c)' = {}
    BY <1>0, <2>1 DEF AuditAt, EventsOf
  <2>3. Is(c, {"callback"})' /\ ~Is(c, {"onboard"})'
    BY <1>0, <2>1 DEF Is
  <2> QED
    BY <2>1, <2>2, <2>3 DEF AuditAt
<1>13. CASE Authenticate(c)
  <2>1. call[c].pc = "idle" /\ audit' = audit
    BY <1>13 DEF Authenticate
  <2>2. \/ \E e \in {"AuthenticationRequired", "InvalidToken", "ExpiredToken", "DisabledUser"} :
              Raise(c, e)
        \/ Moves(c, {"pc", "user", "token"}) /\ call'[c].pc = "authenticated"
    BY <1>13, AuthenticateDoes
  <2>3. CASE Moves(c, {"pc", "user", "token"}) /\ call'[c].pc = "authenticated"
    BY <1>0, <2>1, <2>3, AuditQuiet
  <2> QED
    BY <1>2, <2>1, <2>2, <2>3 DEF Refusals
<1>14. CASE CommitOrganization(c)
  <2>1. /\ Is(c, {"onboard"}) /\ call[c].pc = "clear" /\ call'[c].pc = "ending"
        /\ Moves(c, {"pc", "org", "token"})
        /\ audit' = audit \cup {AuditEvent("organization_created", c)}
    BY <1>14, CommitOrganizationDoes
  <2>2. call'[c].audits = {} /\ EventsOf(c) = {}
    BY <1>0, <2>1, Fields DEF Moves, AuditAt
  <2>3. audit' = audit \cup {AuditEvent(a, c) : a \in {"organization_created"}}
    BY <2>1
  <2>4. EventsOf(c)' = {"organization_created"}
    <3>1. EventsOf(c)' = EventsOf(c) \cup {"organization_created"}
      BY <2>3, EventsAdded
    <3> QED
      BY <2>2, <3>1
  <2>5. Is(c, {"onboard"})' /\ ~Is(c, {"callback"})'
    BY <1>0, <2>1 DEF Is
  <2> QED
    BY <2>1, <2>2, <2>4, <2>5 DEF AuditAt
<1>15. CASE AuthorizeOrganization(c) \/ AuthorizeProject(c)
  <2>1. call[c].pc = "authenticated"
    BY <1>15 DEF AuthorizeOrganization, AuthorizeProject
  <2>2. CASE Raise(c, "ProjectNotFound") /\ UNCHANGED audit
    BY <1>2, <2>1, <2>2 DEF Refusals
  <2>3. ASSUME NEW org, NEW project, NEW missing \in Hidden, Decide(c, org, project, missing)
        PROVE  AuditAt(c)'
    <3>1. CASE /\ Moves(c, {"pc", "answer", "org"}) /\ call'[c].pc = "done"
               /\ call'[c].answer = missing /\ UNCHANGED audit
      <4>1. call'[c].audits = {}
        BY <1>0, <2>1, <3>1, Fields DEF Moves, AuditAt
      <4>2. missing \notin Refusals \cup {"ok"}
        BY DEF Refusals, Hidden
      <4> QED
        BY <1>0, <2>1, <3>1, <4>1, <4>2, AuditRaised
    <3>2. CASE RecordRefusal(c, "authorization_denied", "PermissionDenied")
      BY <1>0, <2>1, <3>2, AuditRefused
    <3>3. CASE /\ Moves(c, {"pc", "org", "project"}) /\ call'[c].pc = "authorized"
               /\ UNCHANGED audit
      BY <1>0, <2>1, <3>3, AuditQuiet
    <3> QED
      BY <2>3, <3>1, <3>2, <3>3, DecideDoes
  <2> QED
    BY <1>15, <2>2, <2>3 DEF AuthorizeOrganization, AuthorizeProject, Hidden
<1>16. CASE CreateProject(c) \/ UpdateProject(c) \/ GetProject(c)
  <2>1. /\ call[c].pc = "authorized" /\ audit' = audit /\ ~Is(c, {"callback", "onboard"})
        /\ Goto(c, "ending") \/ Raise(c, "DuplicateProject")
    BY <1>16 DEF CreateProject, UpdateProject, GetProject, Is
  <2> QED
    BY <1>2, <1>3, <2>1 DEF Refusals
<1>17. CASE Refuse(c)
  <2>1. call[c].pc = "refusing" /\ Raise(c, call[c].answer) /\ audit' = audit
    BY <1>17 DEF Refuse
  <2>2. call'[c].pc = "done" /\ call'[c].answer = call[c].answer /\ call'[c].audits = {}
    BY <2>1, RaiseMoves
  <2>3. EventsOf(c)' = EventsOf(c) /\ AuditFor(c)' = AuditFor(c)
    BY <1>0, <2>1, <2>2 DEF EventsOf, AuditFor, Is
  <2> QED
    BY <1>0, <2>1, <2>2, <2>3 DEF AuditAt
<1>18. CASE Fail(c)
  <2>1. call'[c].pc = "done" /\ call'[c].answer = "Crash" /\ call'[c].audits = {}
    BY <1>18, RaiseMoves DEF Fail
  <2> QED
    BY <2>1 DEF AuditAt
<1>19. CASE End(c)
  <2>1. /\ call[c].pc = "ending" /\ call'[c].pc = "done" /\ call'[c].answer = "ok"
        /\ call'[c].audits = {}
        /\ audit' = audit \cup {AuditEvent(a, c) : a \in call[c].audits}
    BY <1>19, EndDoes
  <2>2. EventsOf(c)' = EventsOf(c) \cup call[c].audits
    BY <2>1, EventsAdded
  <2>3. AuditFor(c)' = IF Is(c, {"callback"}) THEN {"login_success"}
                       ELSE IF Is(c, {"onboard"}) THEN {"organization_created"} ELSE {}
    BY <1>0, <2>1 DEF AuditFor, Is
  <2>4. ~(Is(c, {"callback"}) /\ Is(c, {"onboard"}))
    BY DEF Is
  <2>5. /\ EventsOf(c) = IF Is(c, {"onboard"}) THEN {"organization_created"} ELSE {}
        /\ call[c].audits = IF Is(c, {"callback"}) THEN {"login_success"} ELSE {}
    BY <1>0, <2>1 DEF AuditAt
  <2>6. EventsOf(c)' = AuditFor(c)'
    BY <2>2, <2>3, <2>4, <2>5
  <2> QED
    BY <2>1, <2>6 DEF AuditAt
<1> QED
  BY <1>5, <1>6, <1>7, <1>8, <1>9, <1>10, <1>11, <1>12, <1>13, <1>14, <1>15, <1>16, <1>17, <1>18,
     <1>19 DEF Step

LEMMA AuditNext == ASSUME TypeOK, AuditInv, [Next]_vars PROVE AuditInv'
<1>1. ASSUME NEW d \in Clients, given' = given, call'[d] = call[d], EventsOf(d)' = EventsOf(d)
      PROVE  AuditAt(d)'
  <2>1. AuditFor(d)' = AuditFor(d)
    BY <1>1 DEF AuditFor, Is
  <2> QED
    BY <1>1, <2>1 DEF AuditInv, AuditAt, Is
<1>2. ASSUME NEW c \in Clients, Step(c) \/ Fail(c) PROVE AuditInv'
  <2>1. AuditAt(c)'
    BY <1>2, AuditAtStep
  <2>2. ASSUME NEW d \in Clients \ {c} PROVE AuditAt(d)'
    <3>1. given' = given /\ call'[d] = call[d]
      BY <1>2, Footprint, OthersKept
    <3>2. audit' = audit \/ \E new : audit' = audit \cup {AuditEvent(a, c) : a \in new}
      <4>1. \A e : {AuditEvent(a, c) : a \in {e}} = {AuditEvent(e, c)}
        OBVIOUS
      <4>2. CASE \E e : audit' = audit \cup {AuditEvent(e, c)}
        BY <4>1, <4>2
      <4> QED
        BY <1>2, <4>2, AuditStep
    <3>3. audit' = audit => EventsOf(d)' = EventsOf(d)
      BY DEF EventsOf
    <3>4. EventsOf(d)' = EventsOf(d)
      BY <3>2, <3>3, EventsAdded
    <3> QED
      BY <1>1, <3>1, <3>4
  <2> QED
    BY <2>1, <2>2 DEF AuditInv
<1>3. CASE Tick \/ Operator \/ UNCHANGED vars
  <2>1. given' = given /\ call' = call /\ audit' = audit
    BY <1>3 DEF Tick, Operator, vars
  <2>2. \A d : EventsOf(d)' = EventsOf(d)
    BY <2>1 DEF EventsOf
  <2> QED
    BY <1>1, <2>1, <2>2 DEF AuditInv
<1> QED
  BY <1>2, <1>3 DEF Next

-----------------------------------------------------------------------------
(* Rate limits                                                             *)

LEMMA Division ==
    ASSUME NEW a \in Nat, NEW b \in Nat \ {0}
    PROVE  /\ a \div b \in Nat /\ a % b \in Nat /\ a % b < b
           /\ a = b * (a \div b) + (a % b)
  OBVIOUS

LEMMA Quotient ==
    ASSUME NEW a \in Nat, NEW b \in Nat \ {0}, NEW q \in Nat, b * q <= a
    PROVE  q <= a \div b
  OBVIOUS

LEMMA Products ==
    /\ \A a, b \in Nat : a * b \in Nat /\ a * b = b * a /\ (a + 1) * b = a * b + b
    /\ \A a, b, c \in Nat : a <= b => a * c <= b * c
    /\ \A a, b \in Nat : \A c \in Nat \ {0} : a * c <= b * c => a <= b
<1>1. ASSUME NEW a \in Nat, NEW b \in Nat
      PROVE  a * b \in Nat /\ a * b = b * a /\ (a + 1) * b = a * b + b
  OBVIOUS
<1>2. ASSUME NEW a \in Nat, NEW b \in Nat, NEW c \in Nat, a <= b PROVE a * c <= b * c
  BY <1>2
<1>3. ASSUME NEW a \in Nat, NEW b \in Nat, NEW c \in Nat \ {0}, a * c <= b * c PROVE a <= b
  BY <1>3
<1> QED
  BY <1>1, <1>2, <1>3

LEMMA WindowIs == Window \in Nat \ {0}
  BY TimeAssumption DEF Window

\* The rest of a window, cut to whole seconds, loses less than one second.
LEMMA RetryIsSound ==
    ASSUME NEW t \in Nat
    PROVE  /\ RetryAfter(t) \in 1..WindowSeconds
           /\ (t + (RetryAfter(t) + 1) * Second) \div Window > t \div Window
<1> DEFINE W == Window
           S == Second
           left == W - (t % W)
           q == left \div S
           r == RetryAfter(t)
           n == t \div W
<1>1. /\ W \in Nat \ {0} /\ S \in Nat \ {0} /\ WindowSeconds \in Nat \ {0}
      /\ W = WindowSeconds * S
  BY WindowIs, TimeAssumption DEF Window
<1>2. r = IF q < 1 THEN 1 ELSE q
  BY DEF RetryAfter
<1> HIDE DEF W, S, r
<1>3. n \in Nat /\ t % W \in Nat /\ t % W < W /\ t = W * n + (t % W)
  BY <1>1, Division
<1>4. left \in Nat /\ left <= W
  BY <1>1, <1>3
<1> HIDE DEF left, n
<1>5. q \in Nat /\ left = S * q + (left % S) /\ left % S \in Nat /\ left % S < S
  BY <1>1, <1>4, Division
<1> HIDE DEF q
<1>6. q * S <= WindowSeconds * S
  BY <1>1, <1>4, <1>5, Products
<1>7. q <= WindowSeconds
  BY <1>1, <1>5, <1>6, Products
<1>8. r \in 1..WindowSeconds /\ r \in Nat /\ q <= r
  BY <1>1, <1>2, <1>5, <1>7
<1>9. left < (r + 1) * S
  <2>1. (q + 1) * S = S * q + S
    BY <1>1, <1>5, Products
  <2>2. left < (q + 1) * S
    BY <1>1, <1>4, <1>5, <2>1
  <2>3. (q + 1) * S <= (r + 1) * S /\ (q + 1) * S \in Nat /\ (r + 1) * S \in Nat
    BY <1>1, <1>5, <1>8, Products
  <2> QED
    BY <1>4, <2>2, <2>3
<1>10. W * (n + 1) <= t + (r + 1) * S
  <2>1. W * (n + 1) = W * n + W /\ W * n \in Nat /\ (r + 1) * S \in Nat
    BY <1>1, <1>3, <1>8, Products
  <2>2. t + left = W * n + W
    BY <1>1, <1>3, <2>1 DEF left
  <2> QED
    BY <1>4, <1>9, <2>1, <2>2
<1>11. n + 1 <= (t + (r + 1) * S) \div W
  <2> DEFINE a == t + (r + 1) * S
             m == n + 1
  <2>1. a \in Nat /\ m \in Nat /\ W * m <= a
    BY <1>1, <1>3, <1>8, <1>10, Products
  <2> HIDE DEF a, m
  <2>2. m <= a \div W
    BY <1>1, <2>1, Quotient
  <2> QED
    BY <2>2 DEF a, m
<1>12. (t + (r + 1) * S) \div W \in Nat
  <2>1. t + (r + 1) * S \in Nat
    BY <1>1, <1>8, Products
  <2> QED
    BY <1>1, <2>1, Division
<1>13. (t + (r + 1) * S) \div W > n
  BY <1>3, <1>11, <1>12
<1> QED
  BY <1>8, <1>13 DEF W, S, r, n

\* Only the limiter says "RateLimited", and only a key that was built is used.
LEMMA AnswerStep ==
    ASSUME TypeOK, LimitInv, NEW c \in Clients, Step(c) \/ Fail(c)
    PROVE  /\ call'[c].pc = "keyed" => BuildKey(c)
           /\ call'[c].answer = "RateLimited" => Enforce(c)
<1> USE DEF At
<1>0. call[c].answer # "RateLimited"
  BY WayStep DEF LimitInv
<1>1. \A pc : Goto(c, pc) => Moves(c, {"pc"}) /\ call'[c].pc = pc
  BY GotoMoves
<1>2. \A e : Raise(c, e) => call'[c].pc = "done" /\ call'[c].answer = e
  BY RaiseMoves
<1>3. \A a, e : RecordRefusal(c, a, e) => call'[c].pc = "refusing" /\ call'[c].answer = e
  BY RefusalDoes
<1>4. \A fields : Moves(c, fields) /\ "answer" \notin fields => call'[c].answer = call[c].answer
  BY Fields DEF Moves
<1>5. CASE BuildKey(c)
  BY <1>0, <1>4, <1>5, BuildKeyDoes
<1>6. CASE Enforce(c)
  BY <1>2, <1>6, EnforceDoes
<1>7. CASE Exchange(c) \/ LookupUser(c) \/ CommitUser(c) \/ IssueToken(c) \/ Authenticate(c)
           \/ CommitOrganization(c)
  <2>1. \/ \E e \in ExchangeErrors \cup {"AuthenticationRequired", "InvalidToken", "ExpiredToken",
                                         "DisabledUser"} : Raise(c, e)
        \/ Goto(c, "unknown")
        \/ /\ call'[c].pc \in {"identified", "known", "ending", "authenticated"}
           /\ \E fields : Moves(c, fields) /\ "answer" \notin fields
    BY <1>7, ExchangeDoes, LookupUserDoes, CommitUserDoes, IssueTokenDoes, AuthenticateDoes,
       CommitOrganizationDoes
  <2>2. "RateLimited" \notin ExchangeErrors
    BY DEF ExchangeErrors
  <2> QED
    BY <1>0, <1>1, <1>2, <1>4, <2>1, <2>2
<1>8. CASE End(c)
  BY <1>8, EndDoes
<1>9. CASE AuthorizeOrganization(c) \/ AuthorizeProject(c)
  <2>1. ASSUME NEW org, NEW project, NEW missing \in Hidden, Decide(c, org, project, missing)
        PROVE  call'[c].pc # "keyed" /\ call'[c].answer # "RateLimited"
    <3>1. missing # "RateLimited"
      BY DEF Hidden
    <3> QED
      BY <1>0, <1>3, <1>4, <2>1, <3>1, DecideDoes
  <2> QED
    BY <1>2, <1>9, <2>1 DEF AuthorizeOrganization, AuthorizeProject, Hidden
<1>10. CASE StartLogin(c) \/ Consume(c) \/ FlushUser(c) \/ LockUser(c) \/ CheckMemberships(c)
            \/ CreateProject(c) \/ UpdateProject(c) \/ GetProject(c) \/ Refuse(c) \/ Fail(c)
  <2>1. \/ \E pc \in {"ending", "consumed", "created", "locked", "clear"} : Goto(c, pc)
        \/ \E e \in {"OAuthStateStoreUnavailable", "MissingAuthorizationCode", "IntegrityError",
                     "OrganizationAlreadyProvisioned", "DuplicateProject", "Crash",
                     call[c].answer} : Raise(c, e)
        \/ \E e \in {"OAuthStateInvalid", "GitHubAuthorizationDenied"} :
              RecordRefusal(c, "login_failure", e)
    BY <1>10 DEF StartLogin, Consume, FlushUser, LockUser, CheckMemberships, CreateProject,
                 UpdateProject, GetProject, Refuse, Fail
  <2> QED
    BY <1>0, <1>1, <1>2, <1>3, <1>4, <2>1
<1> QED
  BY <1>5, <1>6, <1>7, <1>8, <1>9, <1>10 DEF Step

\* The counter of a key has counted all that were let through in its window.
LEMMA CountIsHigh ==
    ASSUME TypeOK, LimitInv, NEW k, k[2] \in Nat
    PROVE  /\ Count(k) \in Nat
           /\ IsFiniteSet(InWindow(k)) /\ Cardinality(InWindow(k)) \in Nat
           /\ Cardinality(InWindow(k)) <= given.limit
           /\ now < (k[2] + 1) * Window => Cardinality(InWindow(k)) <= Count(k)
<1>1. CASE k \in DOMAIN counts
  <2>1. CounterAt(k)
    BY <1>1 DEF LimitInv
  <2>2. Cardinality(InWindow(k)) \in Nat
    BY <2>1, FS_CardinalityType DEF CounterAt
  <2>3. (k[2] + 1) * Window \in Nat
    BY WindowIs, Products
  <2>4. now < (k[2] + 1) * Window => now < counts[k].expires
    BY <2>1, <2>3 DEF CounterAt, TypeOK
  <2> QED
    BY <1>1, <2>1, <2>2, <2>4 DEF CounterAt, Count
<1>2. CASE k \notin DOMAIN counts
  <2>1. InWindow(k) = {}
    BY <1>2 DEF LimitInv, InWindow
  <2>2. IsFiniteSet(InWindow(k)) /\ Cardinality(InWindow(k)) = 0
    BY <2>1, FS_EmptySet
  <2> QED
    BY <1>2, <2>2 DEF Count, TypeOK
<1> QED
  BY <1>1, <1>2

\* What the script leaves, whether it lets the request through or not.
LEMMA Incremented ==
    ASSUME TypeOK, LimitInv, NEW k, k[2] \in Nat, k[2] * Window <= now, counts' = Increment(k)
    PROVE  /\ DOMAIN counts' = DOMAIN counts \cup {k}
           /\ \A x \in DOMAIN counts \ {k} : counts'[x] = counts[x]
           /\ counts'[k].n = Count(k) + 1
           /\ counts'[k].expires \in Nat /\ counts'[k].expires >= (k[2] + 1) * Window
<1> DEFINE W == Window
           left == IF Count(k) = 0 THEN now + W ELSE counts[k].expires
           row == [n |-> Count(k) + 1, expires |-> left]
<1>1. counts' = [x \in DOMAIN counts \cup {k} |-> IF x # k THEN counts[x] ELSE row]
  BY DEF Increment
<1>2. row.n = Count(k) + 1 /\ row.expires = left
  OBVIOUS
<1> HIDE DEF row
<1>3. /\ DOMAIN counts' = DOMAIN counts \cup {k} /\ counts'[k] = row
      /\ \A x \in DOMAIN counts \ {k} : counts'[x] = counts[x]
  BY <1>1
<1>4. left \in Nat /\ left >= (k[2] + 1) * W
  <2>1. W \in Nat /\ (k[2] + 1) * W = k[2] * W + W /\ k[2] * W \in Nat /\ now \in Nat
    BY WindowIs, Products DEF TypeOK
  <2>2. CASE Count(k) = 0
    BY <2>1, <2>2
  <2>3. CASE Count(k) # 0
    <3>1. k \in DOMAIN counts
      BY <2>3 DEF Count
    <3>2. CounterAt(k)
      BY <3>1 DEF LimitInv
    <3> QED
      BY <2>3, <3>2 DEF CounterAt
  <2> QED
    BY <2>2, <2>3
<1> QED
  BY <1>2, <1>3, <1>4

LEMMA CountersStep ==
    ASSUME TypeOK, LimitInv, NEW c \in Clients, Enforce(c)
    PROVE  /\ \A k \in DOMAIN counts' : CounterAt(k)'
           /\ \A a \in passed' : a.key \in DOMAIN counts'
<1>k. PICK k : k = call[c].key
  OBVIOUS
<1> DEFINE W == Window
           new == [key |-> k, at |-> now, by |-> c]
<1>0. /\ call[c].pc = "keyed" /\ given' = given /\ now' = now
      /\ k[2] \in Nat /\ k[2] * W <= now /\ now \in Nat /\ given.limit \in Nat
  BY <1>k, EnforceDoes DEF LimitInv, TypeOK
<1>1. new.key = k /\ new.at = now
  OBVIOUS
<1>2. \/ UNCHANGED <<counts, passed>>
      \/ counts' = Increment(k) /\ passed' = passed
      \/ /\ counts' = Increment(k) /\ passed' = passed \cup {new}
         /\ Count(k) + 1 <= given.limit
  BY <1>k, EnforceDoes
<1> HIDE DEF W, new
<1>3. CASE UNCHANGED <<counts, passed>>
  BY <1>0, <1>3 DEF LimitInv, CounterAt, InWindow
<1>4. CASE counts' = Increment(k)
  <2>1. /\ DOMAIN counts' = DOMAIN counts \cup {k}
        /\ \A x \in DOMAIN counts \ {k} : counts'[x] = counts[x]
        /\ counts'[k].n = Count(k) + 1
        /\ counts'[k].expires \in Nat /\ counts'[k].expires >= (k[2] + 1) * W
    BY <1>0, <1>4, Incremented DEF W
  <2>2. /\ Count(k) \in Nat
        /\ IsFiniteSet(InWindow(k)) /\ Cardinality(InWindow(k)) \in Nat
        /\ Cardinality(InWindow(k)) <= given.limit
        /\ now < (k[2] + 1) * W => Cardinality(InWindow(k)) <= Count(k)
    BY <1>0, CountIsHigh DEF W
  <2>3. passed' \subseteq passed \cup {new}
    BY <1>2
  <2>4. \A a \in passed' : a.key \in DOMAIN counts'
    BY <1>1, <2>1, <2>3 DEF LimitInv
  <2>5. ASSUME NEW x \in DOMAIN counts, x # k PROVE CounterAt(x)'
    <3>1. InWindow(x)' = InWindow(x)
      BY <1>1, <1>2, <2>5 DEF InWindow
    <3>2. CounterAt(x) /\ counts'[x] = counts[x]
      BY <2>1, <2>5 DEF LimitInv
    <3> QED
      BY <1>0, <3>1, <3>2 DEF CounterAt
  <2>6. /\ IsFiniteSet(InWindow(k)') /\ Cardinality(InWindow(k)') <= given.limit
        /\ now < (k[2] + 1) * W => Cardinality(InWindow(k)') <= Count(k) + 1
    <3>1. CASE InWindow(k)' = InWindow(k)
      BY <2>2, <3>1
    <3>2. CASE InWindow(k)' # InWindow(k)
      <4>1. /\ passed' = passed \cup {new} /\ Count(k) + 1 <= given.limit
            /\ now < (k[2] + 1) * W
            /\ InWindow(k)' = InWindow(k) \cup {new}
        <5>1. passed' # passed
          BY <3>2 DEF InWindow
        <5>2. passed' = passed \cup {new} /\ Count(k) + 1 <= given.limit
          BY <1>2, <1>4, <5>1
        <5>3. InWindow(k)' = {a \in passed' : a.key = k /\ a.at < (k[2] + 1) * W}
          BY DEF InWindow, W
        <5>4. InWindow(k) = {a \in passed : a.key = k /\ a.at < (k[2] + 1) * W}
          BY DEF InWindow, W
        <5>5. now < (k[2] + 1) * W
          BY <1>1, <3>2, <5>2, <5>3, <5>4
        <5> QED
          BY <1>1, <5>2, <5>3, <5>4, <5>5
      <4> DEFINE P == InWindow(k)
      <4>2. IsFiniteSet(P) /\ Cardinality(P) \in Nat /\ Cardinality(P) <= Count(k)
        BY <2>2, <4>1
      <4>3. InWindow(k)' = P \cup {new}
        BY <4>1
      <4> HIDE DEF P
      <4>4. /\ IsFiniteSet(P \cup {new})
            /\ Cardinality(P \cup {new}) = IF new \in P THEN Cardinality(P) ELSE Cardinality(P) + 1
        BY <4>2, FS_AddElement
      <4>5. Cardinality(P \cup {new}) <= Count(k) + 1 /\ Cardinality(P \cup {new}) \in Nat
        BY <2>2, <4>2, <4>4
      <4>6. Cardinality(P \cup {new}) <= given.limit
        BY <1>0, <2>2, <4>1, <4>5
      <4> QED
        BY <4>3, <4>4, <4>5, <4>6
    <3> QED
      BY <3>1, <3>2
  <2>7. CounterAt(k)'
    <3>1. Count(k) + 1 \in Nat
      BY <2>2
    <3>2. now' < (k[2] + 1) * Window => Cardinality(InWindow(k)') <= counts'[k].n
      BY <1>0, <2>1, <2>6 DEF W
    <3> QED
      BY <1>0, <2>1, <2>6, <3>1, <3>2 DEF CounterAt, W
  <2> QED
    BY <2>1, <2>4, <2>5, <2>7
<1> QED
  BY <1>2, <1>3, <1>4

LEMMA LimitsNext == ASSUME TypeOK, LimitInv, [Next]_vars PROVE LimitInv'
<1> USE DEF At
<1>1. ASSUME NEW c \in Clients, Step(c) \/ Fail(c) PROVE LimitInv'
  <2>0. given' = given /\ now' = now
    BY <1>1, Footprint
  <2>1. /\ \A k \in DOMAIN counts' : CounterAt(k)'
        /\ \A a \in passed' : a.key \in DOMAIN counts'
    <3>1. CASE Enforce(c)
      BY <3>1, CountersStep
    <3>2. CASE UNCHANGED <<counts, passed>>
      BY <2>0, <3>2 DEF LimitInv, CounterAt, InWindow
    <3> QED
      BY <1>1, <3>1, <3>2, Footprint
  <2>2. call'[c].pc = "keyed" => /\ call'[c].key[2] \in Nat
                                 /\ call'[c].key[2] * Window <= now'
    <3> SUFFICES ASSUME call'[c].pc = "keyed" PROVE /\ call'[c].key[2] \in Nat
                                                    /\ call'[c].key[2] * Window <= now'
      OBVIOUS
    <3>1. BuildKey(c)
      BY <1>1, AnswerStep
    <3>2. call'[c].key = <<Identity(c), now \div Window>>
      BY <3>1, BuildKeyDoes
    <3> DEFINE W == Window
               q == now \div W
    <3>3. call'[c].key[2] = q
      BY <3>2
    <3>4. W \in Nat \ {0} /\ now \in Nat
      BY WindowIs DEF TypeOK
    <3> HIDE DEF W
    <3>5. q \in Nat /\ now % W \in Nat /\ now = W * q + (now % W)
      BY <3>4, Division
    <3> HIDE DEF q
    <3>6. q * W = W * q /\ W * q \in Nat
      BY <3>4, <3>5, Products
    <3>7. q * W <= now
      BY <3>4, <3>5, <3>6
    <3> QED
      BY <2>0, <3>3, <3>5, <3>7 DEF W
  <2>3. call[c].pc # "done" /\ call[c].answer # "RateLimited"
    BY <1>1, WayStep DEF LimitInv
  <2>4. call'[c].answer = "RateLimited" => /\ call'[c].pc = "done" /\ call'[c].at \in Nat
                                           /\ call'[c].retry = RetryAfter(call'[c].at)
    <3> SUFFICES ASSUME call'[c].answer = "RateLimited"
                 PROVE  /\ call'[c].pc = "done" /\ call'[c].at \in Nat
                        /\ call'[c].retry = RetryAfter(call'[c].at)
      OBVIOUS
    <3>1. Enforce(c)
      BY <1>1, AnswerStep
    <3>2. Moves(c, {"pc", "key"}) => call'[c].answer = call[c].answer
      BY Fields DEF Moves
    <3>3. Raise(c, "RateLimiterUnavailable") => call'[c].answer = "RateLimiterUnavailable"
      BY RaiseMoves
    <3>4. /\ call'[c].pc = "done" /\ call'[c].retry = RetryAfter(now) /\ call'[c].at = now
      BY <2>3, <3>1, <3>2, <3>3, EnforceDoes
    <3> QED
      BY <3>4 DEF TypeOK
  <2>5. \A d \in Clients \ {c} : call'[d] = call[d]
    BY <1>1, OthersKept
  <2>6. ASSUME NEW d \in Clients
        PROVE  /\ call'[d].pc = "keyed" => /\ call'[d].key[2] \in Nat
                                           /\ call'[d].key[2] * Window <= now'
               /\ call'[d].pc # "done" => call'[d].answer # "RateLimited"
               /\ call'[d].answer = "RateLimited" => /\ call'[d].at \in Nat
                                                     /\ call'[d].retry = RetryAfter(call'[d].at)
    <3>1. CASE d = c
      BY <2>2, <2>4, <3>1
    <3>2. CASE d # c
      BY <2>0, <2>5, <3>2 DEF LimitInv
    <3> QED
      BY <3>1, <3>2
  <2> QED
    BY <2>1, <2>6 DEF LimitInv, RetryAfter
<1>2. ASSUME given' = given, counts' = counts, passed' = passed, call' = call,
             now' \in {now, now + 1}
      PROVE  LimitInv'
  <2>0. now \in Nat /\ Window \in Nat
    BY WindowIs DEF TypeOK
  <2>1. ASSUME NEW k \in DOMAIN counts' PROVE CounterAt(k)'
    <3>1. CounterAt(k) /\ InWindow(k)' = InWindow(k)
      BY <1>2 DEF LimitInv, InWindow
    <3>2. (k[2] + 1) * Window \in Nat
      BY <2>0, <3>1, Products DEF CounterAt
    <3>3. now' < (k[2] + 1) * Window => now < (k[2] + 1) * Window
      BY <1>2, <2>0, <3>2
    <3> QED
      BY <1>2, <3>1, <3>3 DEF CounterAt
  <2>2. ASSUME NEW d \in Clients, call'[d].pc = "keyed"
        PROVE  call'[d].key[2] \in Nat /\ call'[d].key[2] * Window <= now'
    <3>1. call[d].key[2] \in Nat /\ call[d].key[2] * Window <= now
      BY <1>2, <2>2 DEF LimitInv
    <3>2. call[d].key[2] * Window \in Nat
      BY <2>0, <3>1, Products
    <3> QED
      BY <1>2, <2>0, <3>1, <3>2
  <2> QED
    BY <1>2, <2>1, <2>2 DEF LimitInv, RetryAfter
<1>3. CASE Tick \/ Operator \/ UNCHANGED vars
  <2>1. /\ given' = given /\ counts' = counts /\ passed' = passed /\ call' = call
        /\ now' \in {now, now + 1}
    BY <1>3 DEF Tick, Operator, Redis, History, vars
  <2> QED
    BY <1>2, <2>1
<1> QED
  BY <1>1, <1>3 DEF Next

-----------------------------------------------------------------------------
(* The theorems                                                            *)

LEMMA InitAccess == ASSUME Init PROVE AccessInv
<1>1. PICK s \in Starts :
          /\ given = [ops |-> s.ops, email |-> s.email, limit |-> s.limit, horizon |-> s.horizon,
                      changes |-> s.changes, faults |-> s.faults]
          /\ counts = [k \in {} |-> 0]
          /\ users = s.users /\ orgs = s.orgs /\ projects = s.projects
          /\ audit = {} /\ passed = {} /\ consumed = {} /\ changes = 0
          /\ call = [c \in Clients |-> NoCall]
  BY DEF Init
<1>2. TypeOK
  BY InitType
<1>3. /\ NoCall.pc = "idle" /\ NoCall.token = None /\ NoCall.org = None /\ NoCall.audits = {}
      /\ NoCall.answer = None
  BY DEF NoCall
<1>4. \A c \in Clients : /\ call[c].pc = "idle" /\ call[c].token = None /\ call[c].org = None
                         /\ call[c].audits = {} /\ call[c].answer = None
  BY <1>1, <1>3
<1>5. StateUsedOnce
  BY <1>1 DEF StateUsedOnce
<1>6. UserInv
  <2>1. given.email = s.email
    BY <1>1
  <2>2. \A u, v \in DOMAIN s.users :
            s.email[s.users[u].github] = s.email[s.users[v].github] => u = v
    BY StartsAssumption
  <2>3. \A u, v \in DOMAIN users : SameUser(users[u].github, users[v].github) => u = v
    BY <1>1, <2>1, <2>2 DEF SameUser
  <2>4. \A c \in Clients : LoginAt(c)
    BY <1>4 DEF LoginAt
  <2>5. InsertsExclude
    BY <1>4 DEF InsertsExclude
  <2> QED
    BY <2>3, <2>4, <2>5 DEF UserInv
<1>7. OrganizationInv
  <2>1. \A u : Created(u) = {}
    BY <1>1 DEF Created
  <2>2. \A u : CreatedBound(u)
    <3>1. \A u : IsFiniteSet(Created(u)) /\ Cardinality(Created(u)) = 0
      BY <2>1, FS_EmptySet
    <3> QED
      BY <1>1, <3>1 DEF CreatedBound
  <2> QED
    BY <1>1, <1>4, <2>2 DEF OrganizationInv, LocksExclude, Creators
<1>8. OneProjectPerSlug
  <2> DEFINE S == [org : 1..orgs, slug : Slugs, name : Clients \cup {None}]
  <2>1. projects \in Seq(S)
    BY <1>2 DEF TypeOK
  <2>2. \A p \in DOMAIN projects : projects[p] \in S
    <3> HIDE DEF S
    <3> QED
      BY <2>1
  <2>3. \A p, q \in DOMAIN projects :
            projects[p].org = projects[q].org /\ projects[p].slug = projects[q].slug => p = q
    BY <1>1, StartsAssumption
  <2> QED
    BY <2>2, <2>3 DEF OneProjectPerSlug
<1>9. RightsInv
  BY <1>4, NoneAssumption DEF RightsInv, RightsAt
<1>10. AuditInv
  <2>1. \A c : EventsOf(c) = {}
    BY <1>1 DEF EventsOf
  <2> QED
    BY <1>4, <2>1 DEF AuditInv, AuditAt
<1>11. LimitInv
  BY <1>1, <1>4, NoneAssumption DEF LimitInv
<1> QED
  BY <1>2, <1>5, <1>6, <1>7, <1>8, <1>9, <1>10, <1>11 DEF AccessInv

LEMMA NextAccess == AccessInv /\ [Next]_vars => AccessInv'
<1> SUFFICES ASSUME AccessInv, [Next]_vars PROVE AccessInv'
  OBVIOUS
<1>1. /\ TypeOK /\ StateUsedOnce /\ UserInv /\ OrganizationInv /\ OneProjectPerSlug
      /\ RightsInv /\ AuditInv /\ LimitInv
  BY DEF AccessInv
<1>2. TypeOK'
  BY <1>1, NextType
<1>3. StateUsedOnce' /\ UserInv' /\ OneProjectPerSlug' /\ RightsInv'
  BY <1>1, <1>2, StatesStep, UsersNext, ProjectsNext, RightsNext
<1>4. OrganizationInv' /\ AuditInv' /\ LimitInv'
  BY <1>1, OrganizationsNext, AuditNext, LimitsNext
<1> QED
  BY <1>2, <1>3, <1>4 DEF AccessInv

\* AccessInv, the conjunction of what is said of types, logins, organizations,
\* projects, rights, the audit trail and the limiter, is an invariant, for any
\* number of clients and any limit.
THEOREM AccessInvariant == Spec => []AccessInv
<1>1. Init => AccessInv
  BY InitAccess
<1>2. AccessInv /\ [Next]_vars => AccessInv'
  BY NextAccess
<1> QED
  BY <1>1, <1>2, PTL DEF Spec

\* A state of GitHubOAuthService is accepted by one callback and is gone then,
\* callbacks that race to create the same user create one, and the token of a
\* callback is that of the account GitHub named.
THEOREM LoginIsSound == Spec => []LoginSound
<1>1. AccessInv => LoginSound
  BY DEF AccessInv, UserInv, LoginAt, LoginSound, OneUserPerAccount
<1> QED
  BY <1>1, AccessInvariant, PTL

\* Requests of one user to OrganizationService create one organization unless
\* the operator has taken a membership away, and the slugs of projects stay
\* unique in their organization.
THEOREM TenantsAreCreatedOnce == Spec => []TenantsCreatedOnce
<1>1. ASSUME AccessInv PROVE OneOrganizationEach
  <2> SUFFICES ASSUME NEW u \in DOMAIN users PROVE Cardinality(Created(u)) <= 1 + changes
    BY DEF OneOrganizationEach, Created
  <2>1. CreatedBound(u) /\ changes \in Nat
    BY <1>1 DEF AccessInv, OrganizationInv, TypeOK
  <2>2. Cardinality(Created(u)) \in Nat
    BY <2>1, FS_CardinalityType DEF CreatedBound
  <2> QED
    BY <2>1, <2>2 DEF CreatedBound
<1>2. AccessInv => TenantsCreatedOnce
  BY <1>1 DEF AccessInv, TenantsCreatedOnce
<1> QED
  BY <1>2, AccessInvariant, PTL

\* What AuthorizationService lets through was covered by a role with the
\* permission in the organization of the target while the request ran, and a
\* stranger is refused with the status and the code of a missing project; when
\* he wanted to create one, with the same answer whether the organization exists
\* or not.
THEOREM AccessIsGranted == Spec => []AccessWasGranted
<1>1. ASSUME AccessInv PROVE RightsWereHeld
  BY <1>1 DEF AccessInv, RightsInv, RightsAt, Rights, RightsWereHeld, ProjectOps
<1>2. ASSUME AccessInv PROVE StrangersGetNotFound
  <2>1. ASSUME NEW c \in Clients, Stranger(c)
        PROVE  call[c].answer \in Hidden
    <3>1. RightsAt(c) /\ Is(c, ProjectOps) /\ call[c].org # None
      BY <1>2, <2>1 DEF AccessInv, RightsInv, Stranger, ProjectOps
    <3>2. ~Rights(c)
      BY <2>1 DEF Rights, Stranger
    <3> QED
      BY <3>1, <3>2 DEF RightsAt
  <2>2. ASSUME NEW c \in Clients, Stranger(c)
        PROVE  /\ ErrorAnswer(call[c].answer).status = ErrorAnswer("ProjectNotFound").status
               /\ ErrorAnswer(call[c].answer).code = ErrorAnswer("ProjectNotFound").code
               /\ ErrorAnswer(call[c].answer) =
                      [status |-> 404, code |-> "RESOURCE_NOT_FOUND", message |-> "Not found"]
    <3>1. call[c].answer \in {"OrganizationAccessDenied", "ProjectAccessDenied"}
      BY <2>1, <2>2 DEF Hidden
    <3> DEFINE e == call[c].answer
    <3>2. /\ Status(e) = 404 /\ Code(e) = "RESOURCE_NOT_FOUND" /\ Message(e) = "Not found"
          /\ Status("ProjectNotFound") = 404 /\ Code("ProjectNotFound") = "RESOURCE_NOT_FOUND"
      BY <3>1, HiddenLooksMissing
    <3> HIDE DEF e
    <3>3. ErrorAnswer(e) = [status |-> 404, code |-> "RESOURCE_NOT_FOUND", message |-> "Not found"]
      BY <3>2 DEF ErrorAnswer
    <3>4. /\ ErrorAnswer("ProjectNotFound").status = 404
          /\ ErrorAnswer("ProjectNotFound").code = "RESOURCE_NOT_FOUND"
      BY <3>2 DEF ErrorAnswer
    <3>5. /\ ErrorAnswer(e).status = 404 /\ ErrorAnswer(e).code = "RESOURCE_NOT_FOUND"
      BY <3>2 DEF ErrorAnswer
    <3> QED
      BY <3>3, <3>4, <3>5 DEF e
  <2> QED
    BY <2>2 DEF StrangersGetNotFound
<1>3. AccessInv => AccessWasGranted
  BY <1>1, <1>2 DEF AccessWasGranted
<1> QED
  BY <1>3, AccessInvariant, PTL

\* The audit events of an answered request are those its answer calls for: a
\* refusal's survives the rollback of the refused request.
THEOREM RefusalsAreAudited == Spec => []RefusalsAudited
<1>1. AccessInv => RefusalsAudited
  BY DEF AccessInv, AuditInv, AuditAt, EventsOf, RefusalsAudited
<1> QED
  BY <1>1, AccessInvariant, PTL

\* RateLimiter lets no more through in a window than the limit, whatever the
\* window and the clock's resolution, and Retry-After leads out of the window
\* once one second is added.
THEOREM LimiterIsSound == Spec => []LimiterSound
<1>1. ASSUME AccessInv PROVE WithinLimit
  BY <1>1 DEF AccessInv, LimitInv, CounterAt, InWindow, WithinLimit
<1>2. ASSUME AccessInv PROVE RetryLeavesWindow
  <2> SUFFICES ASSUME NEW c \in Clients, call[c].answer = "RateLimited"
               PROVE  /\ call[c].retry \in 1..WindowSeconds
                      /\ (call[c].at + (call[c].retry + 1) * Second) \div Window
                             > call[c].at \div Window
    BY DEF RetryLeavesWindow
  <2>1. call[c].at \in Nat /\ call[c].retry = RetryAfter(call[c].at)
    BY <1>2 DEF AccessInv, LimitInv
  <2> QED
    BY <2>1, RetryIsSound
<1>3. AccessInv => LimiterSound
  BY <1>1, <1>2 DEF LimiterSound
<1> QED
  BY <1>3, AccessInvariant, PTL

=============================================================================
