------------------------------ MODULE MCAccess ------------------------------
(***************************************************************************)
(* Instances of Access for TLC.                                            *)
(***************************************************************************)
EXTENDS Access, TLC

CONSTANTS p, q, r, g, h, s1, s2, slug

Asking(a, b, c) == p :> a @@ q :> b @@ r :> c

\* One GitHub account each; in Shared the two have one email address.
Distinct == g :> g @@ h :> h

Shared == g :> g @@ h :> g

Nobody ==
    [ops |-> Asking("login", "login", "login"), email |-> Distinct, states |-> {}, users |-> <<>>,
     orgs |-> 0, members |-> {}, projects |-> <<>>, tokens |-> {}, limit |-> 3, horizon |-> 0,
     changes |-> 0, faults |-> FALSE]

TokenOf(user, org) == [sub |-> user, org |-> org, exp |-> TokenLife]

\* Callbacks with two states, of one account or of two.
Logins ==
    {[Nobody EXCEPT !.ops = Asking("callback", "callback", "callback"), !.states = {s1, s2},
                    !.email = e] : e \in {Distinct, Shared}}
    \cup {[Nobody EXCEPT !.ops = Asking("callback", "callback", "login"), !.states = {s1},
                         !.faults = TRUE]}

\* The clock runs: states expire and windows end.
Clocked ==
    {[Nobody EXCEPT !.ops = Asking("login", "callback", "login"), !.limit = 2, !.horizon = 4],
     [Nobody EXCEPT !.limit = 1, !.horizon = 7]}

\* A user without an organization onboards twice, and goes on to a project.
Onboarding == [Nobody EXCEPT !.users = <<User(g)>>, !.tokens = {TokenOf(1, None)}]

Onboardings ==
    {[Onboarding EXCEPT !.ops = Asking("onboard", "onboard", "create"), !.changes = 1],
     [Onboarding EXCEPT !.ops = Asking("onboard", "onboard", "create"), !.faults = TRUE],
     [Onboarding EXCEPT !.ops = Asking("onboard", "callback", "onboard"), !.states = {s1}],
     [Onboarding EXCEPT !.ops = Asking("onboard", "onboard", "create"), !.horizon = 6,
                        !.limit = 1]}

\* Two organizations; the first user is in both.
Shops ==
    {[Nobody EXCEPT !.ops = o, !.users = <<User(g), User(h)>>, !.orgs = 2,
                    !.members = {Membership(1, 1, "owner"), Membership(2, 1, "member"),
                                 Membership(2, 2, "admin")},
                    !.projects = <<[org |-> 1, slug |-> slug, name |-> None]>>,
                    !.tokens = {TokenOf(1, 1), TokenOf(2, 2)}, !.changes = 1] :
        o \in {Asking("create", "update", "read"), Asking("create", "nothing", "create")}}

MCStarts == {Nobody} \cup Logins \cup Clocked \cup Onboardings \cup Shops

=============================================================================
