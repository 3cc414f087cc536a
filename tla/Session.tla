-------------------------------- MODULE Session --------------------------------
(***************************************************************************)
(* The session of the frontend in one tab: the bearer token in             *)
(* localStorage, the user in the state of AuthProvider, the login form,    *)
(* the guards of the three contours, and the requests in flight, whose     *)
(* answers come in any order.  A request carries the token of the moment   *)
(* it is sent.  Loading a page anew keeps only localStorage.               *)
(***************************************************************************)
EXTENDS Naturals

CONSTANTS
    Tokens,     \* tokens the server issues, one per login
    Owner,      \* the user of each token
    Roles,      \* Roles[u]: the roles of a user
    None,       \* null
    MaxLoads    \* bound on page loads

Users == DOMAIN Roles
Paths == {"/", "/login", "/admin", "/teacher", "/dashboard"}

ASSUME TokensAssumption == None \notin Tokens /\ None \notin Users
ASSUME OwnerAssumption  == Owner \in [Tokens -> Users]
ASSUME LoadsAssumption  == MaxLoads \in Nat \ {0}

VARIABLES
    server,     \* of each token: not issued yet, accepted, expired
    token,      \* localStorage: the stored token
    path,       \* the page
    user,       \* AuthProvider: the current user
    loading,    \* AuthProvider: restoring the session
    restoring,  \* the token of the GET /me that restores it
    logins,     \* logins in flight: waiting for the token, then for GET /me
    form,       \* the login that the form on the page has submitted
    asked,      \* tokens carried by requests for data in flight
    loads,      \* page loads so far
    early,      \* a login was submitted while someone was or might be signed in,
    denied,     \* a request for data got a 401 since the token was stored,
    broken      \* a login ended between its two requests (all three history)

history == <<loads, early, denied, broken>>
vars    == <<server, token, path, user, loading, restoring, logins, form, asked, history>>

TypeOK ==
    /\ server \in [Tokens -> {"unissued", "valid", "expired"}]
    /\ token \in Tokens \cup {None}
    /\ path \in Paths
    /\ user \in Users \cup {None}
    /\ loading \in BOOLEAN
    /\ restoring \in Tokens \cup {None} /\ (~loading => restoring = None)
    /\ logins \subseteq [token : Tokens, stage : {"post", "me"}]
    /\ form \in Tokens \cup {None} /\ (form # None => path = "/login")
    /\ asked \subseteq Tokens \cup {None}
    /\ loads \in 1..MaxLoads
    /\ early \in BOOLEAN /\ denied \in BOOLEAN /\ broken \in BOOLEAN

\* Someone may have logged in before.
Init ==
    /\ token \in Tokens \cup {None} /\ restoring = token
    /\ server = [t \in Tokens |-> IF t = token THEN "valid" ELSE "unissued"]
    /\ path \in Paths /\ user = None /\ loading = TRUE
    /\ logins = {} /\ form = None /\ asked = {}
    /\ loads = 1 /\ early = FALSE /\ denied = FALSE /\ broken = FALSE

----------------------------------------------------------------------------
(* The guards *)

\* Variant (bug): staff lands in the portal, too.
HomeInPortal(u) ==
    IF "admin" \in Roles[u] THEN "/admin" ELSE IF Roles[u] = {} THEN "/login" ELSE "/dashboard"

HomePath(u) ==
    CASE "admin" \in Roles[u]   -> "/admin"
      [] "admin" \notin Roles[u] /\ "teacher" \in Roles[u] -> "/teacher"
      [] Roles[u] \cap {"admin", "teacher"} = {} /\ Roles[u] \cap {"child", "parent"} # {} -> "/dashboard"
      [] OTHER -> "/login"

\* RoleGuard.  AdminGuard lets everyone stay and shows a refusal.
Allowed(p, u) ==
    \/ p = "/teacher"   /\ Roles[u] \cap {"teacher", "admin"} # {}
    \/ p = "/dashboard" /\ Roles[u] \cap {"child", "parent"} # {}
    \/ p = "/admin"

\* Where the effects of the page lead.
Goal ==
    CASE loading                 -> path
      [] ~loading /\ user = None -> "/login"
      [] OTHER                   -> IF Allowed(path, user) THEN path ELSE HomePath(user)

\* Variant (bug): the form remembers across pages that it is submitting.
GoToKeepsForm(p) == path' = p /\ form' = form

\* Leaving the login page loses what its form knows.
GoTo(p) ==
    /\ path' = p
    /\ form' = IF p = "/login" THEN form ELSE None

Redirect ==
    /\ Goal # path
    /\ GoTo(Goal)
    /\ UNCHANGED <<server, token, user, loading, restoring, logins, asked, history>>

----------------------------------------------------------------------------
(* AuthProvider *)

\* The page is loaded: AuthProvider is mounted and what was in flight is gone.
LoadPage(p) ==
    /\ loads < MaxLoads
    /\ loads' = loads + 1
    /\ path' = p /\ user' = None /\ loading' = TRUE /\ restoring' = token
    /\ logins' = {} /\ form' = None /\ asked' = {}
    /\ early' = FALSE /\ denied' = FALSE /\ broken' = FALSE
    /\ UNCHANGED <<server, token>>

ClearToken == token' = None

\* Without a stored token the promise is resolved at once.
RestoreSucceeds ==
    /\ loading
    /\ restoring # None => server[restoring] = "valid"
    /\ user' = IF restoring = None THEN user ELSE Owner[restoring]
    /\ loading' = FALSE /\ restoring' = None
    /\ UNCHANGED <<server, token, path, logins, form, asked, history>>

\* A 401 or any other error.
RestoreFails ==
    /\ loading /\ restoring # None
    /\ ClearToken
    /\ loading' = FALSE /\ restoring' = None
    /\ UNCHANGED <<server, path, user, logins, form, asked, history>>

\* The form is there while the session is being restored, too.
Submit(t) ==
    /\ path = "/login" /\ form = None
    /\ server[t] = "unissued" /\ \A l \in logins : l.token # t
    /\ logins' = logins \cup {[token |-> t, stage |-> "post"]}
    /\ form' = t
    /\ early' = (early \/ loading \/ user # None \/ logins # {})
    /\ UNCHANGED <<server, token, path, user, loading, restoring, asked, loads, denied, broken>>

\* The token is stored and sent with GET /me in one go.
LoginAnswered(l) ==
    /\ l.stage = "post"
    /\ server' = [server EXCEPT ![l.token] = "valid"]
    /\ token' = l.token
    /\ logins' = (logins \ {l}) \cup {[l EXCEPT !.stage = "me"]}
    /\ denied' = FALSE /\ broken' = FALSE
    /\ UNCHANGED <<path, user, loading, restoring, form, asked, loads, early>>

\* setSubmitting(false)
EndLogin(l) ==
    /\ logins' = logins \ {l}
    /\ form' = IF form = l.token THEN None ELSE form

\* A 401 for a wrong password, or another error.
LoginFails(l) ==
    /\ l.stage = "post"
    /\ ClearToken \/ UNCHANGED token
    /\ EndLogin(l)
    /\ UNCHANGED <<server, path, user, loading, restoring, asked, history>>

\* setUser, and the form leads to the user's home.
MeAnswered(l) ==
    /\ l.stage = "me" /\ server[l.token] = "valid"
    /\ user' = Owner[l.token]
    /\ logins' = logins \ {l}
    /\ path' = HomePath(Owner[l.token])
    /\ form' = IF path' = "/login" /\ form # l.token THEN form ELSE None
    /\ UNCHANGED <<server, token, loading, restoring, asked, history>>

\* A 401 takes the token back, another error does not.
MeFails(l) ==
    /\ l.stage = "me"
    /\ \/ server[l.token] = "expired" /\ ClearToken /\ UNCHANGED broken
       \/ UNCHANGED token /\ broken' = TRUE
    /\ EndLogin(l)
    /\ UNCHANGED <<server, path, user, loading, restoring, asked, loads, early, denied>>

\* The shells, with the logout button and the pages' requests, are shown to those
\* the guards let pass.
Inside == ~loading /\ user # None /\ Allowed(path, user) /\ (path = "/admin" => "admin" \in Roles[user])

\* Variant (bug): the token stays.
LogoutKeepsToken ==
    /\ Inside
    /\ user' = None /\ GoTo("/login")
    /\ UNCHANGED <<server, token, loading, restoring, logins, asked, history>>

Logout ==
    /\ Inside
    /\ ClearToken
    /\ user' = None /\ GoTo("/login")
    /\ UNCHANGED <<server, loading, restoring, logins, asked, history>>

\* The shells of staff link to each other's contour, for admins only.
CrossOver ==
    /\ Inside /\ path # "/dashboard" /\ "admin" \in Roles[user]
    /\ GoTo(IF path = "/admin" THEN "/teacher" ELSE "/admin")
    /\ UNCHANGED <<server, token, user, loading, restoring, logins, asked, history>>

----------------------------------------------------------------------------
(* Requests for data; several may carry the same token *)

Ask ==
    /\ Inside
    /\ asked' = asked \cup {token}
    /\ UNCHANGED <<server, token, path, user, loading, restoring, logins, form, history>>

Answered(t) == t \in asked /\ asked' \in {asked, asked \ {t}}

AskAnswered(t) ==
    /\ Answered(t)
    /\ UNCHANGED <<server, token, path, user, loading, restoring, logins, form, history>>

\* apiFetch clears the token there is, whichever the request carried.
AskDenied(t) ==
    /\ Answered(t)
    /\ t # None => server[t] = "expired"
    /\ ClearToken
    /\ denied' = TRUE
    /\ UNCHANGED <<server, path, user, loading, restoring, logins, form, loads, early, broken>>

\* A day passes, or the account is switched off.
Expire(t) ==
    /\ server[t] = "valid"
    /\ server' = [server EXCEPT ![t] = "expired"]
    /\ UNCHANGED <<token, path, user, loading, restoring, logins, form, asked, history>>

Next ==
    \/ Redirect \/ RestoreSucceeds \/ RestoreFails \/ Logout \/ CrossOver \/ Ask
    \/ \E p \in Paths : LoadPage(p)
    \/ \E t \in Tokens : Submit(t) \/ Expire(t)
    \/ \E l \in logins : LoginAnswered(l) \/ LoginFails(l) \/ MeAnswered(l) \/ MeFails(l)
    \/ \E t \in asked : AskAnswered(t) \/ AskDenied(t)

Spec == Init /\ [][Next]_vars

\* React runs the effects, and fetch answers or fails.
Fairness == WF_vars(Redirect) /\ WF_vars(RestoreSucceeds \/ RestoreFails)

FairSpec == Spec /\ Fairness

----------------------------------------------------------------------------
(* Properties *)

\* Unless someone logged in over another session, the token and the user agree
\* whatever requests are on their way: the user shown owns the token, or a 401
\* took it, which may have been the answer to a request of an earlier login; and
\* without a user no token is kept, unless a login is on its way or broke off.
SessionAgrees ==
    ~early =>
        /\ user # None => IF token = None THEN denied ELSE Owner[token] = user
        /\ user = None /\ token # None =>
            loading \/ broken \/ [token |-> token, stage |-> "me"] \in logins

\* "No dead ends": wherever it was opened, the tab comes to rest at the login form
\* without a user, at the form with a user who has no role, or in a contour whose
\* guard lets the user stay: guards and homes never send anyone round in circles.
ComesToRest ==
    <>[](IF user = None THEN ~loading /\ path = "/login"
         ELSE Allowed(path, user) \/ (Roles[user] = {} /\ path = "/login"))

\* "On 401 it clears the stored token so the guard redirects to /login."
DeniedGoesToLogin == denied /\ user # None ~> path = "/login"
================================================================================
