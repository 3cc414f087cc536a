---------------------------- MODULE SessionProofs ----------------------------
(***************************************************************************)
(* Safety of Session for any users, roles and tokens: the token and the    *)
(* user of a tab agree whatever is in flight, and one redirect is enough.  *)
(***************************************************************************)
EXTENDS Session, TLAPS

LEMMA HomesArePaths == \A u \in Users : HomePath(u) \in Paths
BY DEF HomePath, Paths

LEMMA GoalIsPath ==
    ASSUME TypeOK
    PROVE  Goal \in Paths
BY HomesArePaths DEF TypeOK, Goal, Paths

----------------------------------------------------------------------------
(* Typing *)

LEMMA InitTypeOK == Init => TypeOK
<1>. SUFFICES ASSUME Init
              PROVE  TypeOK
  OBVIOUS
<1>1. loads \in 1..MaxLoads
  BY LoadsAssumption DEF Init
<1>2. server \in [Tokens -> {"unissued", "valid", "expired"}]
  BY DEF Init
<1>3. logins \subseteq [token : Tokens, stage : {"post", "me"}] /\ asked \subseteq Tokens \cup {None}
  BY DEF Init
<1>4. early \in BOOLEAN /\ denied \in BOOLEAN /\ broken \in BOOLEAN /\ loading \in BOOLEAN
  BY DEF Init
<1>. QED
  BY <1>1, <1>2, <1>3, <1>4 DEF Init, TypeOK

LEMMA NextTypeOK == TypeOK /\ [Next]_vars => TypeOK'
<1>. SUFFICES ASSUME TypeOK, [Next]_vars
              PROVE  TypeOK'
  OBVIOUS
<1>. USE TokensAssumption, OwnerAssumption, LoadsAssumption DEF TypeOK
<1>1. CASE Redirect
  BY <1>1, GoalIsPath DEF Redirect, GoTo, history
<1>2. CASE RestoreSucceeds
  BY <1>2 DEF RestoreSucceeds, history
<1>3. CASE RestoreFails
  BY <1>3 DEF RestoreFails, ClearToken, history
<1>4. CASE Logout
  BY <1>4 DEF Logout, ClearToken, GoTo, history, Paths
<1>5. CASE CrossOver
  BY <1>5 DEF CrossOver, GoTo, history, Paths
<1>6. CASE Ask
  BY <1>6 DEF Ask, history
<1>7. ASSUME NEW p \in Paths, LoadPage(p)
      PROVE  TypeOK'
  <2>1. loads' \in 1..MaxLoads
    BY <1>7 DEF LoadPage
  <2>2. logins' \subseteq [token : Tokens, stage : {"post", "me"}] /\ asked' \subseteq Tokens \cup {None}
    BY <1>7 DEF LoadPage
  <2>3. early' \in BOOLEAN /\ denied' \in BOOLEAN /\ broken' \in BOOLEAN /\ loading' \in BOOLEAN
    BY <1>7 DEF LoadPage
  <2>. QED
    BY <1>7, <2>1, <2>2, <2>3 DEF LoadPage
<1>8. ASSUME NEW t \in Tokens, Submit(t)
      PROVE  TypeOK'
  BY <1>8 DEF Submit
<1>9. ASSUME NEW t \in Tokens, Expire(t)
      PROVE  TypeOK'
  BY <1>9 DEF Expire, history
<1>10. ASSUME NEW l \in logins, LoginAnswered(l)
       PROVE  TypeOK'
  BY <1>10 DEF LoginAnswered
<1>11. ASSUME NEW l \in logins, LoginFails(l)
       PROVE  TypeOK'
  BY <1>11 DEF LoginFails, ClearToken, EndLogin, history
<1>12. ASSUME NEW l \in logins, MeAnswered(l)
       PROVE  TypeOK'
  <2>. Owner[l.token] \in Users
    OBVIOUS
  <2>. QED
    BY <1>12, HomesArePaths DEF MeAnswered, history
<1>13. ASSUME NEW l \in logins, MeFails(l)
       PROVE  TypeOK'
  BY <1>13 DEF MeFails, ClearToken, EndLogin
<1>14. ASSUME NEW t \in asked, AskAnswered(t)
       PROVE  TypeOK'
  BY <1>14 DEF AskAnswered, Answered, history
<1>15. ASSUME NEW t \in asked, AskDenied(t)
       PROVE  TypeOK'
  BY <1>15 DEF AskDenied, Answered, ClearToken
<1>16. CASE UNCHANGED vars
  BY <1>16 DEF vars, history
<1>. QED
  BY <1>1, <1>2, <1>3, <1>4, <1>5, <1>6, <1>7, <1>8, <1>9, <1>10, <1>11, <1>12, <1>13, <1>14,
     <1>15, <1>16 DEF Next

\* The state of the tab is well typed, and a form only submits on its own page.
THEOREM TypeCorrect == Spec => []TypeOK
BY InitTypeOK, NextTypeOK, PTL DEF Spec

----------------------------------------------------------------------------
(* Token and user *)

\* Unless a login was submitted over another session: there is one login at most,
\* and only where nobody is or may be signed in; the token it stored is still there,
\* or a late 401 took it; and nothing but its own request touches the token that a
\* restored session has.
OneSession ==
    ~early =>
        /\ \A k, l \in logins : k = l
        /\ logins # {} => ~loading /\ user = None
        /\ \A l \in logins :
            l.stage = "me" => IF token = None THEN denied ELSE token = l.token
        /\ loading => asked = {} /\ restoring = token /\ user = None

SessionInv == OneSession /\ SessionAgrees

LEMMA InitSession == Init => SessionInv
BY DEF Init, SessionInv, OneSession, SessionAgrees

LEMMA NextSession == TypeOK /\ SessionInv /\ [Next]_vars => SessionInv'
<1>. SUFFICES ASSUME TypeOK, SessionInv, [Next]_vars
              PROVE  SessionInv'
  OBVIOUS
<1>. USE TokensAssumption, OwnerAssumption DEF TypeOK, SessionInv, OneSession, SessionAgrees
<1>1. CASE UNCHANGED <<token, user, loading, restoring, logins, asked, history>>
  BY <1>1 DEF history
<1>2. CASE RestoreSucceeds
  BY <1>2 DEF RestoreSucceeds, history
<1>3. CASE RestoreFails
  BY <1>3 DEF RestoreFails, ClearToken, history
<1>4. CASE Logout
  BY <1>4 DEF Logout, ClearToken, Inside, history
<1>5. CASE Ask
  BY <1>5 DEF Ask, Inside, history
<1>6. ASSUME NEW p \in Paths, LoadPage(p)
      PROVE  SessionInv'
  BY <1>6 DEF LoadPage
<1>7. ASSUME NEW t \in Tokens, Submit(t)
      PROVE  SessionInv'
  <2>1. CASE early'
    BY <2>1
  <2>2. CASE ~early'
    <3>1. ~early /\ ~loading /\ user = None /\ logins = {}
      BY <1>7, <2>2 DEF Submit
    <3>2. logins' = {[token |-> t, stage |-> "post"]}
      BY <1>7, <3>1 DEF Submit
    <3>. QED
      BY <1>7, <3>1, <3>2 DEF Submit
  <2>. QED
    BY <2>1, <2>2
<1>8. ASSUME NEW l \in logins, LoginAnswered(l)
      PROVE  SessionInv'
  BY <1>8 DEF LoginAnswered
<1>9. ASSUME NEW l \in logins, LoginFails(l)
      PROVE  SessionInv'
  BY <1>9 DEF LoginFails, ClearToken, EndLogin, history
<1>10. ASSUME NEW l \in logins, MeAnswered(l)
       PROVE  SessionInv'
  BY <1>10 DEF MeAnswered, history
<1>11. ASSUME NEW l \in logins, MeFails(l)
       PROVE  SessionInv'
  BY <1>11 DEF MeFails, ClearToken, EndLogin
<1>12. ASSUME NEW t \in asked, AskDenied(t)
       PROVE  SessionInv'
  BY <1>12 DEF AskDenied, Answered, ClearToken
<1>13. ASSUME NEW t \in asked, AskAnswered(t)
       PROVE  SessionInv'
  BY <1>13 DEF AskAnswered, Answered, history
<1>. QED
  BY <1>1, <1>2, <1>3, <1>4, <1>5, <1>6, <1>7, <1>8, <1>9, <1>10, <1>11, <1>12, <1>13
     DEF Next, vars, Redirect, CrossOver, Expire

\* In every tab that no login was submitted to over another session, the user shown
\* owns the stored token unless a 401 took it, and no token is left without a user
\* unless a login is on its way or broke off.
THEOREM SessionStaysConsistent == Spec => []SessionAgrees
<1>1. TypeOK /\ SessionInv /\ [Next]_vars => SessionInv'
  BY NextSession
<1>2. SessionInv => SessionAgrees
  BY DEF SessionInv
<1>. QED
  BY TypeCorrect, InitSession, <1>1, <1>2, PTL DEF Spec

----------------------------------------------------------------------------
(* Guards and homes *)

\* A home is a contour that lets its user in, or the login form.
LEMMA HomesAreAllowed ==
    \A u \in Users : HomePath(u) = "/login" \/ Allowed(HomePath(u), u)
BY DEF HomePath, Allowed

\* "No dead ends": wherever a guard or the entry page sends someone, nothing there
\* sends them on.
THEOREM RedirectsOnce == Spec => [][Redirect => Goal' = path']_vars
<1>1. TypeOK /\ Redirect => Goal' = path'
  <2>. SUFFICES ASSUME TypeOK, Redirect
                PROVE  Goal' = path'
    OBVIOUS
  <2>1. path' = Goal /\ UNCHANGED <<user, loading>> /\ path # Goal
    BY DEF Redirect, GoTo
  <2>2. CASE loading
    BY <2>1, <2>2 DEF Goal
  <2>3. CASE ~loading /\ user = None
    BY <2>1, <2>3 DEF Goal
  <2>4. CASE ~loading /\ user # None
    <3>1. user \in Users /\ Goal = HomePath(user) /\ ~Allowed(path, user)
      BY <2>1, <2>4 DEF Goal, TypeOK
    <3>2. Goal' = IF Allowed(path', user) THEN path' ELSE HomePath(user)
      BY <2>1, <2>4 DEF Goal, Allowed, HomePath
    <3>. QED
      BY <2>1, <3>1, <3>2
  <2>. QED
    BY <2>2, <2>3, <2>4
<1>. QED
  BY TypeCorrect, <1>1, PTL DEF Spec
============================================================================
