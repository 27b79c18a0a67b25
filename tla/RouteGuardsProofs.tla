-------------------------- MODULE RouteGuardsProofs --------------------------
(***************************************************************************)
(* RouteGuards for any accounts.  What makes the guards hold across the    *)
(* effects and the SDK's answers is that within one page load the user is  *)
(* never set a second time.                                                *)
(***************************************************************************)
EXTENDS RouteGuards, TLAPS

\* Nobody is known, and no token asked for, until the SDK is ready.
UnknownUntilReady ==
  sdk = "loading" => user = None /\ guard \in {"unmounted", "mounted"}

\* A token is asked for with the effect that installs the getter, which stays for
\* as long as there is a user.
AskedWithGetter == guard \in {"asked", "yes", "no"} /\ isAuthenticated => getter

GuardedRoute == path = Dashboard <=> guard # "unmounted"

PermittedByToken == guard = "yes" => granted \in Admins

\* Auth0's parameters come with a page load of the home page and leave the URL with
\* it; while they are there nobody is known.
CallbackAtHome ==
  callback # "none" => /\ sdk = "loading" \/ (sdk = "ready" /\ callback = "error")
                       /\ path = Home /\ user = None

IInv ==
  /\ TypeOK /\ UnknownUntilReady /\ AskedWithGetter /\ GuardedRoute
  /\ PermittedByToken /\ CallbackAtHome

\* The dashboard is the only route with a guard.
LEMMA AdminIsGuarded ==
  TypeOK /\ Screen = "admin" =>
    /\ sdk = "ready" /\ path = Dashboard
    /\ isAuthenticated /\ guard \notin {"mounted", "asked", "no"}
BY DEF Screen, Open, Guarded, TypeOK

LEMMA LoginIsGuarded == TypeOK /\ Screen = "login" => path = Dashboard
BY DEF Screen, Open, Guarded, TypeOK

LEMMA InitIInv == Init => IInv
BY DEF Init, IInv, TypeOK, UnknownUntilReady, AskedWithGetter, GuardedRoute,
   PermittedByToken, CallbackAtHome, isAuthenticated, Paths, Dashboard

LEMMA NextKeepsIInv == IInv /\ [Next]_vars => IInv'
<1> SUFFICES ASSUME IInv, [Next]_vars PROVE IInv'  OBVIOUS
<1> USE UserAssumption
    DEF IInv, TypeOK, UnknownUntilReady, AskedWithGetter, GuardedRoute,
        PermittedByToken, CallbackAtHome, isAuthenticated
<1>1. CASE Effects  BY <1>1 DEF Effects, EffectsDue
<1>2. CASE CheckSession  BY <1>2 DEF CheckSession
<1>3. CASE LoginCompletes  BY <1>3 DEF LoginCompletes, GoTo, Paths, Dashboard
<1>4. CASE LoginFails  BY <1>4 DEF LoginFails
<1>5. CASE Redirect
  <2>1. PICK p \in Paths : GoTo(p)  BY <1>5 DEF Redirect, Paths, Home, Dashboard
  <2>2. UNCHANGED <<sdk, returnTo, user, session, getter, granted>>
    BY <1>5 DEF Redirect
  <2> QED  BY <2>1, <2>2 DEF GoTo, Dashboard
<1>6. CASE LoginWithRedirect
  <2>1. path = Dashboard  BY <1>6, LoginIsGuarded DEF LoginWithRedirect
  <2>2. callback = "none"
    BY <1>6, <2>1 DEF LoginWithRedirect, Home, Dashboard
  <2> QED  BY <1>6, <2>1, <2>2 DEF LoginWithRedirect
<1>7. CASE TokenFails  BY <1>7 DEF TokenFails
<1>8. CASE RequestFindsNoSession  BY <1>8 DEF RequestFindsNoSession
<1>9. CASE handleLogout  BY <1>9 DEF handleLogout, Load, Home, Paths, Dashboard
<1>10. ASSUME NEW p \in Paths, Visit(p) PROVE IInv'
  BY <1>10 DEF Visit, Load, Dashboard
<1>11. ASSUME NEW p \in Paths, Click(p) PROVE IInv'
  BY <1>11 DEF Click, GoTo, Dashboard
<1>12. ASSUME NEW u \in Users, TokenArrives(u) PROVE IInv'
  BY <1>12 DEF TokenArrives
<1>13. ASSUME NEW u \in Users \cup {None}, ReturnFromLogin(u) PROVE IInv'
  BY <1>13 DEF ReturnFromLogin, Load, Home, Paths, Dashboard
<1>14. ASSUME NEW u \in Users \cup {None}, SessionChanges(u) PROVE IInv'
  BY <1>14 DEF SessionChanges
<1>15. CASE Reload  BY <1>15 DEF Reload, Load, Home, Dashboard
<1>16. CASE UNCHANGED vars  BY <1>16 DEF vars
<1> QED
  BY <1>1, <1>2, <1>3, <1>4, <1>5, <1>6, <1>7, <1>8, <1>9, <1>10, <1>11, <1>12,
     <1>13, <1>14, <1>15, <1>16
  DEF Next

THEOREM Invariance == Spec => []IInv
BY InitIInv, NextKeepsIInv, PTL DEF Spec

\* The state of the tab keeps its types; the login returns to the dashboard only.
THEOREM TypeCorrect == Spec => []TypeOK
<1>1. IInv => TypeOK  BY DEF IInv
<1> QED  BY <1>1, Invariance, PTL

\* The admin page is shown only on the word of an admin's token, to a user whose
\* requests carry one.
THEOREM AdminPageIsAlwaysGranted == Spec => []AdminPageIsGranted
<1>1. IInv => AdminPageIsGranted
  <2> SUFFICES ASSUME IInv, Screen = "admin" PROVE granted \in Admins /\ getter
    BY DEF AdminPageIsGranted
  <2>1. isAuthenticated /\ guard = "yes"
    BY AdminIsGuarded DEF IInv, TypeOK, GuardedRoute
  <2> QED  BY <2>1 DEF IInv, AskedWithGetter, PermittedByToken
<1> QED  BY <1>1, Invariance, PTL

\* However a login fails, it ends at the welcome page: the page Auth0 returns to is
\* the home page, which asks for no login.
THEOREM LoginNeverLoops == Spec => NoLoginLoop
<1>1. IInv /\ [Next]_vars => [LoginFails => Screen' = "welcome"]_vars
  <2> SUFFICES ASSUME IInv, LoginFails PROVE Screen' = "welcome"
    OBVIOUS
  <2>1. path = Home /\ user = None
    BY DEF LoginFails, IInv, CallbackAtHome, UnknownUntilReady
  <2>2. path' = Home /\ user' = None /\ sdk' = "ready"
    BY <2>1 DEF LoginFails
  <2> QED  BY <2>2 DEF Screen, Open, isAuthenticated, Home, Dashboard
<1> QED  BY <1>1, Invariance, PTL DEF Spec, NoLoginLoop
=============================================================================
