------------------------------ MODULE RouteGuards ------------------------------
(***************************************************************************)
(* One browser tab on the app, from page load to page load: the routes and *)
(* their guards (App, ProtectedRoute, RedirectIfAuthenticated), the Auth0  *)
(* wiring (Auth0ProviderWithNavigate, Auth0TokenBridge) and the token      *)
(* getter of the request layer (api/authToken.ts).                         *)
(*                                                                         *)
(* The Auth0 SDK and its server are external.  Their session may end, or   *)
(* become another user's, at any time; `user` is what useAuth0 knows.      *)
(* Effects of a render run before the next click, but an answer may arrive *)
(* before them.                                                            *)
(***************************************************************************)
CONSTANTS
  Users,       \* accounts of the Auth0 tenant
  Admins,      \* those whose tokens carry admin:all
  None

ASSUME UserAssumption == Admins \subseteq Users /\ None \notin Users

VARIABLES
  path,        \* the route
  sdk,         \* Auth0Provider: "loading", "ready", or "away" at the login page
  callback,    \* the parameters Auth0 has added to the URL: none, a code, or an error
  returnTo,    \* appState of the login under way
  user,        \* useAuth0: the user, None when not authenticated
  session,     \* the session at Auth0
  guard,       \* ProtectedRoute: unmounted, mounted, asked, and permitted yes or no
  getter,      \* authToken.ts: whether a token getter is installed
  granted      \* history: the user whose token let the dashboard be shown

vars == <<path, sdk, callback, returnTo, user, session, guard, getter, granted>>

Home == "/"
Chat == "/chat"
Dashboard == "/dashboard"
Paths == {Home, Chat, Dashboard, "*"}

isAuthenticated == user # None

-----------------------------------------------------------------------------
\* What the route renders.
Guarded ==
  IF sdk = "loading" THEN "loading"
  ELSE IF ~isAuthenticated THEN "login"
  ELSE IF guard \in {"mounted", "asked"} THEN "loading"
  ELSE IF guard = "no" THEN "denied" ELSE "admin"

Open(page) ==
  IF sdk = "loading" THEN "loading" ELSE IF isAuthenticated THEN "redirect" ELSE page

Screen ==
  IF sdk = "away" THEN "away"
  ELSE IF path = Dashboard THEN Guarded
  ELSE IF path = "*" THEN "redirect"
  ELSE Open(IF path = Home THEN "welcome" ELSE "chat")

\* The effects of the last render that have not run yet: Auth0TokenBridge's, and
\* ProtectedRoute's call of getAccessTokenSilently.
EffectsDue ==
  \/ getter # isAuthenticated
  \/ guard = "mounted" /\ isAuthenticated

Effects ==
  /\ sdk # "away" /\ EffectsDue
  /\ getter' = isAuthenticated
  /\ guard' = IF guard = "mounted" /\ isAuthenticated THEN "asked" ELSE guard
  /\ UNCHANGED <<path, sdk, callback, returnTo, user, session, granted>>

-----------------------------------------------------------------------------
\* The route changes, and with it the URL and its parameters; ProtectedRoute is
\* mounted anew on the dashboard only.
GoTo(p) ==
  /\ path' = p
  /\ callback' = "none"
  /\ guard' = IF p # Dashboard THEN "unmounted"
              ELSE IF path = Dashboard THEN guard ELSE "mounted"

\* A page load: the state of the scripts starts over.
Load(p, params) ==
  /\ path' = p
  /\ sdk' = "loading"
  /\ callback' = params
  /\ user' = None
  /\ guard' = IF p = Dashboard THEN "mounted" ELSE "unmounted"
  /\ getter' = FALSE
  /\ granted' = None

Init ==
  /\ path \in Paths
  /\ sdk = "loading"
  /\ callback = "none"
  /\ returnTo = None
  /\ user = None
  /\ session \in Users \cup {None}
  /\ guard = IF path = Dashboard THEN "mounted" ELSE "unmounted"
  /\ getter = FALSE
  /\ granted = None

\* A link, or the address bar.
Visit(p) ==
  /\ Load(p, "none")
  /\ UNCHANGED <<returnTo, session>>

\* Reload: the URL as it is, with the parameters of a login that failed.
Reload ==
  /\ sdk # "away"
  /\ Load(path, callback)
  /\ UNCHANGED <<returnTo, session>>

\* checkSession: silent, and it may miss a session.
CheckSession ==
  /\ sdk = "loading" /\ callback = "none"
  /\ sdk' = "ready"
  /\ user' \in {session, None}
  /\ UNCHANGED <<path, callback, returnTo, session, guard, getter, granted>>

\* handleRedirectCallback succeeds: onRedirectCallback navigates, then the user is known.
LoginCompletes ==
  /\ sdk = "loading" /\ callback = "code" /\ session # None
  /\ sdk' = "ready"
  /\ user' = session
  /\ GoTo(IF returnTo = None THEN path ELSE returnTo)
  /\ returnTo' = None
  /\ UNCHANGED <<session, getter, granted>>

\* It fails: the login was refused, or the code or its state is no good.  Nothing
\* navigates, so the parameters stay in the URL, for a reload to fail with again.
LoginFails ==
  /\ sdk = "loading" /\ callback # "none"
  /\ sdk' = "ready"
  /\ callback' = "error"
  /\ UNCHANGED <<path, returnTo, user, session, guard, getter, granted>>

\* A guard that sends an account away from its own page.
RedirectHome ==
  /\ Screen = "redirect"
  /\ GoTo(Home)
  /\ UNCHANGED <<sdk, returnTo, user, session, getter, granted>>

\* <Navigate replace> of RedirectIfAuthenticated and of the route "*".
Redirect ==
  /\ Screen = "redirect"
  /\ GoTo(IF path = "*" THEN Home ELSE Dashboard)
  /\ UNCHANGED <<sdk, returnTo, user, session, getter, granted>>

\* A click on a button of the welcome page or the chat, or Back and Forward.
Click(p) ==
  /\ Screen \in {"welcome", "chat", "admin", "denied", "login"}
  /\ ~EffectsDue
  /\ GoTo(p)
  /\ UNCHANGED <<sdk, returnTo, user, session, getter, granted>>

\* A login button on the welcome page.
LoginFromAnywhere ==
  /\ Screen \in {"login", "welcome"}
  /\ sdk' = "away"
  /\ returnTo' = path
  /\ UNCHANGED <<path, callback, user, session, guard, getter, granted>>

\* ProtectedRoute sends a stranger to the login page, and to this path afterwards.
LoginWithRedirect ==
  /\ Screen = "login"
  /\ sdk' = "away"
  /\ returnTo' = path
  /\ UNCHANGED <<path, callback, user, session, guard, getter, granted>>

\* A redirect_uri that is the dashboard.
ReturnToDashboard(u) ==
  /\ sdk = "away"
  /\ session' = u
  /\ Load(Dashboard, IF u = None THEN "error" ELSE "code")
  /\ UNCHANGED returnTo

\* Auth0 sends the browser back to redirect_uri, with a code or with an error.
ReturnFromLogin(u) ==
  /\ sdk = "away"
  /\ session' = u
  /\ Load(Home, IF u = None THEN "error" ELSE "code")
  /\ UNCHANGED returnTo

-----------------------------------------------------------------------------
\* A guard that takes any token.
TokenArrivesUnread(u) ==
  /\ guard = "asked" /\ sdk = "ready"
  /\ u \in {user, session} \ {None}
  /\ guard' = "yes"
  /\ granted' = u
  /\ UNCHANGED <<path, sdk, callback, returnTo, user, session, getter>>

\* getAccessTokenSilently answers with a token of the user, or, if it had to ask
\* Auth0, of whoever has the session now.
TokenArrives(u) ==
  /\ guard = "asked" /\ sdk = "ready"
  /\ u \in {user, session} \ {None}
  /\ guard' = IF u \in Admins THEN "yes" ELSE "no"
  /\ granted' = IF u \in Admins THEN u ELSE None
  /\ UNCHANGED <<path, sdk, callback, returnTo, user, session, getter>>

\* It fails; without a session at Auth0 the SDK forgets the user.
TokenFails ==
  /\ guard = "asked" /\ sdk = "ready"
  /\ guard' = "no"
  /\ user' = IF session = None THEN None ELSE user
  /\ UNCHANGED <<path, sdk, callback, returnTo, session, getter, granted>>

\* A request of the admin page asks the getter for a token, and it fails so, when the
\* page may have been left by then.
RequestFindsNoSession ==
  /\ granted # None /\ sdk = "ready" /\ session = None
  /\ user' = None
  /\ UNCHANGED <<path, sdk, callback, returnTo, session, guard, getter, granted>>

\* "Log out" of the sidebar.
handleLogout ==
  /\ Screen = "admin"
  /\ ~EffectsDue
  /\ session' = None
  /\ Load(Home, "none")
  /\ UNCHANGED returnTo

\* The session at Auth0 ends or changes hands in another tab.
SessionChanges(u) ==
  /\ session' = u
  /\ UNCHANGED <<path, sdk, callback, returnTo, user, guard, getter, granted>>

Next ==
  \/ Effects \/ CheckSession \/ LoginCompletes \/ LoginFails \/ Redirect
  \/ Reload \/ LoginWithRedirect \/ TokenFails \/ RequestFindsNoSession \/ handleLogout
  \/ \E p \in Paths : Visit(p) \/ Click(p)
  \/ \E u \in Users : TokenArrives(u)
  \/ \E u \in Users \cup {None} : ReturnFromLogin(u) \/ SessionChanges(u)

Spec == Init /\ [][Next]_vars

\* React runs its effects and renders its redirects; the SDK's promises settle.
FairSpec ==
  /\ Spec
  /\ WF_vars(Effects)
  /\ WF_vars(Redirect)
  /\ WF_vars(LoginWithRedirect)
  /\ WF_vars(CheckSession \/ LoginCompletes \/ LoginFails)
  /\ WF_vars(TokenFails \/ \E u \in Users : TokenArrives(u))

-----------------------------------------------------------------------------
TypeOK ==
  /\ path \in Paths
  /\ sdk \in {"loading", "ready", "away"}
  /\ callback \in {"none", "code", "error"}
  /\ returnTo \in {None, Dashboard}
  /\ user \in Users \cup {None} /\ session \in Users \cup {None}
  /\ guard \in {"unmounted", "mounted", "asked", "yes", "no"}
  /\ getter \in BOOLEAN
  /\ granted \in Users \cup {None}

\* The admin page is shown only after a token that carries admin:all has arrived
\* in this page load, and its requests find a token getter.
AdminPageIsGranted == Screen = "admin" => granted \in Admins /\ getter

\* No screen is left loading, redirecting or blank for ever, unless the page is
\* left again and again.
Settled == Screen \in {"welcome", "chat", "admin", "denied", "away"}
EveryScreenSettles == []<>Settled \/ []<><<sdk' = "loading">>_vars

\* A login that was refused or failed, also one that failed before a reload, ends at
\* the welcome page, where nothing starts it over.
NoLoginLoop == [][LoginFails => Screen' = "welcome"]_vars
=============================================================================
