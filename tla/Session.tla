------------------------------ MODULE Session -------------------------------
(***************************************************************************)
(* The sign-in state of the frontend, in one or more tabs of a browser.    *)
(* It is kept in four places that no code changes together: localStorage   *)
(* 'token' (lib/api.ts reads it), api.defaults of the tab's axios          *)
(* instance, the zustand store of the tab, and that store's persisted copy *)
(* 'auth-storage'.  The backend only judges whether a JWT has expired.     *)
(***************************************************************************)
EXTENDS Naturals

CONSTANTS Tabs,
          None,        \* no token, or no request
          NoAuth,      \* a request without an Authorization header
          MaxLogins    \* bound: how many tokens are issued

ASSUME SessionAssumption == /\ None \notin Nat /\ NoAuth \notin Nat
                            /\ None # NoAuth /\ MaxLogins \in Nat

VARIABLES
  page,      \* page[t]: "login" or "dashboard"
  mem,       \* mem[t]: token in the tab's store
  header,    \* header[t]: Authorization of api.defaults
  request,   \* request[t]: token of the request under way, NoAuth or None
  local,     \* localStorage 'token'
  stored,    \* token in localStorage 'auth-storage'
  issued,    \* tokens 1 .. issued have been given out
  expired,   \* those that the backend refuses now
  logouts    \* history: has anybody logged out

tab == <<page, mem, header, request>>
storage == <<local, stored>>
vars == <<tab, storage, issued, expired, logouts>>

Token == 1 .. MaxLogins

TypeOK == /\ page \in [Tabs -> {"login", "dashboard"}]
          /\ mem \in [Tabs -> Token \cup {None}]
          /\ header \in [Tabs -> Token \cup {None}]
          /\ request \in [Tabs -> Token \cup {None, NoAuth}]
          /\ local \in Token \cup {None}
          /\ stored \in Token \cup {None}
          /\ issued \in Token \cup {0}
          /\ expired \subseteq 1 .. issued
          /\ logouts \in BOOLEAN

Init == /\ page = [t \in Tabs |-> "login"]
        /\ mem = [t \in Tabs |-> None]
        /\ header = [t \in Tabs |-> None]
        /\ request = [t \in Tabs |-> None]
        /\ local = None /\ stored = None
        /\ issued = 0 /\ expired = {} /\ logouts = FALSE

(* A full page load: the tab's memory is lost, the store is rehydrated     *)
(* from s, and requests under way are dropped.                             *)
Load(t, p, s) == /\ page' = [page EXCEPT ![t] = p]
                 /\ mem' = [mem EXCEPT ![t] = s]
                 /\ header' = [header EXCEPT ![t] = None]
                 /\ request' = [request EXCEPT ![t] = None]

(* Navigation by the router keeps the tab's memory.                        *)
Navigate(t, p) == page' = [page EXCEPT ![t] = p]

(* The user signs in: login() of the store, then router.push.              *)
Login(t) == /\ page[t] = "login"
            /\ issued < MaxLogins
            /\ issued' = issued + 1
            /\ local' = issued' /\ stored' = issued'
            /\ header' = [header EXCEPT ![t] = issued']
            /\ mem' = [mem EXCEPT ![t] = issued']
            /\ Navigate(t, "dashboard")
            /\ UNCHANGED <<request, expired, logouts>>

(* The effect of LoginPage.                                                *)
SkipLogin(t) == /\ page[t] = "login" /\ mem[t] # None
                /\ Navigate(t, "dashboard")
                /\ UNCHANGED <<mem, header, request, storage, issued, expired, logouts>>

(* The effect of DashboardLayout.                                          *)
RequireLogin(t) == /\ page[t] = "dashboard" /\ mem[t] = None
                   /\ Navigate(t, "login")
                   /\ UNCHANGED <<mem, header, request, storage, issued, expired, logouts>>

(* Mutated form: logout forgets the token that api.ts reads.               *)
LogoutKeepsToken(t) == /\ page[t] = "dashboard" /\ mem[t] # None
                       /\ stored' = None
                       /\ logouts' = TRUE
                       /\ Load(t, "login", None)
                       /\ UNCHANGED <<local, issued, expired>>

(* The user logs out: logout() of the store.                               *)
Logout(t) == /\ page[t] = "dashboard" /\ mem[t] # None
             /\ local' = None /\ stored' = None
             /\ logouts' = TRUE
             /\ Load(t, "login", None)
             /\ UNCHANGED <<issued, expired>>

(* Mutated form: the store is not persisted.                               *)
ReloadForgets(t) == /\ Load(t, page[t], None)
                    /\ UNCHANGED <<storage, issued, expired, logouts>>

(* The user reloads, or opens the tab again.                               *)
Reload(t) == /\ Load(t, page[t], stored)
             /\ UNCHANGED <<storage, issued, expired, logouts>>

(* Mutated form: no interceptor, only the header that login() sets.        *)
FetchFromHeader(t) ==
  /\ page[t] = "dashboard" /\ mem[t] # None /\ request[t] = None
  /\ request' = [request EXCEPT ![t] = IF header[t] # None THEN header[t] ELSE NoAuth]
  /\ UNCHANGED <<page, mem, header, storage, issued, expired, logouts>>

(* A dashboard page fetches its data: the interceptor takes the token from *)
(* localStorage, otherwise axios uses its defaults.                        *)
Fetch(t) ==
  /\ page[t] = "dashboard" /\ mem[t] # None /\ request[t] = None
  /\ request' = [request EXCEPT ![t] =
       IF local # None THEN local ELSE IF header[t] # None THEN header[t] ELSE NoAuth]
  /\ UNCHANGED <<page, mem, header, storage, issued, expired, logouts>>

Refused(t) == request[t] \in expired \cup {NoAuth}

Answered(t) == /\ request[t] # None /\ ~Refused(t)
               /\ request' = [request EXCEPT ![t] = None]
               /\ UNCHANGED <<page, mem, header, storage, issued, expired, logouts>>

(* Status 401: the response interceptor.                                   *)
Unauthorized(t) == /\ request[t] # None /\ Refused(t)
                   /\ local' = None
                   /\ Load(t, "login", stored)
                   /\ UNCHANGED <<stored, issued, expired, logouts>>

(* JWT_EXPIRATION is over for a token.                                     *)
Expire == /\ \E g \in (1 .. issued) \ expired : expired' = expired \cup {g}
          /\ UNCHANGED <<tab, storage, issued, logouts>>

Effect(t) == \/ SkipLogin(t) \/ RequireLogin(t)
Traffic(t) == Fetch(t) \/ Answered(t) \/ Unauthorized(t)

Next == \/ \E t \in Tabs : Login(t) \/ Logout(t) \/ Reload(t) \/ Effect(t) \/ Traffic(t)
        \/ Expire

(* React runs the effects and the pages fetch; users need not do anything. *)
Fairness == \A t \in Tabs : WF_vars(Effect(t)) /\ WF_vars(Traffic(t))

Spec == Init /\ [][Next]_vars /\ Fairness

-----------------------------------------------------------------------------
(* Properties.                                                             *)

(* The copies agree where it matters: what api.ts reads from localStorage  *)
(* is the persisted session, and a tab's default header is its own store's *)
(* token, in whatever order tabs sign in, log out and are refused.         *)
CopiesAgree == /\ local \in {None, stored}
               /\ \A t \in Tabs : header[t] \in {None, mem[t]}

(* A signed-in tab sends a request without a token only after some token   *)
(* expired or somebody logged out: no order of logins and reloads in       *)
(* several tabs does it.                                                   *)
UnauthenticatedHasCause ==
  \A t \in Tabs : request[t] = NoAuth => expired # {} \/ logouts

(* A session that was never refused and never ended is not sent to the     *)
(* login page: only an expired token or a logout leads there.              *)
StaysSignedIn ==
  [][\A t \in Tabs :
       page[t] = "dashboard" /\ page'[t] = "login" => expired # {} \/ logouts']_vars

(* Once a tab's session has expired, it is cleared and the user is asked   *)
(* to sign in: the 401 handler "clears token & redirects".                 *)
ExpiredSessionIsCleared ==
  \A t \in Tabs :
    (mem[t] \in expired) ~> (page[t] = "login" /\ mem[t] \notin expired)
=============================================================================
