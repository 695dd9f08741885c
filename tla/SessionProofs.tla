---------------------------- MODULE SessionProofs ----------------------------
(***************************************************************************)
(* For any number of tabs and tokens: type correctness of Session, the     *)
(* copies of the token agree, and without an expired token or a logout no  *)
(* tab loses its session or sends a request without a token.               *)
(***************************************************************************)
EXTENDS Session, TLAPS

USE SessionAssumption DEF SessionAssumption

LEMMA InitTypes == Init => TypeOK
BY DEF Init, TypeOK, Token

(* What a full page load leaves of a tab.                                  *)
LEMMA LoadTypes ==
  ASSUME TypeOK, NEW t \in Tabs, NEW p \in {"login", "dashboard"},
         NEW s \in Token \cup {None}, Load(t, p, s)
  PROVE  /\ page' \in [Tabs -> {"login", "dashboard"}]
         /\ mem' \in [Tabs -> Token \cup {None}]
         /\ header' \in [Tabs -> Token \cup {None}]
         /\ request' \in [Tabs -> Token \cup {None, NoAuth}]
         /\ page'[t] = p /\ mem'[t] = s /\ header'[t] = None /\ request'[t] = None
         /\ \A u \in Tabs : u # t =>
              /\ page'[u] = page[u] /\ mem'[u] = mem[u]
              /\ header'[u] = header[u] /\ request'[u] = request[u]
BY DEF Load, TypeOK

(* ... and a login.                                                        *)
LEMMA LoginTypes ==
  ASSUME TypeOK, NEW t \in Tabs, Login(t)
  PROVE  /\ page' \in [Tabs -> {"login", "dashboard"}]
         /\ mem' \in [Tabs -> Token \cup {None}]
         /\ header' \in [Tabs -> Token \cup {None}]
         /\ issued' \in Token /\ local' = issued' /\ stored' = issued'
         /\ expired \subseteq 1 .. issued'
         /\ mem'[t] = issued' /\ header'[t] = issued'
         /\ \A u \in Tabs : u # t =>
              page'[u] = page[u] /\ mem'[u] = mem[u] /\ header'[u] = header[u]
<1>1. issued \in Nat /\ issued' = issued + 1 /\ issued' \in Token
  BY DEF Login, TypeOK, Token
<1>2. expired \subseteq 1 .. issued'
  BY <1>1 DEF TypeOK
<1> QED
  BY <1>1, <1>2 DEF Login, TypeOK, Navigate

LEMMA NextTypes == TypeOK /\ [Next]_vars => TypeOK'
<1> SUFFICES ASSUME TypeOK, [Next]_vars PROVE TypeOK'
  OBVIOUS
<1>1. ASSUME NEW t \in Tabs, Login(t) PROVE TypeOK'
  BY <1>1, LoginTypes DEF Login, TypeOK
<1>2. ASSUME NEW t \in Tabs, Logout(t) PROVE TypeOK'
  <2>1. None \in Token \cup {None}
    OBVIOUS
  <2> QED
    BY <1>2, <2>1, LoadTypes DEF Logout, TypeOK
<1>3. ASSUME NEW t \in Tabs, Reload(t) \/ Unauthorized(t) PROVE TypeOK'
  <2>1. stored \in Token \cup {None} /\ page[t] \in {"login", "dashboard"}
    BY DEF TypeOK
  <2> QED
    BY <1>3, <2>1, LoadTypes DEF Reload, Unauthorized, TypeOK, storage
<1>4. ASSUME NEW t \in Tabs, Effect(t) PROVE TypeOK'
  BY <1>4 DEF Effect, SkipLogin, RequireLogin, Navigate, TypeOK, storage
<1>5. ASSUME NEW t \in Tabs, Fetch(t) \/ Answered(t) PROVE TypeOK'
  BY <1>5 DEF Fetch, Answered, TypeOK, storage
<1>6. CASE Expire
  BY <1>6 DEF Expire, TypeOK, tab, storage
<1>7. CASE UNCHANGED vars
  BY <1>7 DEF vars, tab, storage, TypeOK
<1> QED
  BY <1>1, <1>2, <1>3, <1>4, <1>5, <1>6, <1>7 DEF Next, Traffic

(* Every value a tab or the browser keeps is a token that was given out,   *)
(* or the absence of one.                                                  *)
THEOREM TypeCorrect == Spec => []TypeOK
BY InitTypes, NextTypes, PTL DEF Spec

-----------------------------------------------------------------------------
LEMMA NextCopies == TypeOK /\ CopiesAgree /\ [Next]_vars => CopiesAgree'
<1> SUFFICES ASSUME TypeOK, CopiesAgree, [Next]_vars PROVE CopiesAgree'
  OBVIOUS
<1>1. ASSUME NEW t \in Tabs, Login(t) PROVE CopiesAgree'
  BY <1>1, LoginTypes DEF CopiesAgree
<1>2. ASSUME NEW t \in Tabs, Logout(t) PROVE CopiesAgree'
  <2>1. None \in Token \cup {None}
    OBVIOUS
  <2> QED
    BY <1>2, <2>1, LoadTypes DEF Logout, CopiesAgree
<1>3. ASSUME NEW t \in Tabs, Reload(t) \/ Unauthorized(t) PROVE CopiesAgree'
  <2>1. stored \in Token \cup {None} /\ page[t] \in {"login", "dashboard"}
    BY DEF TypeOK
  <2>2. \A u \in Tabs : header'[u] \in {None, mem'[u]}
    BY <1>3, <2>1, LoadTypes DEF Reload, Unauthorized, CopiesAgree
  <2> QED
    BY <1>3, <2>2 DEF Reload, Unauthorized, CopiesAgree, storage
<1>4. CASE \/ \E t \in Tabs : Effect(t) \/ Fetch(t) \/ Answered(t)
           \/ Expire \/ UNCHANGED vars
  BY <1>4 DEF Effect, SkipLogin, RequireLogin, Fetch, Answered, Expire, CopiesAgree,
              vars, tab, storage
<1> QED
  BY <1>1, <1>2, <1>3, <1>4 DEF Next, Traffic

(* No order of logins, logouts, reloads and refusals in several tabs makes *)
(* lib/api.ts read a token that is not the persisted session, or leaves a  *)
(* tab's default header with the token of another login than its store's.  *)
THEOREM CopiesStayTogether == Spec => []CopiesAgree
<1>1. Init => CopiesAgree
  BY DEF Init, CopiesAgree
<1> QED
  BY <1>1, InitTypes, NextTypes, NextCopies, PTL DEF Spec

-----------------------------------------------------------------------------
(* Nobody has a reason to be signed out.                                   *)
Undisturbed == expired = {} /\ ~logouts

(* Then a tab on the dashboard is signed in, a signed-in tab finds its     *)
(* session in the storage, and no request goes without a token.            *)
CalmInv == Undisturbed =>
  /\ local = stored
  /\ \A t \in Tabs : /\ page[t] = "dashboard" => mem[t] # None
                     /\ mem[t] # None => stored # None
                     /\ request[t] # NoAuth

IInv == TypeOK /\ CalmInv

LEMMA NextCalm == IInv /\ [Next]_vars => IInv'
<1> SUFFICES ASSUME IInv, [Next]_vars, Undisturbed' PROVE CalmInv'
  BY NextTypes DEF IInv, CalmInv
<1>1. TypeOK /\ (Undisturbed => CalmInv) /\ CalmInv
  BY DEF IInv
<1>2. None \notin Token /\ NoAuth \notin Token
  BY DEF Token
<1>3. ASSUME NEW t \in Tabs, Login(t) PROVE CalmInv'
  BY <1>1, <1>2, <1>3, LoginTypes DEF Login, CalmInv, Undisturbed
<1>4. ASSUME NEW t \in Tabs, Logout(t) PROVE CalmInv'
  BY <1>4 DEF Logout, Undisturbed
<1>5. ASSUME NEW t \in Tabs, Reload(t) PROVE CalmInv'
  <2>1. stored \in Token \cup {None} /\ page[t] \in {"login", "dashboard"}
    BY <1>1 DEF TypeOK
  <2>2. Load(t, page[t], stored) /\ UNCHANGED <<local, stored, expired, logouts>>
    BY <1>5 DEF Reload, storage
  <2> QED
    BY <1>1, <2>1, <2>2, LoadTypes DEF CalmInv, Undisturbed
<1>6. ASSUME NEW t \in Tabs, Unauthorized(t) PROVE CalmInv'
  BY <1>1, <1>6 DEF Unauthorized, Refused, CalmInv, Undisturbed
<1>7. ASSUME NEW t \in Tabs, Fetch(t) PROVE CalmInv'
  <2>1. Undisturbed /\ UNCHANGED <<page, mem, local, stored, expired, logouts>>
    BY <1>7 DEF Fetch, Undisturbed, storage
  <2>2. local \in Token
    BY <1>1, <1>7, <2>1 DEF Fetch, CalmInv, TypeOK
  <2>3. request' = [request EXCEPT ![t] = local]
    BY <1>2, <1>7, <2>2 DEF Fetch
  <2> QED
    BY <1>1, <1>2, <2>1, <2>2, <2>3 DEF CalmInv, TypeOK
<1>8. ASSUME NEW t \in Tabs, Answered(t) PROVE CalmInv'
  BY <1>1, <1>8 DEF Answered, CalmInv, Undisturbed, TypeOK, storage
<1>9. ASSUME NEW t \in Tabs, Effect(t) PROVE CalmInv'
  BY <1>1, <1>9 DEF Effect, SkipLogin, RequireLogin, Navigate, CalmInv, Undisturbed,
                    TypeOK, storage
<1>10. CASE Expire
  BY <1>10 DEF Expire, Undisturbed
<1>11. CASE UNCHANGED vars
  BY <1>1, <1>11 DEF vars, tab, storage, CalmInv, Undisturbed
<1> QED
  BY <1>3, <1>4, <1>5, <1>6, <1>7, <1>8, <1>9, <1>10, <1>11 DEF Next, Traffic

LEMMA CalmHolds == Spec => []IInv
<1>1. Init => CalmInv
  BY DEF Init, CalmInv
<1> QED
  BY <1>1, InitTypes, NextCalm, PTL DEF Spec, IInv

(* A request goes without an Authorization header only after some token    *)
(* expired or somebody logged out: the interceptor's localStorage copy is  *)
(* there as long as a tab's store says that it is signed in.               *)
THEOREM UnauthenticatedNeedsCause == Spec => []UnauthenticatedHasCause
<1>1. IInv => UnauthenticatedHasCause
  BY DEF IInv, CalmInv, Undisturbed, UnauthenticatedHasCause
<1> QED
  BY <1>1, CalmHolds, PTL

(* A tab goes from the dashboard to the login page only after some token   *)
(* expired or somebody logged out, however the tabs reload and fetch.      *)
THEOREM SessionsStay == Spec => StaysSignedIn
<1>1. IInv /\ [Next]_vars =>
        [\A t \in Tabs :
           page[t] = "dashboard" /\ page'[t] = "login" => expired # {} \/ logouts']_vars
  <2> SUFFICES ASSUME IInv, [Next]_vars, NEW u \in Tabs, expired = {}, ~logouts',
                      page[u] = "dashboard", page'[u] = "login"
               PROVE  FALSE
    OBVIOUS
  <2>1. TypeOK /\ CalmInv
    BY DEF IInv
  <2>2. ASSUME NEW t \in Tabs, Login(t) PROVE FALSE
    BY <2>1, <2>2 DEF Login, Navigate, TypeOK
  <2>3. ASSUME NEW t \in Tabs, Logout(t) PROVE FALSE
    BY <2>3 DEF Logout
  <2>4. ASSUME NEW t \in Tabs, Reload(t) PROVE FALSE
    BY <2>1, <2>4 DEF Reload, Load, TypeOK
  <2>5. ASSUME NEW t \in Tabs, SkipLogin(t) PROVE FALSE
    BY <2>1, <2>5 DEF SkipLogin, Navigate, TypeOK
  <2>6. ASSUME NEW t \in Tabs, RequireLogin(t) PROVE FALSE
    BY <2>1, <2>6 DEF RequireLogin, CalmInv, Undisturbed
  <2>7. ASSUME NEW t \in Tabs, Unauthorized(t) PROVE FALSE
    BY <2>1, <2>7 DEF Unauthorized, Refused, CalmInv, Undisturbed
  <2>8. ASSUME UNCHANGED page PROVE FALSE
    BY <2>8
  <2> QED
    BY <2>2, <2>3, <2>4, <2>5, <2>6, <2>7, <2>8
       DEF Next, Effect, Traffic, Fetch, Answered, Expire, vars, tab
<1> QED
  BY <1>1, CalmHolds, PTL DEF Spec, StaysSignedIn
=============================================================================
