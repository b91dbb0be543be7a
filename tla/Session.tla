------------------------------- MODULE Session -------------------------------
(* Registration, login, reload and logout in the tabs of one browser       *)
(* (store/auth.ts, App.tsx, LoginForm.tsx, RegisterForm.tsx, api/client.ts)*)
(* and what the server answers.  The tabs share localStorage, which no tab *)
(* watches; each keeps a session of its own.  A call reaches the server    *)
(* at one time and its answer is applied at another.                       *)
EXTENDS Naturals, FiniteSets

CONSTANTS
    Tabs, Users, None,
    Tokens, Owner,  \* the tokens logins may get, and whose they are
    Calls,          \* bound: calls in progress at once
    MaxLoads        \* bound: how often tabs are loaded

ASSUME SessionAssumption ==
    /\ None \notin Tabs \cup Users \cup Tokens
    /\ Owner \in [Tokens -> Users]
    /\ MaxLoads \in Nat

VARIABLES
    accounts,       \* registered users
    issued, expired, \* tokens given out, tokens out of date
    stored,         \* localStorage access_token
    open,           \* tabs that are loaded
    auth, token, user, \* the auth store of each tab
    form,           \* view of App, and loading, error and done of the form on it
    call,           \* calls in progress
    loads,
    creator,        \* history: the tab whose request created an account
    stranded,       \* history: tabs whose login stored a token and then failed
    meddled         \* history: tabs whose session was interfered with (see Settled)

serverVars == <<accounts, issued, expired, creator>>
storeVars == <<auth, token, user>>
vars == <<serverVars, stored, open, storeVars, form, call, loads, stranded, meddled>>

Idle == [kind |-> "idle"]
Call == [kind : {"init", "login", "me", "register"}, tab : Tabs \cup {None},
         user : Users \cup {None}, token : Tokens \cup {None},
         at : {"sent", "checked", "ok", "refused"}, mine : BOOLEAN]
Form == [view : {"login", "register"}, loading : BOOLEAN, error : BOOLEAN,
         done : Users \cup {None}]

TypeOK ==
    /\ accounts \subseteq Users /\ issued \subseteq Tokens /\ expired \subseteq Tokens
    /\ stored \in Tokens \cup {None} /\ open \subseteq Tabs
    /\ auth \in [Tabs -> BOOLEAN] /\ token \in [Tabs -> Tokens \cup {None}]
    /\ user \in [Tabs -> Users \cup {None}]
    /\ form \in [Tabs -> Form] /\ call \in [Calls -> Call \cup {Idle}]
    /\ loads \in 0..MaxLoads
    /\ creator \in [Users -> Tabs \cup {None}]
    /\ stranded \subseteq Tabs /\ meddled \subseteq Tabs

Fresh(view) == [view |-> view, loading |-> FALSE, error |-> FALSE, done |-> None]

(* No tab is open; some may have registered, and a token may be left. *)
Init ==
    /\ accounts \in SUBSET Users
    /\ \/ stored = None /\ issued = {}
       \/ stored \in {k \in Tokens : Owner[k] \in accounts} /\ issued = {stored}
    /\ expired \in SUBSET issued
    /\ open = {} /\ auth = [t \in Tabs |-> FALSE]
    /\ token = [t \in Tabs |-> None] /\ user = [t \in Tabs |-> None]
    /\ form = [t \in Tabs |-> Fresh("login")]
    /\ call = [c \in Calls |-> Idle] /\ loads = 0
    /\ creator = [u \in Users |-> None] /\ stranded = {} /\ meddled = {}
-----------------------------------------------------------------------------
Of(t) == {c \in Calls : call[c] # Idle /\ call[c].tab = t}

NewCall(c, kind, t, u, k, mine) ==
    /\ call[c] = Idle
    /\ call' = [call EXCEPT ![c] = [kind |-> kind, tab |-> t, user |-> u, token |-> k,
                                    at |-> "sent", mine |-> mine]]

(* The form of t is left: its calls go on, but answer nobody. *)
Abandoned(t) == [c \in Calls |-> IF c \in Of(t) THEN [call[c] EXCEPT !.mine = FALSE]
                                 ELSE call[c]]

(* A change of localStorage meddles with the other tabs; of t itself it is *)
(* said whether this step puts it right, leaves it, or meddles with it.    *)
Meddle(t, own) ==
    meddled' = {x \in open' : IF x = t THEN own ELSE x \in meddled \/ stored' # stored}

(* A page that loads takes the token from localStorage and asks who it is  *)
(* (initUser).  The answers to the page before it are lost.                *)
Load(t) ==
    /\ loads < MaxLoads /\ loads' = loads + 1
    /\ open' = open \cup {t}
    /\ auth' = [auth EXCEPT ![t] = stored # None]
    /\ token' = [token EXCEPT ![t] = stored] /\ user' = [user EXCEPT ![t] = None]
    /\ form' = [form EXCEPT ![t] = Fresh("login")]
    /\ LET cut == [c \in Calls |-> IF c \in Of(t) THEN [call[c] EXCEPT !.tab = None]
                                   ELSE call[c]]
       IN IF stored = None THEN call' = cut
          ELSE \E c \in Calls :
                  /\ call[c] = Idle
                  /\ call' = [cut EXCEPT ![c] = [kind |-> "init", tab |-> t,
                                user |-> None, token |-> stored, at |-> "sent",
                                mine |-> FALSE]]
    /\ stranded' = stranded \ {t}
    /\ UNCHANGED <<serverVars, stored>>
    /\ Meddle(t, FALSE)

(* The links below the forms. *)
Switch(t) ==
    /\ t \in open /\ ~auth[t]
    /\ form' = [form EXCEPT ![t] = Fresh(IF @.view = "login" THEN "register" ELSE "login")]
    /\ call' = Abandoned(t)
    /\ UNCHANGED <<serverVars, stored, open, storeVars, loads, stranded, meddled>>

(* handleSubmit of either form: the button is off while loading. *)
Submit(t, u) ==
    /\ t \in open /\ ~auth[t] /\ ~form[t].loading /\ form[t].done = None
    /\ form' = [form EXCEPT ![t].loading = TRUE, ![t].error = FALSE]
    /\ \E c \in Calls : NewCall(c, form[t].view, t, u, None, TRUE)
    /\ UNCHANGED <<serverVars, stored, open, storeVars, loads, stranded>>
    /\ Meddle(t, t \in meddled \/ Of(t) # {})

(* Mutant of Logout: the token stays in localStorage. *)
LogoutKeepsToken(t) ==
    /\ t \in open /\ auth[t]
    /\ auth' = [auth EXCEPT ![t] = FALSE]
    /\ token' = [token EXCEPT ![t] = None] /\ user' = [user EXCEPT ![t] = None]
    /\ form' = [form EXCEPT ![t] = Fresh(@.view)]
    /\ stranded' = stranded \ {t}
    /\ UNCHANGED <<serverVars, stored, open, call, loads>>
    /\ Meddle(t, Of(t) # {})

(* logout; the form comes up anew *)
Logout(t) ==
    /\ t \in open /\ auth[t]
    /\ stored' = None
    /\ auth' = [auth EXCEPT ![t] = FALSE]
    /\ token' = [token EXCEPT ![t] = None] /\ user' = [user EXCEPT ![t] = None]
    /\ form' = [form EXCEPT ![t] = Fresh(@.view)]
    /\ stranded' = stranded \ {t}
    /\ UNCHANGED <<serverVars, open, call, loads>>
    /\ Meddle(t, Of(t) # {})
-----------------------------------------------------------------------------
Answered(c, at) == call' = [call EXCEPT ![c].at = at]
Served == UNCHANGED <<stored, open, storeVars, form, loads, stranded, meddled>>

(* auth_service.login: a token if the user is there and the password       *)
(* right.                                                                  *)
Authenticate(c) ==
    /\ call[c] # Idle /\ call[c].kind = "login" /\ call[c].at = "sent"
    /\ \/ /\ Answered(c, "refused") /\ UNCHANGED issued
       \/ /\ call[c].user \in accounts
          /\ \E k \in {x \in Tokens \ issued : Owner[x] = call[c].user} :
                /\ issued' = issued \cup {k}
                /\ call' = [call EXCEPT ![c].at = "ok", ![c].token = k]
    /\ UNCHANGED <<accounts, expired, creator>> /\ Served

(* get_current_user *)
Identify(c) ==
    /\ call[c] # Idle /\ call[c].kind \in {"init", "me"} /\ call[c].at = "sent"
    /\ Answered(c, IF call[c].token \in issued \ expired THEN "ok" ELSE "refused")
    /\ UNCHANGED serverVars /\ Served

(* auth_service.register: the lookup, then the insert and the commit, at   *)
(* which the unique column stops a user who came in between.               *)
CheckEmail(c) ==
    /\ call[c] # Idle /\ call[c].kind = "register" /\ call[c].at = "sent"
    /\ Answered(c, IF call[c].user \in accounts THEN "refused" ELSE "checked")
    /\ UNCHANGED serverVars /\ Served

(* Mutant of CreateUser: no constraint, the last one wins. *)
CreateUserAgain(c) ==
    /\ call[c] # Idle /\ call[c].at = "checked"
    /\ accounts' = accounts \cup {call[c].user}
    /\ creator' = [creator EXCEPT ![call[c].user] = call[c].tab]
    /\ Answered(c, "ok")
    /\ UNCHANGED <<issued, expired>> /\ Served

CreateUser(c) ==
    /\ call[c] # Idle /\ call[c].at = "checked"
    /\ IF call[c].user \in accounts
       THEN Answered(c, "refused") /\ UNCHANGED <<accounts, creator>>
       ELSE /\ accounts' = accounts \cup {call[c].user}
            /\ creator' = [creator EXCEPT ![call[c].user] = call[c].tab]
            /\ Answered(c, "ok")
    /\ UNCHANGED <<issued, expired>> /\ Served

Expire(k) ==
    /\ k \in issued \ expired
    /\ expired' = expired \cup {k}
    /\ UNCHANGED <<accounts, issued, creator, call>> /\ Served
-----------------------------------------------------------------------------
Ended(c) == call' = [call EXCEPT ![c] = Idle]

(* initUser: the user is set, whatever happened since; the token is not. *)
InitOk(c) ==
    /\ call[c] # Idle /\ call[c].kind = "init" /\ call[c].at = "ok"
    /\ LET t == call[c].tab IN
       IF t = None THEN UNCHANGED <<auth, user, form>>
       ELSE /\ auth' = [auth EXCEPT ![t] = TRUE]
            /\ user' = [user EXCEPT ![t] = Owner[call[c].token]]
            /\ form' = [form EXCEPT ![t] = Fresh(@.view)]
    /\ call' = [IF call[c].tab = None THEN call ELSE Abandoned(call[c].tab)
                   EXCEPT ![c] = Idle]
    /\ UNCHANGED <<serverVars, stored, open, token, loads, stranded, meddled>>

(* initUser's catch: whatever the error was, the token is removed, also    *)
(* one that was stored since, and the tab logged out.                      *)
InitFails(c) ==
    /\ call[c] # Idle /\ call[c].kind = "init" /\ Ended(c)
    /\ LET t == call[c].tab IN
       /\ IF t = None THEN UNCHANGED <<stored, storeVars, form>>
          ELSE /\ stored' = None
               /\ auth' = [auth EXCEPT ![t] = FALSE]
               /\ token' = [token EXCEPT ![t] = None]
               /\ user' = [user EXCEPT ![t] = None]
               /\ form' = [form EXCEPT ![t] = IF auth[t] THEN Fresh(@.view) ELSE @]
       /\ UNCHANGED <<serverVars, open, loads, stranded>>
       /\ Meddle(t, t \in meddled)

(* login: the token is stored, then the user fetched with it. *)
LoginOk(c) ==
    /\ call[c] # Idle /\ call[c].kind = "login" /\ call[c].at = "ok"
    /\ IF call[c].tab = None THEN UNCHANGED stored /\ Ended(c)
       ELSE /\ stored' = call[c].token
            /\ call' = [call EXCEPT ![c].kind = "me", ![c].at = "sent"]
    /\ UNCHANGED <<serverVars, open, storeVars, form, loads, stranded>>
    /\ Meddle(call[c].tab, call[c].tab \in meddled)

MeOk(c) ==
    /\ call[c] # Idle /\ call[c].kind = "me" /\ call[c].at = "ok"
    /\ LET t == call[c].tab IN
       IF t = None THEN UNCHANGED <<storeVars, form, stranded>>
       ELSE /\ auth' = [auth EXCEPT ![t] = TRUE]
            /\ token' = [token EXCEPT ![t] = call[c].token]
            /\ user' = [user EXCEPT ![t] = Owner[call[c].token]]
            /\ form' = [form EXCEPT ![t] = Fresh(@.view)]
            /\ stranded' = stranded \ {t}
    /\ call' = [IF call[c].tab = None THEN call ELSE Abandoned(call[c].tab)
                   EXCEPT ![c] = Idle]
    /\ UNCHANGED <<serverVars, stored, open, loads, meddled>>

RegisterOk(c) ==
    /\ call[c] # Idle /\ call[c].kind = "register" /\ call[c].at = "ok" /\ Ended(c)
    /\ form' = IF call[c].mine /\ call[c].tab # None
               THEN [form EXCEPT ![call[c].tab].done = call[c].user,
                                 ![call[c].tab].loading = FALSE]
               ELSE form
    /\ UNCHANGED <<serverVars, stored, open, storeVars, loads, stranded, meddled>>

(* The catch and finally of the forms: refused, or the call or its answer  *)
(* was lost.  A token that was stored stays.                               *)
SubmitFails(c) ==
    /\ call[c] # Idle /\ call[c].kind \in {"login", "me", "register"} /\ Ended(c)
    /\ form' = IF call[c].mine /\ call[c].tab # None
               THEN [form EXCEPT ![call[c].tab].error = TRUE,
                                 ![call[c].tab].loading = FALSE]
               ELSE form
    /\ stranded' = IF call[c].kind = "me" /\ call[c].tab # None
                   THEN stranded \cup {call[c].tab} ELSE stranded
    /\ UNCHANGED <<serverVars, stored, open, storeVars, loads, meddled>>
-----------------------------------------------------------------------------
Next ==
    \/ \E t \in Tabs : \/ Load(t) \/ Switch(t) \/ Logout(t)
                       \/ \E u \in Users : Submit(t, u)
    \/ \E c \in Calls : \/ Authenticate(c) \/ Identify(c) \/ CheckEmail(c)
                        \/ CreateUser(c) \/ InitOk(c) \/ InitFails(c) \/ LoginOk(c)
                        \/ MeOk(c) \/ RegisterOk(c) \/ SubmitFails(c)
    \/ \E k \in Tokens : Expire(k)

Spec == Init /\ [][Next]_vars
-----------------------------------------------------------------------------
Settled(t) == t \in open \ meddled /\ Of(t) = {}

(* Once the calls of a tab are answered its session is one: it is logged   *)
(* in as the owner of the token in localStorage, which its socket uses     *)
(* too, or it is logged out and no token is left.  Unless somebody         *)
(* meddled: another tab changed localStorage, or the user acted while a    *)
(* call of this tab was in progress; or a login failed halfway.            *)
Coherent ==
    \A t \in Tabs : Settled(t) =>
        IF auth[t]
        THEN stored # None /\ token[t] = stored /\ user[t] = Owner[stored]
        ELSE (stored = None \/ t \in stranded) /\ token[t] = None

(* "Registered" is shown to the tab that created the account, and of two   *)
(* that try at once to one.                                                *)
DoneMeansCreated ==
    \A t \in Tabs : form[t].done # None =>
        form[t].done \in accounts /\ creator[form[t].done] = t
=============================================================================
