---------------------------- MODULE BrowserProofs ----------------------------
(* Proofs about what the tabs of a browser hold, for any tabs, users,      *)
(* tokens, calls, rooms, messages and lost connections.  Of Session: its   *)
(* types, that of all who try to register a user one is told it succeeded, *)
(* and that a tab agrees with localStorage.  Of UnreadCounts: its types,   *)
(* and that badges agree with the server.  Of SeenMessages: that what is   *)
(* read was seen, but for the exceptions that missed names.                *)
EXTENDS Session, SeenMessages, FiniteSetTheorems, TLAPS

-----------------------------------------------------------------------------
(* Session. *)
(* What holds of a call in progress: who and what it is about, and that a  *)
(* registration the server accepted created the account.                   *)
WellFormed(r) ==
    /\ r.kind \in {"login", "register"} => r.user \in Users
    /\ r.at = "checked" => r.kind = "register"
    /\ r.kind \in {"init", "me"} \/ (r.kind = "login" /\ r.at = "ok")
          => r.token \in Tokens

Told(r) ==
    r.kind = "register" /\ r.at = "ok" /\ r.tab # None =>
        r.user \in accounts /\ creator[r.user] = r.tab

CallsRight == \A c \in Calls : call[c] # Idle => WellFormed(call[c]) /\ Told(call[c])

(* An empty form is a form. *)
LEMMA FreshType ==
    ASSUME NEW view \in {"login", "register"}
    PROVE  Fresh(view) \in Form
BY DEF Fresh, Form

(* A call is not the mark of an idle slot. *)
LEMMA CallIsNotIdle ==
    ASSUME NEW r \in Call PROVE r # Idle
<1>1. r.kind \in {"init", "login", "me", "register"}
    BY DEF Call
<1>2. Idle.kind = "idle"
    BY DEF Idle
<1>3. QED
    BY <1>1, <1>2

(* What the forms and a reload do to a call in progress. *)
LEMMA CallChange ==
    ASSUME NEW r \in Call
    PROVE  /\ [r EXCEPT !.mine = FALSE] \in Call
           /\ [r EXCEPT !.tab = None] \in Call
BY DEF Call

(* The calls of a form that was left are calls. *)
LEMMA AbandonedType ==
    ASSUME TypeOK, NEW t
    PROVE  Abandoned(t) \in [Calls -> Call \cup {Idle}]
<1>1. ASSUME NEW c \in Calls PROVE Abandoned(t)[c] \in Call \cup {Idle}
    <2>1. CASE c \in Of(t)
        <3>1. call[c] \in Call
            BY <2>1 DEF Of, TypeOK
        <3>2. QED
            BY <2>1, <3>1, CallChange DEF Abandoned
    <2>2. CASE c \notin Of(t)
        BY <2>2 DEF Abandoned, TypeOK
    <2>3. QED
        BY <2>1, <2>2
<1>2. QED
    BY <1>1 DEF Abandoned

(* What the server answers keeps a call one. *)
LEMMA AnsweredType ==
    ASSUME TypeOK, NEW c \in Calls, call[c] # Idle,
           NEW at \in {"sent", "checked", "ok", "refused"}, Answered(c, at)
    PROVE  call' \in [Calls -> Call \cup {Idle}]
<1>1. [call[c] EXCEPT !.at = at] \in Call
    BY DEF TypeOK, Call
<1>2. call' = [call EXCEPT ![c] = [call[c] EXCEPT !.at = at]]
    BY DEF Answered
<1>3. QED
    BY <1>1, <1>2 DEF TypeOK

(* A call that is over leaves its slot idle. *)
LEMMA EndedType ==
    ASSUME TypeOK, NEW c \in Calls,
           Ended(c) \/ \E t : call' = [Abandoned(t) EXCEPT ![c] = Idle]
                    \/ call' = [call EXCEPT ![c] = Idle]
    PROVE  call' \in [Calls -> Call \cup {Idle}]
BY AbandonedType DEF Ended, TypeOK

(* What a tab does keeps the types. *)
LEMMA TabType ==
    ASSUME TypeOK, NEW t \in Tabs,
           Load(t) \/ Switch(t) \/ Logout(t) \/ \E u \in Users : Submit(t, u)
    PROVE  TypeOK'
<1>1. \A f \in Form : f.view \in {"login", "register"}
    BY DEF Form
<1>2. form[t] \in Form /\ Fresh(form[t].view) \in Form /\ Fresh("login") \in Form
      /\ Fresh("register") \in Form
    BY <1>1, FreshType DEF TypeOK
<1>3. CASE Load(t)
    <2> DEFINE cut == [c \in Calls |-> IF c \in Of(t)
                                       THEN [call[c] EXCEPT !.tab = None] ELSE call[c]]
    <2>1. cut \in [Calls -> Call \cup {Idle}]
        <3>1. ASSUME NEW c \in Calls PROVE cut[c] \in Call \cup {Idle}
            <4>1. CASE c \in Of(t)
                <5>1. call[c] \in Call
                    BY <4>1 DEF Of, TypeOK
                <5>2. QED
                    BY <4>1, <5>1, CallChange
            <4>2. CASE c \notin Of(t)
                BY <4>2 DEF TypeOK
            <4>3. QED
                BY <4>1, <4>2
        <3>2. QED
            BY <3>1
    <2>2. \/ call' = cut
          \/ \E c \in Calls : call' = [cut EXCEPT ![c] = [kind |-> "init", tab |-> t,
                user |-> None, token |-> stored, at |-> "sent", mine |-> FALSE]]
        BY <1>3 DEF Load
    <2>3. [kind |-> "init", tab |-> t, user |-> None, token |-> stored,
           at |-> "sent", mine |-> FALSE] \in Call
        BY DEF Call, TypeOK
    <2>4. call' \in [Calls -> Call \cup {Idle}]
        <3> HIDE DEF cut
        <3>1. QED
            BY <2>1, <2>2, <2>3
    <2>5. form' \in [Tabs -> Form]
        BY <1>2, <1>3 DEF Load, TypeOK
    <2>6. auth' \in [Tabs -> BOOLEAN] /\ token' \in [Tabs -> Tokens \cup {None}]
          /\ user' \in [Tabs -> Users \cup {None}]
        BY <1>3 DEF Load, TypeOK
    <2>7. open' \subseteq Tabs /\ stranded' \subseteq Tabs /\ meddled' \subseteq Tabs
        BY <1>3 DEF Load, TypeOK, Meddle
    <2>8. loads' \in 0..MaxLoads
        BY <1>3, SessionAssumption DEF Load, TypeOK
    <2>9. UNCHANGED <<accounts, issued, expired, stored, creator>>
        BY <1>3 DEF Load, serverVars
    <2>10. QED
        BY <2>4, <2>5, <2>6, <2>7, <2>8, <2>9 DEF TypeOK
<1>4. CASE Switch(t)
    <2>1. call' \in [Calls -> Call \cup {Idle}]
        BY <1>4, AbandonedType DEF Switch
    <2>2. form' \in [Tabs -> Form]
        BY <1>2, <1>4 DEF Switch, TypeOK
    <2>3. UNCHANGED <<serverVars, stored, open, storeVars, loads, stranded, meddled>>
        BY <1>4 DEF Switch
    <2>4. QED
        BY <2>1, <2>2, <2>3 DEF TypeOK, serverVars, storeVars
<1>5. CASE Logout(t)
    <2>1. form' \in [Tabs -> Form]
        BY <1>2, <1>5 DEF Logout, TypeOK
    <2>2. auth' \in [Tabs -> BOOLEAN] /\ token' \in [Tabs -> Tokens \cup {None}]
          /\ user' \in [Tabs -> Users \cup {None}]
        BY <1>5 DEF Logout, TypeOK
    <2>3. /\ stored' = None /\ stranded' \subseteq Tabs /\ meddled' \subseteq Tabs
          /\ UNCHANGED <<serverVars, open, call, loads>>
        BY <1>5 DEF Logout, TypeOK, Meddle
    <2>4. QED
        BY <2>1, <2>2, <2>3 DEF TypeOK, serverVars
<1>6. ASSUME NEW u \in Users, Submit(t, u) PROVE TypeOK'
    <2>1. PICK c \in Calls : NewCall(c, form[t].view, t, u, None, TRUE)
        BY <1>6 DEF Submit
    <2>2. [kind |-> form[t].view, tab |-> t, user |-> u, token |-> None,
           at |-> "sent", mine |-> TRUE] \in Call
        BY <1>1, <1>2 DEF Call
    <2>3. call' \in [Calls -> Call \cup {Idle}]
        BY <2>1, <2>2 DEF NewCall, TypeOK
    <2>4. [form[t] EXCEPT !.loading = TRUE, !.error = FALSE] \in Form
        BY <1>2 DEF Form
    <2>5. form' = [form EXCEPT ![t] = [form[t] EXCEPT !.loading = TRUE, !.error = FALSE]]
        BY <1>6 DEF Submit, TypeOK
    <2>6. form' \in [Tabs -> Form]
        BY <2>4, <2>5 DEF TypeOK
    <2>7. /\ meddled' \subseteq Tabs
          /\ UNCHANGED <<serverVars, stored, open, storeVars, loads, stranded>>
        BY <1>6 DEF Submit, TypeOK, Meddle
    <2>8. QED
        BY <2>3, <2>6, <2>7 DEF TypeOK, serverVars, storeVars
<1>7. QED
    BY <1>3, <1>4, <1>5, <1>6

(* What the server does keeps the types. *)
LEMMA ServerType ==
    ASSUME TypeOK, CallsRight, NEW c \in Calls,
           Authenticate(c) \/ Identify(c) \/ CheckEmail(c) \/ CreateUser(c)
    PROVE  TypeOK'
<1>1. call[c] \in Call /\ call[c] # Idle
    BY DEF Authenticate, Identify, CheckEmail, CreateUser, TypeOK
<1>2. Served
    BY DEF Authenticate, Identify, CheckEmail, CreateUser
<1>3. CASE Authenticate(c)
    <2>1. CASE Answered(c, "refused") /\ UNCHANGED issued
        <3>1. call' \in [Calls -> Call \cup {Idle}]
            BY <1>1, <2>1, AnsweredType
        <3>2. QED
            BY <1>2, <1>3, <2>1, <3>1 DEF Authenticate, Served, storeVars, TypeOK
    <2>2. ASSUME NEW k \in Tokens, issued' = issued \cup {k},
                 call' = [call EXCEPT ![c].at = "ok", ![c].token = k]
          PROVE  TypeOK'
        <3>1. [call[c] EXCEPT !.at = "ok", !.token = k] \in Call
            BY <1>1 DEF Call
        <3>2. call' = [call EXCEPT ![c] = [call[c] EXCEPT !.at = "ok", !.token = k]]
            BY <2>2 DEF TypeOK
        <3>3. call' \in [Calls -> Call \cup {Idle}]
            BY <3>1, <3>2 DEF TypeOK
        <3>4. QED
            BY <1>2, <1>3, <2>2, <3>3 DEF Authenticate, Served, storeVars, TypeOK
    <2>3. QED
        BY <1>3, <2>1, <2>2 DEF Authenticate
<1>4. CASE Identify(c) \/ CheckEmail(c)
    <2>1. \E at \in {"sent", "checked", "ok", "refused"} : Answered(c, at)
        BY <1>4 DEF Identify, CheckEmail
    <2>2. call' \in [Calls -> Call \cup {Idle}]
        BY <1>1, <2>1, AnsweredType
    <2>3. UNCHANGED serverVars
        BY <1>4 DEF Identify, CheckEmail
    <2>4. QED
        BY <1>2, <2>2, <2>3 DEF Served, serverVars, storeVars, TypeOK
<1>5. CASE CreateUser(c)
    <2>1. call[c].user \in Users /\ call[c].tab \in Tabs \cup {None}
        BY <1>1, <1>5 DEF CreateUser, CallsRight, WellFormed, Call
    <2>2. \E at \in {"sent", "checked", "ok", "refused"} : Answered(c, at)
        BY <1>5 DEF CreateUser
    <2>3. call' \in [Calls -> Call \cup {Idle}]
        BY <1>1, <2>2, AnsweredType
    <2>4. /\ accounts' \subseteq Users /\ creator' \in [Users -> Tabs \cup {None}]
          /\ UNCHANGED <<issued, expired>>
        BY <1>5, <2>1 DEF CreateUser, TypeOK
    <2>5. QED
        BY <1>2, <2>3, <2>4 DEF Served, storeVars, TypeOK
<1>6. QED
    BY <1>3, <1>4, <1>5

(* A change of one form. *)
LEMMA FormType ==
    ASSUME TypeOK, NEW t \in Tabs
    PROVE  /\ Fresh(form[t].view) \in Form
           /\ \A u \in Users \cup {None} :
                [form[t] EXCEPT !.done = u, !.loading = FALSE] \in Form
           /\ [form[t] EXCEPT !.error = TRUE, !.loading = FALSE] \in Form
<1>1. form[t] \in Form /\ form[t].view \in {"login", "register"}
    BY DEF TypeOK, Form
<1>2. Fresh(form[t].view) \in Form
    BY <1>1, FreshType
<1>3. \A u \in Users \cup {None} :
        [form[t] EXCEPT !.done = u, !.loading = FALSE] \in Form
    BY <1>1 DEF Form
<1>4. [form[t] EXCEPT !.error = TRUE, !.loading = FALSE] \in Form
    BY <1>1 DEF Form
<1>5. QED
    BY <1>2, <1>3, <1>4

(* The store of a tab that learns who it is, or is logged out. *)
LEMMA StoreType ==
    ASSUME TypeOK, NEW t \in Tabs, NEW b \in BOOLEAN, NEW k \in Tokens \cup {None},
           NEW u \in Users \cup {None}
    PROVE  /\ [auth EXCEPT ![t] = b] \in [Tabs -> BOOLEAN]
           /\ [token EXCEPT ![t] = k] \in [Tabs -> Tokens \cup {None}]
           /\ [user EXCEPT ![t] = u] \in [Tabs -> Users \cup {None}]
BY DEF TypeOK

(* What a page does with an answer, or with a failure, keeps the types. *)
LEMMA AnswerType ==
    ASSUME TypeOK, CallsRight, NEW c \in Calls,
           \/ InitOk(c) \/ InitFails(c) \/ LoginOk(c)
           \/ MeOk(c) \/ RegisterOk(c) \/ SubmitFails(c)
    PROVE  TypeOK'
<1> DEFINE t == call[c].tab
<1>1. call[c] \in Call /\ call[c] # Idle /\ t \in Tabs \cup {None}
      /\ WellFormed(call[c])
    BY DEF InitOk, InitFails, LoginOk, MeOk, RegisterOk, SubmitFails, TypeOK, Call,
           CallsRight
<1>2. ASSUME call[c].token \in Tokens PROVE Owner[call[c].token] \in Users
    BY <1>2, SessionAssumption
<1>3. CASE InitOk(c)
    <2>1. call' \in [Calls -> Call \cup {Idle}]
        BY <1>3, EndedType DEF InitOk
    <2>2. Owner[call[c].token] \in Users
        BY <1>1, <1>2, <1>3 DEF InitOk, WellFormed
    <2>3. UNCHANGED <<serverVars, stored, open, token, loads, stranded, meddled>>
        BY <1>3 DEF InitOk
    <2>4. CASE t = None
        BY <1>3, <2>1, <2>3, <2>4 DEF InitOk, TypeOK, serverVars
    <2>5. CASE t \in Tabs
        <3>1. /\ auth' = [auth EXCEPT ![t] = TRUE]
              /\ user' = [user EXCEPT ![t] = Owner[call[c].token]]
              /\ form' = [form EXCEPT ![t] = Fresh(form[t].view)]
            BY <1>3, <2>5, SessionAssumption DEF InitOk, TypeOK
        <3>2. auth' \in [Tabs -> BOOLEAN] /\ user' \in [Tabs -> Users \cup {None}]
            BY <2>2, <2>5, <3>1, StoreType
        <3>3. form' \in [Tabs -> Form]
            BY <2>5, <3>1, FormType DEF TypeOK
        <3>4. QED
            BY <2>1, <2>3, <3>2, <3>3 DEF TypeOK, serverVars
    <2>6. QED
        BY <1>1, <2>4, <2>5
<1>4. CASE InitFails(c)
    <2>1. call' \in [Calls -> Call \cup {Idle}]
        BY <1>4, EndedType DEF InitFails
    <2>2. UNCHANGED <<serverVars, open, loads, stranded>> /\ meddled' \subseteq Tabs
        BY <1>4 DEF InitFails, Meddle, TypeOK
    <2>3. CASE t = None
        <3>1. UNCHANGED <<stored, storeVars, form>>
            BY <1>4, <2>3 DEF InitFails
        <3>2. QED
            BY <2>1, <2>2, <3>1 DEF TypeOK, serverVars, storeVars
    <2>4. CASE t \in Tabs
        <3>1. /\ stored' = None
              /\ auth' = [auth EXCEPT ![t] = FALSE]
              /\ token' = [token EXCEPT ![t] = None]
              /\ user' = [user EXCEPT ![t] = None]
              /\ form' = [form EXCEPT ![t] = IF auth[t] THEN Fresh(@.view) ELSE @]
            BY <1>4, <2>4, SessionAssumption DEF InitFails
        <3>2. /\ auth' \in [Tabs -> BOOLEAN] /\ user' \in [Tabs -> Users \cup {None}]
              /\ token' \in [Tabs -> Tokens \cup {None}]
            BY <2>4, <3>1, StoreType
        <3>3. form' = [form EXCEPT ![t] = Fresh(form[t].view)] \/ form' = form
            BY <3>1, <2>4 DEF TypeOK
        <3>4. form' \in [Tabs -> Form]
            BY <2>4, <3>3, FormType DEF TypeOK
        <3>5. QED
            BY <2>1, <2>2, <3>1, <3>2, <3>4 DEF TypeOK, serverVars
    <2>5. QED
        BY <1>1, <2>3, <2>4
<1>5. CASE LoginOk(c)
    <2>1. [call[c] EXCEPT !.kind = "me", !.at = "sent"] \in Call
        BY <1>1 DEF Call
    <2>2. \/ Ended(c) /\ UNCHANGED stored
          \/ /\ stored' = call[c].token
             /\ call' = [call EXCEPT ![c] = [call[c] EXCEPT !.kind = "me", !.at = "sent"]]
        BY <1>5 DEF LoginOk, TypeOK
    <2>3. call' \in [Calls -> Call \cup {Idle}]
        BY <2>1, <2>2, EndedType DEF TypeOK
    <2>4. stored' \in Tokens \cup {None}
        BY <1>1, <2>2 DEF Call, TypeOK
    <2>5. /\ UNCHANGED <<serverVars, open, storeVars, form, loads, stranded>>
          /\ meddled' \subseteq Tabs
        BY <1>5 DEF LoginOk, Meddle, TypeOK
    <2>6. QED
        BY <2>3, <2>4, <2>5 DEF TypeOK, serverVars, storeVars
<1>6. CASE MeOk(c)
    <2>1. call' \in [Calls -> Call \cup {Idle}]
        BY <1>6, EndedType DEF MeOk
    <2>2. Owner[call[c].token] \in Users /\ call[c].token \in Tokens
        BY <1>1, <1>2, <1>6 DEF MeOk, WellFormed
    <2>3. UNCHANGED <<serverVars, stored, open, loads, meddled>>
        BY <1>6 DEF MeOk
    <2>4. CASE t = None
        BY <1>6, <2>1, <2>3, <2>4 DEF MeOk, TypeOK, serverVars, storeVars
    <2>5. CASE t \in Tabs
        <3>1. /\ auth' = [auth EXCEPT ![t] = TRUE]
              /\ token' = [token EXCEPT ![t] = call[c].token]
              /\ user' = [user EXCEPT ![t] = Owner[call[c].token]]
              /\ form' = [form EXCEPT ![t] = Fresh(form[t].view)]
              /\ stranded' = stranded \ {t}
            BY <1>6, <2>5, SessionAssumption DEF MeOk, TypeOK
        <3>2. /\ auth' \in [Tabs -> BOOLEAN] /\ user' \in [Tabs -> Users \cup {None}]
              /\ token' \in [Tabs -> Tokens \cup {None}]
            BY <2>2, <2>5, <3>1, StoreType
        <3>3. form' \in [Tabs -> Form]
            BY <2>5, <3>1, FormType DEF TypeOK
        <3>4. QED
            BY <2>1, <2>3, <3>1, <3>2, <3>3 DEF TypeOK, serverVars
    <2>6. QED
        BY <1>1, <2>4, <2>5
<1>7. CASE RegisterOk(c)
    <2>1. call' \in [Calls -> Call \cup {Idle}]
        BY <1>7, EndedType DEF RegisterOk
    <2>2. \/ form' = form
          \/ /\ t \in Tabs
             /\ form' = [form EXCEPT ![t] =
                           [form[t] EXCEPT !.done = call[c].user, !.loading = FALSE]]
        BY <1>1, <1>7 DEF RegisterOk, TypeOK
    <2>3. call[c].user \in Users
        BY <1>1, <1>7 DEF RegisterOk, WellFormed
    <2>4. form' \in [Tabs -> Form]
        <3> DEFINE f == [form[t] EXCEPT !.done = call[c].user, !.loading = FALSE]
        <3>1. t \in Tabs => f \in Form
            BY <2>3, FormType
        <3>2. form' = form \/ (t \in Tabs /\ form' = [form EXCEPT ![t] = f])
            BY <2>2
        <3> HIDE DEF f
        <3>3. QED
            BY <3>1, <3>2 DEF TypeOK
    <2>5. UNCHANGED <<serverVars, stored, open, storeVars, loads, stranded, meddled>>
        BY <1>7 DEF RegisterOk
    <2>6. QED
        BY <2>1, <2>4, <2>5 DEF TypeOK, serverVars, storeVars
<1>8. CASE SubmitFails(c)
    <2>1. call' \in [Calls -> Call \cup {Idle}]
        BY <1>8, EndedType DEF SubmitFails
    <2>2. \/ form' = form
          \/ /\ t \in Tabs
             /\ form' = [form EXCEPT ![t] =
                           [form[t] EXCEPT !.error = TRUE, !.loading = FALSE]]
        BY <1>1, <1>8 DEF SubmitFails, TypeOK
    <2>3. form' \in [Tabs -> Form]
        BY <2>2, FormType DEF TypeOK
    <2>4. /\ stranded' \subseteq Tabs
          /\ UNCHANGED <<serverVars, stored, open, storeVars, loads, meddled>>
        BY <1>1, <1>8 DEF SubmitFails, TypeOK
    <2>5. QED
        BY <2>1, <2>3, <2>4 DEF TypeOK, serverVars, storeVars
<1>9. QED
    BY <1>3, <1>4, <1>5, <1>6, <1>7, <1>8

(* A step that changes one call, and creates at most new accounts, keeps   *)
(* the calls right if it keeps that one right.                             *)
LEMMA OneCallRight ==
    ASSUME TypeOK, CallsRight, NEW c \in Calls, NEW r,
           call' = [call EXCEPT ![c] = r],
           accounts \subseteq accounts',
           \A u \in accounts : creator'[u] = creator[u],
           r # Idle => WellFormed(r) /\ Told(r)'
    PROVE  CallsRight'
<1>1. ASSUME NEW d \in Calls, call'[d] # Idle
      PROVE  WellFormed(call'[d]) /\ Told(call[d])'
    <2>1. CASE d = c
        BY <1>1, <2>1 DEF TypeOK, Told
    <2>2. CASE d # c
        <3>1. call'[d] = call[d]
            BY <2>2 DEF TypeOK
        <3>2. WellFormed(call[d]) /\ Told(call[d])
            BY <1>1, <3>1 DEF CallsRight
        <3>3. QED
            BY <3>1, <3>2 DEF Told
    <2>3. QED
        BY <2>1, <2>2
<1>2. QED
    BY <1>1 DEF CallsRight, WellFormed, Told

(* Who is told that a registration succeeded, by a form or by an answer on *)
(* its way, created the account: the inductive invariant.                  *)
Truthful == CallsRight /\ DoneMeansCreated

(* A step that leaves the accounts alone and the calls to the same tabs    *)
(* and users, or to none, keeps them right.                                *)
LEMMA QuietCalls ==
    ASSUME TypeOK, CallsRight, UNCHANGED <<accounts, creator>>,
           \A c \in Calls : call'[c] # Idle =>
                /\ call[c] # Idle
                /\ call'[c].kind = call[c].kind /\ call'[c].at = call[c].at
                /\ call'[c].user = call[c].user /\ call'[c].token = call[c].token
                /\ call'[c].tab \in {call[c].tab, None}
    PROVE  CallsRight'
BY DEF CallsRight, WellFormed, Told

(* Leaving a form does so. *)
LEMMA AbandonedQuiet ==
    ASSUME TypeOK, NEW t, NEW c \in Calls, Abandoned(t)[c] # Idle
    PROVE  /\ call[c] # Idle
           /\ Abandoned(t)[c].kind = call[c].kind /\ Abandoned(t)[c].at = call[c].at
           /\ Abandoned(t)[c].user = call[c].user
           /\ Abandoned(t)[c].token = call[c].token
           /\ Abandoned(t)[c].tab = call[c].tab
<1>1. CASE c \in Of(t)
    <2>1. call[c] \in Call /\ call[c] # Idle
        BY <1>1 DEF Of, TypeOK
    <2>2. Abandoned(t)[c] = [call[c] EXCEPT !.mine = FALSE]
        BY <1>1 DEF Abandoned
    <2>3. QED
        BY <2>1, <2>2 DEF Call
<1>2. CASE c \notin Of(t)
    BY <1>2 DEF Abandoned
<1>3. QED
    BY <1>1, <1>2

(* A step that tells no form of a success keeps what the forms say true.   *)
LEMMA FormsKept ==
    ASSUME TypeOK, DoneMeansCreated,
           accounts \subseteq accounts',
           \A u \in accounts : creator'[u] = creator[u],
           \A t \in Tabs : form'[t].done \in {form[t].done, None}
    PROVE  DoneMeansCreated'
BY DEF DoneMeansCreated

(* Leaving or renewing one form is such a step. *)
LEMMA FormsRenewed ==
    ASSUME TypeOK, NEW t \in Tabs, NEW view, NEW x \in Tabs,
           form' = [form EXCEPT ![t] = Fresh(view)] \/ form' = form
    PROVE  form'[x].done \in {form[x].done, None}
<1>1. Fresh(view).done = None
    BY DEF Fresh
<1>2. form'[x] = Fresh(view) \/ form'[x] = form[x]
    BY DEF TypeOK
<1>3. QED
    BY <1>1, <1>2

(* The steps of a tab. *)
LEMMA TabTruthful ==
    ASSUME TypeOK, Truthful, NEW t \in Tabs,
           Load(t) \/ Switch(t) \/ Logout(t) \/ \E u \in Users : Submit(t, u)
    PROVE  Truthful'
<1>1. UNCHANGED <<accounts, creator>>
    BY DEF Load, Switch, Logout, Submit, serverVars
<1>2. \A x \in Tabs : form'[x].done \in {form[x].done, None}
    <2>1. CASE Load(t)
        BY <2>1, FormsRenewed DEF Load
    <2>2. CASE Switch(t)
        BY <2>2, FormsRenewed DEF Switch, TypeOK
    <2>3. CASE Logout(t)
        BY <2>3, FormsRenewed DEF Logout, TypeOK
    <2>4. ASSUME NEW u \in Users, Submit(t, u), NEW x \in Tabs
          PROVE  form'[x].done = form[x].done
        <3>1. form[t] \in Form
            BY DEF TypeOK
        <3>2. form' = [form EXCEPT ![t] =
                          [form[t] EXCEPT !.loading = TRUE, !.error = FALSE]]
            BY <2>4 DEF Submit, TypeOK
        <3>3. [form[t] EXCEPT !.loading = TRUE, !.error = FALSE].done = form[t].done
            BY <3>1 DEF Form
        <3>4. form'[x] = form[x] \/ x = t
            BY <3>2 DEF TypeOK
        <3>5. QED
            BY <3>2, <3>3, <3>4 DEF TypeOK
    <2>5. QED
        BY <2>1, <2>2, <2>3, <2>4
<1>3. DoneMeansCreated'
    BY <1>1, <1>2, FormsKept DEF Truthful
<1>4. CallsRight'
    <2>1. CASE Load(t)
        <3> DEFINE cut == [c \in Calls |-> IF c \in Of(t)
                               THEN [call[c] EXCEPT !.tab = None] ELSE call[c]]
                   new == [kind |-> "init", tab |-> t, user |-> None,
                           token |-> stored, at |-> "sent", mine |-> FALSE]
        <3>1. \/ call' = cut
              \/ stored # None /\ \E c \in Calls : call' = [cut EXCEPT ![c] = new]
            BY <2>1 DEF Load
        <3>2. ASSUME NEW c \in Calls, cut[c] # Idle
              PROVE  /\ call[c] # Idle
                     /\ cut[c].kind = call[c].kind /\ cut[c].at = call[c].at
                     /\ cut[c].user = call[c].user /\ cut[c].token = call[c].token
                     /\ cut[c].tab \in {call[c].tab, None}
            <4>1. CASE c \in Of(t)
                <5>1. call[c] \in Call /\ call[c] # Idle
                    BY <4>1 DEF Of, TypeOK
                <5>2. cut[c] = [call[c] EXCEPT !.tab = None]
                    BY <4>1
                <5>3. QED
                    BY <5>1, <5>2 DEF Call
            <4>2. CASE c \notin Of(t)
                BY <3>2, <4>2
            <4>3. QED
                BY <4>1, <4>2
        <3>3. stored # None => WellFormed(new)
            BY DEF WellFormed, TypeOK
        <3>4. ASSUME NEW c \in Calls, cut[c] # Idle
              PROVE  WellFormed(cut[c]) /\ (call'[c] = cut[c] => Told(call[c])')
            <4> HIDE DEF cut
            <4>1. WellFormed(call[c]) /\ Told(call[c])
                BY <3>2, <3>4 DEF Truthful, CallsRight
            <4>2. WellFormed(cut[c])
                BY <3>2, <3>4, <4>1 DEF WellFormed
            <4>3. call'[c] = cut[c] => Told(call[c])'
                BY <1>1, <3>2, <3>4, <4>1 DEF Told
            <4>4. QED
                BY <4>2, <4>3
        <3>5. new.kind = "init"
            OBVIOUS
        <3>6. ASSUME NEW c \in Calls, call'[c] # Idle
              PROVE  WellFormed(call'[c]) /\ Told(call[c])'
            <4>1. call'[c] = cut[c] \/ (stored # None /\ call'[c] = new)
                <5>1. cut \in [Calls -> {cut[d] : d \in Calls}]
                    OBVIOUS
                <5> HIDE DEF cut, new
                <5>2. QED
                    BY <3>1, <5>1
            <4> HIDE DEF cut, new
            <4>2. CASE call'[c] = cut[c]
                BY <3>4, <3>6, <4>2
            <4>3. CASE stored # None /\ call'[c] = new
                BY <3>3, <3>5, <4>3 DEF Told
            <4>4. QED
                BY <4>1, <4>2, <4>3
        <3>7. QED
            BY <3>6 DEF CallsRight, WellFormed, Told
    <2>2. CASE Switch(t)
        BY <1>1, <2>2, QuietCalls, AbandonedQuiet DEF Switch, Truthful
    <2>3. CASE Logout(t)
        BY <1>1, <2>3, QuietCalls DEF Logout, Truthful
    <2>4. ASSUME NEW u \in Users, Submit(t, u) PROVE CallsRight'
        <3>1. PICK c \in Calls : NewCall(c, form[t].view, t, u, None, TRUE)
            BY <2>4 DEF Submit
        <3>2. PICK r : r = [kind |-> form[t].view, tab |-> t, user |-> u,
                            token |-> None, at |-> "sent", mine |-> TRUE]
            OBVIOUS
        <3>3. /\ r.kind \in {"login", "register"} /\ r.user = u /\ r.at = "sent"
              /\ call' = [call EXCEPT ![c] = r]
            BY <3>1, <3>2 DEF NewCall, TypeOK, Form
        <3>4. WellFormed(r) /\ Told(r)'
            BY <3>3 DEF WellFormed, Told
        <3>5. QED
            BY <1>1, <3>3, <3>4, OneCallRight DEF Truthful
    <2>5. QED
        BY <2>1, <2>2, <2>3, <2>4
<1>5. QED
    BY <1>3, <1>4 DEF Truthful

(* The steps of the server: of two requests that found the email free the  *)
(* second meets the constraint. *)
LEMMA ServerTruthful ==
    ASSUME TypeOK, Truthful, NEW c \in Calls,
           Authenticate(c) \/ Identify(c) \/ CheckEmail(c) \/ CreateUser(c)
    PROVE  Truthful'
<1>1. call[c] \in Call /\ call[c] # Idle /\ WellFormed(call[c])
    BY DEF Authenticate, Identify, CheckEmail, CreateUser, TypeOK, Truthful, CallsRight
<1>2. form' = form
    BY DEF Authenticate, Identify, CheckEmail, CreateUser, Served
<1>3. /\ accounts \subseteq accounts'
      /\ \A u \in accounts : creator'[u] = creator[u]
    BY <1>1 DEF Authenticate, Identify, CheckEmail, CreateUser, serverVars, TypeOK
<1>4. DoneMeansCreated'
    BY <1>2, <1>3, FormsKept DEF Truthful
<1> SUFFICES CallsRight'
    BY <1>4 DEF Truthful
<1>5. ASSUME NEW r, call' = [call EXCEPT ![c] = r], WellFormed(r), Told(r)'
      PROVE  CallsRight'
    BY <1>3, <1>5, OneCallRight DEF Truthful
<1>6. ASSUME NEW at \in {"checked", "ok", "refused"},
             call' = [call EXCEPT ![c].at = at],
             at = "checked" => call[c].kind = "register",
             at = "ok" => call[c].kind \in {"init", "me"}
      PROVE  CallsRight'
    <2>1. PICK r : r = [call[c] EXCEPT !.at = at]
        OBVIOUS
    <2>2. /\ r.kind = call[c].kind /\ r.user = call[c].user /\ r.at = at
          /\ r.token = call[c].token
        BY <1>1, <2>1 DEF Call
    <2>3. call' = [call EXCEPT ![c] = r]
        BY <1>6, <2>1 DEF TypeOK
    <2>4. WellFormed(r)
        BY <1>1, <1>6, <2>2 DEF WellFormed
    <2>5. Told(r)'
        BY <1>6, <2>2 DEF Told
    <2>6. QED
        BY <1>5, <2>3, <2>4, <2>5
<1>7. CASE Authenticate(c)
    <2>1. CASE Answered(c, "refused")
        BY <1>6, <2>1 DEF Answered
    <2>2. ASSUME NEW k \in Tokens, call' = [call EXCEPT ![c].at = "ok", ![c].token = k]
          PROVE  CallsRight'
        <3>1. PICK r : r = [call[c] EXCEPT !.at = "ok", !.token = k]
            OBVIOUS
        <3>2. r.kind = call[c].kind /\ r.user = call[c].user /\ r.at = "ok" /\ r.token = k
            BY <1>1, <3>1 DEF Call
        <3>3. call' = [call EXCEPT ![c] = r]
            BY <2>2, <3>1 DEF TypeOK
        <3>4. call[c].kind = "login"
            BY <1>7 DEF Authenticate
        <3>5. WellFormed(r) /\ Told(r)'
            BY <1>1, <3>2, <3>4 DEF WellFormed, Told
        <3>6. QED
            BY <1>5, <3>3, <3>5
    <2>3. QED
        BY <1>7, <2>1, <2>2 DEF Authenticate
<1>8. CASE Identify(c)
    BY <1>6, <1>8 DEF Identify, Answered
<1>9. CASE CheckEmail(c)
    BY <1>6, <1>9 DEF CheckEmail, Answered
<1>10. CASE CreateUser(c)
    <2>1. CASE call[c].user \in accounts
        BY <1>6, <1>10, <2>1 DEF CreateUser, Answered
    <2>2. CASE call[c].user \notin accounts
        <3>1. call[c].user \in Users
            BY <1>1, <1>10 DEF CreateUser, WellFormed
        <3>2. call[c].user \in accounts' /\ creator'[call[c].user] = call[c].tab
            BY <1>10, <2>2, <3>1 DEF CreateUser, TypeOK
        <3>3. PICK r : r = [call[c] EXCEPT !.at = "ok"]
            OBVIOUS
        <3>4. /\ r.user = call[c].user /\ r.tab = call[c].tab /\ r.kind = call[c].kind
              /\ r.at = "ok" /\ r.token = call[c].token
            BY <1>1, <3>3 DEF Call
        <3>5. call[c].kind = "register"
            BY <1>1, <1>10 DEF CreateUser, WellFormed
        <3>6. WellFormed(r) /\ Told(r)'
            BY <3>1, <3>2, <3>4, <3>5 DEF WellFormed, Told
        <3>7. call' = [call EXCEPT ![c] = r]
            BY <1>10, <2>2, <3>3 DEF CreateUser, Answered, TypeOK
        <3>8. QED
            BY <1>5, <3>6, <3>7 DEF Told
    <2>3. QED
        BY <2>1, <2>2
<1>11. QED
    BY <1>7, <1>8, <1>9, <1>10

(* The steps with which a page takes in an answer or a failure: the form   *)
(* says only what its own answer says.                                     *)
LEMMA AnswerTruthful ==
    ASSUME TypeOK, Truthful, NEW c \in Calls,
           \/ InitOk(c) \/ InitFails(c) \/ LoginOk(c)
           \/ MeOk(c) \/ RegisterOk(c) \/ SubmitFails(c)
    PROVE  Truthful'
<1> DEFINE t == call[c].tab
<1>1. /\ call[c] \in Call /\ call[c] # Idle /\ t \in Tabs \cup {None}
      /\ WellFormed(call[c]) /\ Told(call[c])
    BY DEF InitOk, InitFails, LoginOk, MeOk, RegisterOk, SubmitFails, TypeOK, Call,
           Truthful, CallsRight
<1>2. UNCHANGED <<accounts, creator>>
    BY DEF InitOk, InitFails, LoginOk, MeOk, RegisterOk, SubmitFails, serverVars
<1>3. ASSUME \A x \in Tabs : form'[x].done \in {form[x].done, None}
      PROVE  DoneMeansCreated'
    BY <1>2, <1>3, FormsKept DEF Truthful
<1>4. ASSUME NEW d, call' = [Abandoned(d) EXCEPT ![c] = Idle] PROVE CallsRight'
    <2>1. ASSUME NEW x \in Calls, call'[x] # Idle
          PROVE  call'[x] = Abandoned(d)[x] /\ Abandoned(d)[x] # Idle
        BY <1>4, <2>1, AbandonedType
    <2>2. QED
        BY <1>2, <2>1, AbandonedQuiet, QuietCalls DEF Truthful
<1>5. ASSUME Ended(c) PROVE CallsRight'
    <2>1. \A x \in Calls : call'[x] # Idle => call'[x] = call[x]
        BY <1>5 DEF Ended, TypeOK
    <2>2. QED
        BY <1>2, <2>1, QuietCalls DEF Truthful
<1>6. ASSUME form' = form \/ (t \in Tabs /\ form' = [form EXCEPT ![t] = Fresh(form[t].view)])
      PROVE  DoneMeansCreated'
    BY <1>3, <1>6, FormsRenewed
<1>7. CASE InitOk(c) \/ MeOk(c)
    <2>1. CallsRight'
        BY <1>4, <1>5, <1>7 DEF InitOk, MeOk, Ended
    <2>2. QED
        BY <1>1, <1>6, <1>7, <2>1 DEF InitOk, MeOk, TypeOK, Truthful
<1>8. CASE InitFails(c)
    <2>1. form' = form \/ (t \in Tabs /\ form' = [form EXCEPT ![t] = Fresh(form[t].view)])
        BY <1>1, <1>8 DEF InitFails, TypeOK
    <2>2. QED
        BY <1>5, <1>6, <1>8, <2>1 DEF InitFails, Truthful
<1>9. CASE LoginOk(c)
    <2>1. CASE call[c].tab = None
        BY <1>5, <1>6, <1>9, <2>1 DEF LoginOk, Truthful
    <2>2. CASE call[c].tab # None
        <3>1. PICK r : r = [call[c] EXCEPT !.kind = "me", !.at = "sent"]
            OBVIOUS
        <3>2. r.kind = "me" /\ r.at = "sent" /\ r.token = call[c].token
            BY <1>1, <3>1 DEF Call
        <3>3. call' = [call EXCEPT ![c] = r]
            BY <1>9, <2>2, <3>1 DEF LoginOk, TypeOK
        <3>4. WellFormed(r) /\ Told(r)'
            BY <1>1, <1>9, <3>2 DEF LoginOk, WellFormed, Told
        <3>5. CallsRight'
            BY <1>2, <3>3, <3>4, OneCallRight DEF Truthful
        <3>6. QED
            BY <1>6, <1>9, <3>5 DEF LoginOk, Truthful
    <2>3. QED
        BY <2>1, <2>2
<1>10. CASE RegisterOk(c)
    <2>1. CallsRight'
        BY <1>5, <1>10 DEF RegisterOk
    <2>2. CASE call[c].mine /\ t # None
        <3>1. t \in Tabs /\ call[c].user \in accounts /\ creator[call[c].user] = t
            BY <1>1, <1>10, <2>2 DEF RegisterOk, Told
        <3>2. form[t] \in Form
            BY <3>1 DEF TypeOK
        <3> DEFINE f == [form[t] EXCEPT !.done = call[c].user, !.loading = FALSE]
        <3>3. f.done = call[c].user
            BY <3>2 DEF Form
        <3>4. form' = [form EXCEPT ![t] = f]
            BY <1>10, <2>2, <3>1 DEF RegisterOk, TypeOK
        <3> HIDE DEF f
        <3>5. form'[t] = f /\ \A x \in Tabs \ {t} : form'[x] = form[x]
            BY <3>1, <3>4 DEF TypeOK
        <3>6. DoneMeansCreated'
            BY <1>2, <3>1, <3>3, <3>5 DEF DoneMeansCreated, Truthful
        <3>7. QED
            BY <2>1, <3>6 DEF Truthful
    <2>3. CASE ~(call[c].mine /\ t # None)
        BY <1>6, <1>10, <2>1, <2>3 DEF RegisterOk, Truthful
    <2>4. QED
        BY <2>2, <2>3
<1>11. CASE SubmitFails(c)
    <2>1. CallsRight'
        BY <1>5, <1>11 DEF SubmitFails
    <2>2. CASE t \in Tabs /\ form' = [form EXCEPT ![t] =
                                  [form[t] EXCEPT !.error = TRUE, !.loading = FALSE]]
        <3> DEFINE f == [form[t] EXCEPT !.error = TRUE, !.loading = FALSE]
        <3>1. f.done = form[t].done
            BY <2>2 DEF TypeOK, Form
        <3>2. form' = [form EXCEPT ![t] = f]
            BY <2>2
        <3> HIDE DEF f
        <3>3. \A x \in Tabs : form'[x].done = form[x].done
            BY <2>2, <3>1, <3>2 DEF TypeOK
        <3>4. QED
            BY <1>3, <2>1, <3>3 DEF Truthful
    <2>3. CASE form' = form
        BY <1>6, <2>1, <2>3 DEF Truthful
    <2>4. QED
        BY <1>1, <1>11, <2>2, <2>3 DEF SubmitFails, TypeOK
<1>12. QED
    BY <1>7, <1>8, <1>9, <1>10, <1>11
-----------------------------------------------------------------------------
(* Both, for every step. *)
LEMMA SessionStep ==
    ASSUME TypeOK, Truthful, [Next]_vars
    PROVE  TypeOK' /\ Truthful'
<1>1. ASSUME NEW k \in Tokens, Expire(k) PROVE TypeOK' /\ Truthful'
    <2>1. /\ expired' \subseteq Tokens
          /\ UNCHANGED <<accounts, issued, creator, call, stored, open, storeVars,
                         form, loads, stranded, meddled>>
        BY <1>1 DEF Expire, Served, TypeOK
    <2>2. QED
        BY <2>1 DEF TypeOK, storeVars, Truthful, CallsRight, WellFormed, Told,
                    DoneMeansCreated
<1>2. CASE UNCHANGED vars
    BY <1>2 DEF vars, serverVars, storeVars, TypeOK, Truthful, CallsRight,
                WellFormed, Told, DoneMeansCreated
<1>3. CASE \E t \in Tabs : Load(t) \/ Switch(t) \/ Logout(t)
                           \/ \E u \in Users : Submit(t, u)
    BY <1>3, TabType, TabTruthful
<1>4. CASE \E c \in Calls : Authenticate(c) \/ Identify(c) \/ CheckEmail(c)
                            \/ CreateUser(c)
    BY <1>4, ServerType, ServerTruthful DEF Truthful
<1>5. CASE \E c \in Calls : \/ InitOk(c) \/ InitFails(c) \/ LoginOk(c)
                            \/ MeOk(c) \/ RegisterOk(c) \/ SubmitFails(c)
    BY <1>5, AnswerType, AnswerTruthful DEF Truthful
<1>6. QED
    BY <1>1, <1>2, <1>3, <1>4, <1>5 DEF Next

(* A session starts well-typed, and nobody has been told anything. *)
LEMMA SessionInit == Init => TypeOK /\ Truthful
<1> SUFFICES ASSUME Init PROVE TypeOK /\ Truthful
    OBVIOUS
<1>1. Fresh("login") \in Form /\ Fresh("login").done = None
    BY FreshType DEF Fresh
<1>2. form = [t \in Tabs |-> Fresh("login")]
    BY DEF Init
<1>3. form \in [Tabs -> Form] /\ \A t \in Tabs : form[t].done = None
    <2> HIDE DEF Fresh
    <2>1. QED
        BY <1>1, <1>2
<1>4. /\ issued \subseteq Tokens /\ stored \in Tokens \cup {None}
      /\ accounts \subseteq Users /\ expired \subseteq Tokens
    BY DEF Init
<1>5. loads \in 0..MaxLoads
    BY SessionAssumption DEF Init
<1>6. /\ open \subseteq Tabs /\ stranded \subseteq Tabs /\ meddled \subseteq Tabs
      /\ auth \in [Tabs -> BOOLEAN] /\ token \in [Tabs -> Tokens \cup {None}]
      /\ user \in [Tabs -> Users \cup {None}]
      /\ creator \in [Users -> Tabs \cup {None}]
    BY DEF Init
<1>7. call \in [Calls -> Call \cup {Idle}] /\ \A c \in Calls : call[c] = Idle
    BY DEF Init
<1>8. TypeOK
    BY <1>3, <1>4, <1>5, <1>6, <1>7 DEF TypeOK
<1>9. Truthful
    BY <1>3, <1>7 DEF Truthful, CallsRight, DoneMeansCreated
<1>10. QED
    BY <1>8, <1>9

(* Type correctness: whom a session or a form names is a user, what a      *)
(* session or localStorage holds is a token, whatever calls are answered,  *)
(* refused or lost in between.                                             *)
THEOREM TypeInvariant == Spec => []TypeOK
BY SessionInit, SessionStep, PTL DEF Spec

(* Whoever reads "registered" created the account: the check of the email  *)
(* and the insert are apart (auth_service.register), so two requests may   *)
(* both find it free, but only the one the constraint let through is told, *)
(* whatever tabs are reloaded, forms left and answers lost meanwhile.      *)
THEOREM RegisteredOnce == Spec => []DoneMeansCreated
<1>1. Truthful => DoneMeansCreated
    BY DEF Truthful
<1>2. QED
    BY <1>1, SessionInit, SessionStep, PTL DEF Spec
-----------------------------------------------------------------------------
(* A tab whose session nobody meddled with has at most one call, and holds *)
(* what that call left so far: initUser's tab is logged in with the token  *)
(* it asks about; one that fetches its user after a login is logged out,   *)
(* with the new token stored; one whose form was sent is logged out.       *)
LoggedOut(t) == ~auth[t] /\ token[t] = None /\ (stored = None \/ t \in stranded)

LoggedIn(t) ==
    auth[t] /\ stored # None /\ token[t] = stored /\ user[t] = Owner[stored]

Midway(t, r) ==
    /\ r.kind = "init" => auth[t] /\ token[t] = stored /\ r.token = stored
    /\ r.kind = "me" => ~auth[t] /\ token[t] = None /\ r.token = stored
    /\ r.kind \in {"login", "register"} => LoggedOut(t)

Upright(t) ==
    /\ \A c, d \in Of(t) : c = d
    /\ \A c \in Of(t) : Midway(t, call[c])
    /\ Of(t) = {} => LoggedIn(t) \/ LoggedOut(t)

AllUpright == \A t \in open \ meddled : Upright(t)

(* What a step does not touch stays upright.                               *)
LEMMA UprightKept ==
    ASSUME NEW x, Upright(x), stored' = stored, auth'[x] = auth[x],
           token'[x] = token[x], user'[x] = user[x],
           x \in stranded => x \in stranded',
           Of(x)' = Of(x),
           \A c \in Of(x) :
              /\ call'[c].kind = call[c].kind
              /\ call[c].kind \in {"init", "me"} => call'[c].token = call[c].token
    PROVE  Upright(x)'
<1>1. LoggedOut(x) => LoggedOut(x)'
    BY DEF LoggedOut
<1>2. LoggedIn(x) => LoggedIn(x)'
    BY DEF LoggedIn
<1>3. ASSUME NEW c \in Of(x) PROVE Midway(x, call[c])'
    BY <1>1 DEF Upright, Midway
<1>4. QED
    BY <1>1, <1>2, <1>3 DEF Upright

(* The calls of each tab, after one call took another state ...            *)
LEMMA OfChanged ==
    ASSUME TypeOK, NEW c \in Calls, NEW r, call' = [call EXCEPT ![c] = r],
           call[c] # Idle, r # Idle, r.tab = call[c].tab, NEW x
    PROVE  /\ Of(x)' = Of(x)
           /\ call'[c] = r /\ \A d \in Of(x) : d # c => call'[d] = call[d]
BY DEF Of, TypeOK

(* ... or ended, whichever form was left with it. *)
LEMMA OfEnded ==
    ASSUME TypeOK, NEW c \in Calls, NEW d,
           call' = [call EXCEPT ![c] = Idle] \/ call' = [Abandoned(d) EXCEPT ![c] = Idle],
           NEW x
    PROVE  /\ Of(x)' = Of(x) \ {c}
           /\ \A y \in Of(x)' : /\ call'[y].kind = call[y].kind
                                /\ call'[y].token = call[y].token
<1>1. CASE call' = [call EXCEPT ![c] = Idle]
    BY <1>1 DEF Of, TypeOK
<1>2. CASE call' = [Abandoned(d) EXCEPT ![c] = Idle]
    <2>1. \A y \in Calls : call'[y] = IF y = c THEN Idle ELSE Abandoned(d)[y]
        BY <1>2, AbandonedType
    <2>2. ASSUME NEW y \in Calls, call[y] # Idle PROVE Abandoned(d)[y] # Idle
        <3>1. call[y] \in Call
            BY <2>2 DEF TypeOK
        <3>2. Abandoned(d)[y] \in Call
            BY <3>1, CallChange DEF Abandoned
        <3>3. QED
            BY <3>2, CallIsNotIdle
    <2>3. \A y \in Calls : Abandoned(d)[y] # Idle =>
             /\ call[y] # Idle /\ Abandoned(d)[y].tab = call[y].tab
             /\ Abandoned(d)[y].kind = call[y].kind
             /\ Abandoned(d)[y].token = call[y].token
        BY AbandonedQuiet
    <2>4. QED
        BY <2>1, <2>2, <2>3 DEF Of
<1>3. QED
    BY <1>1, <1>2

(* The steps of a tab.                                                     *)
LEMMA TabUpright ==
    ASSUME TypeOK, AllUpright, NEW t \in Tabs,
           Load(t) \/ Switch(t) \/ Logout(t) \/ \E u \in Users : Submit(t, u)
    PROVE  AllUpright'
<1>0. open \subseteq Tabs /\ \A c \in Calls : call[c] # Idle => call[c] \in Call
    BY DEF TypeOK
<1>1. CASE Load(t)
    <2> DEFINE cut == [c \in Calls |-> IF c \in Of(t)
                                       THEN [call[c] EXCEPT !.tab = None] ELSE call[c]]
               new == [kind |-> "init", tab |-> t, user |-> None, token |-> stored,
                       at |-> "sent", mine |-> FALSE]
    <2>1. /\ open' = open \cup {t} /\ stored' = stored /\ Meddle(t, FALSE)
          /\ auth' = [auth EXCEPT ![t] = stored # None]
          /\ token' = [token EXCEPT ![t] = stored] /\ user' = [user EXCEPT ![t] = None]
          /\ stranded' = stranded \ {t}
        BY <1>1 DEF Load
    <2>2. \/ stored = None /\ call' = cut
          \/ stored # None /\ \E c \in Calls : /\ call[c] = Idle
                                               /\ call' = [cut EXCEPT ![c] = new]
        BY <1>1 DEF Load
    <2>3. \A c \in Calls : c \notin Of(t) => cut[c] = call[c]
        OBVIOUS
    <2>4. ASSUME NEW c \in Of(t) PROVE cut[c].tab = None
        <3>1. call[c] \in Call
            BY <1>0, <2>4 DEF Of
        <3>2. QED
            BY <2>4, <3>1 DEF Of, Call
    <2>5. \A c \in Of(t) : cut[c] # Idle
        <3>1. ASSUME NEW c \in Of(t) PROVE cut[c] # Idle
            <4>1. call[c] \in Call /\ c \in Calls
                BY <1>0, <3>1 DEF Of
            <4>2. cut[c] = [call[c] EXCEPT !.tab = None]
                BY <3>1, <4>1
            <4>3. cut[c] \in Call
                BY <4>1, <4>2, CallChange
            <4>4. QED
                BY <4>3, CallIsNotIdle
        <3>2. QED
            BY <3>1
    <2>6. new.kind = "init" /\ new.tab = t /\ new.token = stored
        OBVIOUS
    <2>7. new # Idle
        <3>1. Idle.kind = "idle"
            BY DEF Idle
        <3>2. QED
            BY <2>6, <3>1
    <2>8. t # None
        BY SessionAssumption
    <2>9. cut \in [Calls -> {cut[c] : c \in Calls}]
        OBVIOUS
    <2> HIDE DEF cut, new
    <2>10. ASSUME NEW x \in open' \ meddled' PROVE Upright(x)'
        <3>1. CASE x = t
            <4>1. auth'[t] = (stored # None) /\ token'[t] = stored
                BY <2>1 DEF TypeOK
            <4>2. CASE stored = None
                <5>1. Of(t)' = {}
                    BY <2>2, <2>3, <2>4, <2>8, <4>2 DEF Of
                <5>2. LoggedOut(t)'
                    BY <2>1, <4>1, <4>2 DEF LoggedOut
                <5>3. QED
                    BY <3>1, <5>1, <5>2 DEF Upright
            <4>3. CASE stored # None
                <5>1. PICK c \in Calls : call[c] = Idle /\ call' = [cut EXCEPT ![c] = new]
                    BY <2>2, <4>3
                <5>2. \A d \in Calls : call'[d] = IF d = c THEN new ELSE cut[d]
                    BY <2>9, <5>1
                <5>3. Of(t)' = {c}
                    BY <2>3, <2>4, <2>6, <2>7, <2>8, <5>2 DEF Of
                <5>4. Midway(t, call[c])'
                    BY <2>1, <2>6, <4>1, <4>3, <5>2 DEF Midway
                <5>5. QED
                    BY <3>1, <5>3, <5>4 DEF Upright
            <4>4. QED
                BY <4>2, <4>3
        <3>2. CASE x # t
            <4>1. x \in open \ meddled /\ x \in Tabs
                BY <1>0, <2>1, <2>10, <3>2 DEF Meddle
            <4>2. x # None
                BY <4>1, SessionAssumption
            <4>3. \A d \in Calls : \/ call'[d] = cut[d]
                                   \/ call[d] = Idle /\ call'[d] = new
                BY <2>2, <2>9
            <4>4. \A d \in Of(x) : d \notin Of(t) /\ call[d] # Idle /\ d \in Calls
                BY <3>2 DEF Of
            <4>5. \A d \in Of(x) : call'[d] = call[d]
                BY <2>3, <4>3, <4>4
            <4>6. Of(x)' = Of(x)
                <5>1. \A d \in Of(x)' : d \in Of(x)
                    BY <2>3, <2>4, <2>6, <3>2, <4>2, <4>3 DEF Of
                <5>2. \A d \in Of(x) : d \in Of(x)'
                    BY <4>5 DEF Of
                <5>3. QED
                    BY <5>1, <5>2
            <4>7. /\ auth'[x] = auth[x] /\ token'[x] = token[x] /\ user'[x] = user[x]
                  /\ x \in stranded => x \in stranded'
                BY <2>1, <3>2, <4>1 DEF TypeOK
            <4>8. QED
                BY <2>1, <4>1, <4>5, <4>6, <4>7, UprightKept DEF AllUpright
        <3>3. QED
            BY <3>1, <3>2
    <2>11. QED
        BY <2>10 DEF AllUpright, Upright, Of, LoggedIn, LoggedOut, Midway
<1>2. CASE Switch(t)
    <2>1. call' = Abandoned(t) /\ UNCHANGED <<stored, open, storeVars, stranded, meddled>>
        BY <1>2 DEF Switch
    <2>2. ASSUME NEW x \in open' \ meddled' PROVE Upright(x)'
        <3>1. \A y \in Calls : Abandoned(t)[y] # Idle =>
                 /\ call[y] # Idle /\ Abandoned(t)[y].tab = call[y].tab
                 /\ Abandoned(t)[y].kind = call[y].kind
                 /\ Abandoned(t)[y].token = call[y].token
            BY AbandonedQuiet
        <3>2. ASSUME NEW y \in Calls, call[y] # Idle PROVE Abandoned(t)[y] # Idle
            <4>1. Abandoned(t)[y] \in Call
                BY <1>0, <3>2, CallChange DEF Abandoned
            <4>2. QED
                BY <4>1, CallIsNotIdle
        <3>3. Of(x)' = Of(x)
            BY <2>1, <3>1, <3>2 DEF Of
        <3>4. \A y \in Of(x) : call'[y].kind = call[y].kind /\ call'[y].token = call[y].token
            BY <2>1, <3>1, <3>2 DEF Of
        <3>5. QED
            BY <2>1, <2>2, <3>3, <3>4, UprightKept DEF AllUpright, storeVars
    <2>3. QED
        BY <2>2 DEF AllUpright, Upright, Of, LoggedIn, LoggedOut, Midway
<1>3. CASE Logout(t)
    <2>1. /\ stored' = None /\ UNCHANGED <<open, call>> /\ Meddle(t, Of(t) # {})
          /\ auth' = [auth EXCEPT ![t] = FALSE] /\ token' = [token EXCEPT ![t] = None]
          /\ user' = [user EXCEPT ![t] = None] /\ stranded' = stranded \ {t}
        BY <1>3 DEF Logout
    <2>2. ASSUME NEW x \in open' \ meddled' PROVE Upright(x)'
        <3>1. Of(x)' = Of(x)
            BY <2>1 DEF Of
        <3>2. CASE x = t
            <4>1. Of(t) = {}
                BY <2>1, <2>2, <3>2 DEF Meddle
            <4>2. LoggedOut(t)'
                BY <2>1 DEF LoggedOut, TypeOK
            <4>3. QED
                BY <3>1, <3>2, <4>1, <4>2 DEF Upright
        <3>3. CASE x # t
            <4>1. x \in open \ meddled /\ x \in Tabs /\ stored' = stored
                BY <1>0, <2>1, <2>2, <3>3 DEF Meddle
            <4>2. /\ auth'[x] = auth[x] /\ token'[x] = token[x] /\ user'[x] = user[x]
                  /\ x \in stranded => x \in stranded'
                BY <2>1, <3>3, <4>1 DEF TypeOK
            <4>3. QED
                BY <2>1, <3>1, <4>1, <4>2, UprightKept DEF AllUpright
        <3>4. QED
            BY <3>2, <3>3
    <2>3. QED
        BY <2>2 DEF AllUpright, Upright, Of, LoggedIn, LoggedOut, Midway
<1>4. ASSUME NEW u \in Users, Submit(t, u) PROVE AllUpright'
    <2>1. PICK c \in Calls : NewCall(c, form[t].view, t, u, None, TRUE)
        BY <1>4 DEF Submit
    <2>2. PICK r : r = [kind |-> form[t].view, tab |-> t, user |-> u, token |-> None,
                        at |-> "sent", mine |-> TRUE]
        OBVIOUS
    <2>3. r.kind \in {"login", "register"} /\ r.tab = t
        BY <2>2 DEF TypeOK, Form
    <2>4. r # Idle
        <3>1. Idle.kind = "idle"
            BY DEF Idle
        <3>2. QED
            BY <2>3, <3>1
    <2>5. call[c] = Idle /\ \A d \in Calls : call'[d] = IF d = c THEN r ELSE call[d]
        BY <2>1, <2>2 DEF NewCall, TypeOK
    <2>6. /\ UNCHANGED <<stored, open, storeVars, stranded>> /\ t \in open /\ ~auth[t]
          /\ Meddle(t, t \in meddled \/ Of(t) # {})
        BY <1>4 DEF Submit
    <2>7. ASSUME NEW x \in open' \ meddled' PROVE Upright(x)'
        <3>1. CASE x = t
            <4>1. t \notin meddled /\ Of(t) = {}
                BY <2>6, <2>7, <3>1 DEF Meddle
            <4>2. LoggedOut(t)
                BY <2>6, <4>1 DEF AllUpright, Upright, LoggedIn
            <4>3. Of(t)' = {c}
                BY <2>3, <2>4, <2>5, <4>1 DEF Of
            <4>4. Midway(t, call[c])'
                BY <2>3, <2>5, <2>6, <4>2 DEF Midway, LoggedOut, storeVars
            <4>5. QED
                BY <3>1, <4>3, <4>4 DEF Upright
        <3>2. CASE x # t
            <4>1. x \in open \ meddled
                BY <2>6, <2>7, <3>2 DEF Meddle
            <4>2. Of(x)' = Of(x) /\ \A d \in Of(x) : call'[d] = call[d]
                BY <2>3, <2>5, <3>2 DEF Of
            <4>3. QED
                BY <2>6, <4>1, <4>2, UprightKept DEF AllUpright, storeVars
        <3>3. QED
            BY <3>1, <3>2
    <2>8. QED
        BY <2>7 DEF AllUpright, Upright, Of, LoggedIn, LoggedOut, Midway
<1>5. QED
    BY <1>1, <1>2, <1>3, <1>4

(* What the server answers tells no tab anything yet.                      *)
LEMMA ServerUpright ==
    ASSUME TypeOK, AllUpright, NEW c \in Calls,
           Authenticate(c) \/ Identify(c) \/ CheckEmail(c) \/ CreateUser(c)
    PROVE  AllUpright'
<1>1. call[c] \in Call /\ call[c] # Idle /\ Served
    BY DEF Authenticate, Identify, CheckEmail, CreateUser, TypeOK
<1>2. ASSUME NEW at, Answered(c, at)
      PROVE  \E r : /\ call' = [call EXCEPT ![c] = r] /\ r.tab = call[c].tab
                    /\ r.kind = call[c].kind /\ r.token = call[c].token
    <2>1. PICK r : r = [call[c] EXCEPT !.at = at]
        OBVIOUS
    <2>2. r.tab = call[c].tab /\ r.kind = call[c].kind /\ r.token = call[c].token
        BY <1>1, <2>1 DEF Call
    <2>3. call' = [call EXCEPT ![c] = r]
        BY <1>2, <2>1 DEF Answered, TypeOK
    <2>4. QED
        BY <2>2, <2>3
<1>3. ASSUME NEW k, call' = [call EXCEPT ![c].at = "ok", ![c].token = k],
             call[c].kind = "login"
      PROVE  \E r : /\ call' = [call EXCEPT ![c] = r] /\ r.tab = call[c].tab
                    /\ r.kind = call[c].kind /\ r.kind = "login"
    <2>1. PICK r : r = [call[c] EXCEPT !.at = "ok", !.token = k]
        OBVIOUS
    <2>2. r.tab = call[c].tab /\ r.kind = call[c].kind
        BY <1>1, <2>1 DEF Call
    <2>3. call' = [call EXCEPT ![c] = r]
        BY <1>3, <2>1 DEF TypeOK
    <2>4. QED
        BY <1>3, <2>2, <2>3
<1>4. PICK r : /\ call' = [call EXCEPT ![c] = r] /\ r.tab = call[c].tab
               /\ r.kind = call[c].kind
               /\ r.token = call[c].token \/ call[c].kind = "login"
    <2>1. \/ \E at : Answered(c, at)
          \/ /\ call[c].kind = "login"
             /\ \E k \in Tokens : call' = [call EXCEPT ![c].at = "ok", ![c].token = k]
        BY DEF Authenticate, Identify, CheckEmail, CreateUser
    <2>2. QED
        BY <1>2, <1>3, <2>1
<1>5. r # Idle
    <2>1. Idle.kind = "idle" /\ call[c].kind \in {"init", "login", "me", "register"}
        BY <1>1 DEF Idle, Call
    <2>2. QED
        BY <1>4, <2>1
<1>6. ASSUME NEW x \in open' \ meddled' PROVE Upright(x)'
    <2>1. Of(x)' = Of(x) /\ call'[c] = r /\ \A d \in Of(x) : d # c => call'[d] = call[d]
        BY <1>1, <1>4, <1>5, OfChanged
    <2>2. QED
        BY <1>1, <1>4, <1>6, <2>1, UprightKept DEF AllUpright, Served, storeVars
<1>7. QED
    BY <1>6 DEF AllUpright, Upright, Of, LoggedIn, LoggedOut, Midway

(* A call of a tab that nobody meddled with is its only one.               *)
LEMMA OnlyCall ==
    ASSUME TypeOK, AllUpright, NEW c \in Calls, call[c] # Idle,
           NEW x \in open \ meddled, call[c].tab = x
    PROVE  Of(x) = {c} /\ Midway(x, call[c])
<1>1. c \in Of(x)
    BY DEF Of
<1>2. QED
    BY <1>1 DEF AllUpright, Upright

(* The steps with which a page takes in an answer or a failure.            *)
LEMMA AnswerUpright ==
    ASSUME TypeOK, CallsRight, AllUpright, NEW c \in Calls,
           \/ InitOk(c) \/ InitFails(c) \/ LoginOk(c)
           \/ MeOk(c) \/ RegisterOk(c) \/ SubmitFails(c)
    PROVE  AllUpright'
<1> DEFINE t == call[c].tab
<1>1. /\ call[c] \in Call /\ call[c] # Idle /\ t \in Tabs \cup {None}
      /\ WellFormed(call[c]) /\ open \subseteq Tabs /\ None \notin Tabs
    BY SessionAssumption DEF InitOk, InitFails, LoginOk, MeOk, RegisterOk, SubmitFails,
                             TypeOK, Call, CallsRight
<1>2. open' = open
    BY DEF InitOk, InitFails, LoginOk, MeOk, RegisterOk, SubmitFails
<1> SUFFICES ASSUME NEW x \in open' \ meddled' PROVE Upright(x)'
    BY DEF AllUpright, Upright, Of, LoggedIn, LoggedOut, Midway
<1>3. x \in Tabs
    BY <1>1, <1>2
<1>4. ASSUME Of(x)' = {}, LoggedIn(x)' \/ LoggedOut(x)' PROVE Upright(x)'
    BY <1>4 DEF Upright
<1>5. ASSUME x # t, x \notin meddled, stored' = stored, auth'[x] = auth[x],
             token'[x] = token[x], user'[x] = user[x],
             x \in stranded => x \in stranded',
             Of(x)' = Of(x) \ {c},
             \A y \in Of(x)' : call'[y].kind = call[y].kind /\ call'[y].token = call[y].token
      PROVE  Upright(x)'
    <2>1. Of(x)' = Of(x)
        BY <1>5 DEF Of
    <2>2. QED
        BY <1>2, <1>5, <2>1, UprightKept DEF AllUpright
<1>6. CASE InitOk(c)
    <2>1. UNCHANGED <<stored, token, stranded, meddled>>
        BY <1>6 DEF InitOk
    <2>2. /\ Of(x)' = Of(x) \ {c}
          /\ \A y \in Of(x)' : call'[y].kind = call[y].kind /\ call'[y].token = call[y].token
        BY <1>6, OfEnded DEF InitOk
    <2>3. CASE x = t
        <3>1. Of(x) = {c} /\ Midway(x, call[c])
            BY <1>1, <1>2, <2>1, <2>3, OnlyCall
        <3>2. stored \in Tokens /\ token[x] = stored /\ call[c].token = stored
            BY <1>1, <1>6, <3>1 DEF InitOk, Midway, WellFormed
        <3>3. auth'[x] = TRUE /\ user'[x] = Owner[call[c].token]
            BY <1>1, <1>3, <1>6, <2>3 DEF InitOk, TypeOK
        <3>4. LoggedIn(x)'
            BY <2>1, <3>2, <3>3, SessionAssumption DEF LoggedIn
        <3>5. QED
            BY <1>4, <2>2, <3>1, <3>4
    <2>4. CASE x # t
        <3>1. auth'[x] = auth[x] /\ user'[x] = user[x]
            BY <1>1, <1>3, <1>6, <2>4 DEF InitOk, TypeOK
        <3>2. QED
            BY <1>5, <2>1, <2>2, <2>4, <3>1
    <2>5. QED
        BY <2>3, <2>4
<1>7. CASE InitFails(c)
    <2>1. UNCHANGED stranded /\ Meddle(t, t \in meddled)
        BY <1>7 DEF InitFails
    <2>2. /\ Of(x)' = Of(x) \ {c}
          /\ \A y \in Of(x)' : call'[y].kind = call[y].kind /\ call'[y].token = call[y].token
        BY <1>7, OfEnded DEF InitFails, Ended
    <2>3. CASE x = t
        <3>1. Of(x) = {c}
            BY <1>1, <1>2, <2>1, <2>3, OnlyCall DEF Meddle
        <3>2. stored' = None /\ auth'[x] = FALSE /\ token'[x] = None
            BY <1>1, <1>3, <1>7, <2>3 DEF InitFails, TypeOK
        <3>3. LoggedOut(x)'
            BY <3>2 DEF LoggedOut
        <3>4. QED
            BY <1>4, <2>2, <3>1, <3>3
    <2>4. CASE x # t
        <3>1. x \notin meddled /\ stored' = stored
            BY <2>1, <2>4 DEF Meddle
        <3>2. auth'[x] = auth[x] /\ user'[x] = user[x] /\ token'[x] = token[x]
            BY <1>1, <1>3, <1>7, <2>4 DEF InitFails, storeVars, TypeOK
        <3>3. QED
            BY <1>5, <2>1, <2>2, <2>4, <3>1, <3>2
    <2>5. QED
        BY <2>3, <2>4
<1>8. CASE LoginOk(c)
    <2>1. UNCHANGED <<storeVars, stranded>> /\ Meddle(t, t \in meddled)
        BY <1>8 DEF LoginOk
    <2>2. CASE t = None
        <3>1. /\ Of(x)' = Of(x) \ {c}
              /\ \A y \in Of(x)' :
                    call'[y].kind = call[y].kind /\ call'[y].token = call[y].token
            BY <1>8, <2>2, OfEnded DEF LoginOk, Ended
        <3>2. x # t /\ x \notin meddled /\ stored' = stored
            BY <1>1, <1>3, <2>1, <2>2 DEF Meddle
        <3>3. QED
            BY <1>5, <2>1, <3>1, <3>2 DEF storeVars
    <2>3. CASE t # None
        <3>1. PICK r : r = [call[c] EXCEPT !.kind = "me", !.at = "sent"]
            OBVIOUS
        <3>2. r.kind = "me" /\ r.tab = t /\ r.token = call[c].token
            BY <1>1, <3>1 DEF Call
        <3>3. call' = [call EXCEPT ![c] = r] /\ stored' = call[c].token
            BY <1>8, <2>3, <3>1 DEF LoginOk, TypeOK
        <3>4. r # Idle
            <4>1. Idle.kind = "idle"
                BY DEF Idle
            <4>2. QED
                BY <3>2, <4>1
        <3>5. /\ Of(x)' = Of(x) /\ call'[c] = r
              /\ \A d \in Of(x) : d # c => call'[d] = call[d]
            BY <1>1, <3>2, <3>3, <3>4, OfChanged
        <3>6. CASE x = t
            <4>1. Of(x) = {c} /\ Midway(x, call[c])
                BY <1>1, <1>2, <2>1, <3>6, OnlyCall DEF Meddle
            <4>2. ~auth[x] /\ token[x] = None
                BY <1>8, <4>1 DEF LoginOk, Midway, LoggedOut
            <4>3. Midway(x, call[c])'
                BY <2>1, <3>2, <3>3, <3>5, <4>1, <4>2 DEF Midway, storeVars
            <4>4. QED
                BY <3>5, <4>1, <4>3 DEF Upright
        <3>7. CASE x # t
            <4>1. x \notin meddled /\ stored' = stored
                BY <2>1, <3>7 DEF Meddle
            <4>2. \A d \in Of(x) : call'[d] = call[d]
                BY <3>5, <3>7 DEF Of
            <4>3. QED
                BY <1>2, <2>1, <3>5, <4>1, <4>2, UprightKept DEF AllUpright, storeVars
        <3>8. QED
            BY <3>6, <3>7
    <2>4. QED
        BY <2>2, <2>3
<1>9. CASE MeOk(c)
    <2>1. UNCHANGED <<stored, meddled>>
        BY <1>9 DEF MeOk
    <2>2. /\ Of(x)' = Of(x) \ {c}
          /\ \A y \in Of(x)' : call'[y].kind = call[y].kind /\ call'[y].token = call[y].token
        BY <1>9, OfEnded DEF MeOk
    <2>3. CASE x = t
        <3>1. Of(x) = {c} /\ Midway(x, call[c])
            BY <1>1, <1>2, <2>1, <2>3, OnlyCall
        <3>2. stored \in Tokens /\ call[c].token = stored
            BY <1>1, <1>9, <3>1 DEF MeOk, Midway, WellFormed
        <3>3. /\ auth'[x] = TRUE /\ token'[x] = call[c].token
              /\ user'[x] = Owner[call[c].token]
            BY <1>1, <1>3, <1>9, <2>3 DEF MeOk, TypeOK
        <3>4. LoggedIn(x)'
            BY <2>1, <3>2, <3>3, SessionAssumption DEF LoggedIn
        <3>5. QED
            BY <1>4, <2>2, <3>1, <3>4
    <2>4. CASE x # t
        <3>1. /\ auth'[x] = auth[x] /\ user'[x] = user[x] /\ token'[x] = token[x]
              /\ x \in stranded => x \in stranded'
            BY <1>1, <1>3, <1>9, <2>4 DEF MeOk, storeVars, TypeOK
        <3>2. QED
            BY <1>5, <2>1, <2>2, <2>4, <3>1
    <2>5. QED
        BY <2>3, <2>4
<1>10. CASE RegisterOk(c) \/ SubmitFails(c)
    <2>1. /\ UNCHANGED <<stored, storeVars, meddled>> /\ stranded \subseteq stranded'
          /\ call[c].kind = "me" /\ x = t => x \in stranded'
        BY <1>1, <1>3, <1>10 DEF RegisterOk, SubmitFails
    <2>2. /\ Of(x)' = Of(x) \ {c}
          /\ \A y \in Of(x)' : call'[y].kind = call[y].kind /\ call'[y].token = call[y].token
        BY <1>10, OfEnded DEF RegisterOk, SubmitFails, Ended
    <2>3. CASE x = t
        <3>1. Of(x) = {c} /\ Midway(x, call[c])
            BY <1>1, <1>2, <2>1, <2>3, OnlyCall
        <3>2. call[c].kind \in {"login", "me", "register"}
            BY <1>10 DEF RegisterOk, SubmitFails
        <3>3. LoggedOut(x)'
            BY <2>1, <2>3, <3>1, <3>2 DEF Midway, LoggedOut, storeVars
        <3>4. QED
            BY <1>4, <2>2, <3>1, <3>3
    <2>4. CASE x # t
        BY <1>5, <2>1, <2>2, <2>4 DEF storeVars
    <2>5. QED
        BY <2>3, <2>4
<1>11. QED
    BY <1>6, <1>7, <1>8, <1>9, <1>10

LEMMA UprightStep ==
    ASSUME TypeOK, Truthful, AllUpright, [Next]_vars
    PROVE  AllUpright'
<1>1. ASSUME NEW k \in Tokens, Expire(k) PROVE AllUpright'
    BY <1>1 DEF Expire, Served, storeVars, AllUpright, Upright, Of, LoggedIn, LoggedOut,
                Midway
<1>2. CASE UNCHANGED vars
    BY <1>2 DEF vars, storeVars, AllUpright, Upright, Of, LoggedIn, LoggedOut, Midway
<1>3. QED
    BY <1>1, <1>2, TabUpright, ServerUpright, AnswerUpright DEF Truthful, Next

(* A tab's session, once its calls are answered, is one: it is logged in   *)
(* as the owner of the token in localStorage, or logged out with none      *)
(* left, whatever other tabs, the server and the network did, unless       *)
(* somebody meddled with it or a login failed halfway.                     *)
THEOREM CoherentSession == Spec => []Coherent
<1>1. Init => AllUpright
    BY DEF Init, AllUpright
<1>2. TypeOK /\ AllUpright => Coherent
    BY DEF TypeOK, AllUpright, Upright, Coherent, Settled, LoggedIn, LoggedOut
<1>3. QED
    BY <1>1, <1>2, SessionInit, SessionStep, UprightStep, PTL DEF Spec
-----------------------------------------------------------------------------
(* UnreadCounts.  What a queue holds. *)
LEMMA RangeOf ==
    /\ Range(<<>>) = {}
    /\ \A S : \A q \in Seq(S), e \in S :
          Append(q, e) \in Seq(S) /\ Range(Append(q, e)) = Range(q) \cup {e}
    /\ \A S : \A q \in Seq(S) : Range(q) \subseteq S
<1>1. Range(<<>>) = {}
    BY DEF Range
<1>2. ASSUME NEW S, NEW q \in Seq(S), NEW e \in S
      PROVE  Append(q, e) \in Seq(S) /\ Range(Append(q, e)) = Range(q) \cup {e}
    <2>1. /\ Append(q, e) \in Seq(S) /\ Len(q) \in Nat
          /\ DOMAIN q = 1..Len(q) /\ DOMAIN Append(q, e) = 1..(Len(q) + 1)
          /\ \A i \in 1..Len(q) : Append(q, e)[i] = q[i]
          /\ Append(q, e)[Len(q) + 1] = e
        OBVIOUS
    <2>2. \A i : i \in 1..(Len(q) + 1) <=> i \in 1..Len(q) \/ i = Len(q) + 1
        BY <2>1
    <2>3. Range(Append(q, e)) \subseteq Range(q) \cup {e}
        BY <2>1, <2>2 DEF Range
    <2>4. Range(q) \subseteq Range(Append(q, e))
        BY <2>1, <2>2 DEF Range
    <2>5. e \in Range(Append(q, e))
        BY <2>1, <2>2 DEF Range
    <2>6. QED
        BY <2>1, <2>3, <2>4, <2>5
<1>3. ASSUME NEW S, NEW q \in Seq(S) PROVE Range(q) \subseteq S
    BY DEF Range
<1>4. QED
    BY <1>1, <1>2, <1>3

(* What is left of a queue when its head is taken. *)
LEMMA RangeOfTail ==
    ASSUME NEW S, NEW q \in Seq(S), q # <<>>
    PROVE  /\ Head(q) \in S /\ Tail(q) \in Seq(S)
           /\ Range(q) = Range(Tail(q)) \cup {Head(q)}
           /\ (\A i, j \in DOMAIN q : q[i] = q[j] => i = j) =>
                 /\ Head(q) \notin Range(Tail(q))
                 /\ \A i, j \in DOMAIN Tail(q) : Tail(q)[i] = Tail(q)[j] => i = j
<1>1. Len(q) \in Nat /\ Len(q) # 0 /\ Head(q) \in S /\ Tail(q) \in Seq(S)
    OBVIOUS
<1>2. PICK L \in Nat : Len(q) = L + 1
    <2>1. Len(q) - 1 \in Nat /\ Len(q) = (Len(q) - 1) + 1
        BY <1>1
    <2>2. QED
        BY <2>1
<1>3. /\ DOMAIN q = 1..(L + 1) /\ DOMAIN Tail(q) = 1..L
      /\ \A k \in 1..L : Tail(q)[k] = q[k + 1]
      /\ q[1] = Head(q)
    BY <1>1, <1>2
<1>4. /\ \A k \in 1..L : k + 1 \in 1..(L + 1) /\ k + 1 # 1
      /\ \A k, j \in 1..L : k + 1 = j + 1 => k = j
      /\ 1 \in 1..(L + 1)
    OBVIOUS
<1>5. \A j \in 1..(L + 1) : j = 1 \/ \E k \in 1..L : j = k + 1
    <2>1. \A j \in 1..(L + 1) : j = 1 \/ (j - 1 \in 1..L /\ j = (j - 1) + 1)
        OBVIOUS
    <2>2. QED
        BY <2>1
<1>6. Range(q) \subseteq Range(Tail(q)) \cup {Head(q)}
    <2>1. ASSUME NEW j \in 1..(L + 1) PROVE q[j] \in Range(Tail(q)) \cup {Head(q)}
        <3>1. CASE j = 1
            BY <1>3, <3>1
        <3>2. ASSUME NEW k \in 1..L, j = k + 1 PROVE q[j] \in Range(Tail(q))
            BY <1>3, <3>2 DEF Range
        <3>3. QED
            BY <1>5, <3>1, <3>2
    <2>2. QED
        BY <1>3, <2>1 DEF Range
<1>7. Range(Tail(q)) \cup {Head(q)} \subseteq Range(q)
    BY <1>3, <1>4 DEF Range
<1>8. ASSUME \A i, j \in DOMAIN q : q[i] = q[j] => i = j
      PROVE  /\ Head(q) \notin Range(Tail(q))
             /\ \A i, j \in DOMAIN Tail(q) : Tail(q)[i] = Tail(q)[j] => i = j
    BY <1>3, <1>4, <1>8 DEF Range
<1>9. QED
    BY <1>1, <1>6, <1>7, <1>8

(* The rooms of the read.update frames of a queue. *)
LEMMA ReadFramesOf ==
    /\ ReadFrames(<<>>) = {}
    /\ \A q \in Seq(Frame) : ReadFrames(q) \subseteq Rooms
    /\ \A q \in Seq(Frame), f \in Frame :
          ReadFrames(Append(q, f)) =
             ReadFrames(q) \cup (IF f.type = "read.update" THEN {f.room} ELSE {})
    /\ \A q \in Seq(Frame) : q # <<>> =>
          ReadFrames(q) = ReadFrames(Tail(q))
                          \cup (IF Head(q).type = "read.update" THEN {Head(q).room} ELSE {})
<1>1. ReadFrames(<<>>) = {}
    BY RangeOf DEF ReadFrames
<1>2. ASSUME NEW q \in Seq(Frame) PROVE ReadFrames(q) \subseteq Rooms
    <2>1. Range(q) \subseteq Frame
        BY RangeOf
    <2>2. QED
        BY <2>1 DEF ReadFrames, Frame
<1>3. ASSUME NEW q \in Seq(Frame), NEW f \in Frame
      PROVE  ReadFrames(Append(q, f)) =
                ReadFrames(q) \cup (IF f.type = "read.update" THEN {f.room} ELSE {})
    <2>1. Range(Append(q, f)) = Range(q) \cup {f}
        BY RangeOf
    <2>2. QED
        BY <2>1 DEF ReadFrames
<1>4. ASSUME NEW q \in Seq(Frame), q # <<>>
      PROVE  ReadFrames(q) = ReadFrames(Tail(q))
                 \cup (IF Head(q).type = "read.update" THEN {Head(q).room} ELSE {})
    <2>1. Range(q) = Range(Tail(q)) \cup {Head(q)}
        BY <1>4, RangeOfTail
    <2>2. QED
        BY <2>1 DEF ReadFrames
<1>5. QED
    BY <1>1, <1>2, <1>3, <1>4

LEMMA RangeOfBoth ==
    ASSUME NEW S, NEW q \in Seq(S), NEW s \in Seq(S)
    PROVE  q \o s \in Seq(S) /\ Range(q \o s) = Range(q) \cup Range(s)
<1>1. /\ q \o s \in Seq(S) /\ Len(q) \in Nat /\ Len(s) \in Nat
      /\ DOMAIN q = 1..Len(q) /\ DOMAIN s = 1..Len(s)
      /\ DOMAIN (q \o s) = 1..(Len(q) + Len(s))
      /\ \A i \in 1..Len(q) : (q \o s)[i] = q[i]
      /\ \A i \in 1..Len(s) : (q \o s)[Len(q) + i] = s[i]
    OBVIOUS
<1>2. /\ \A i \in 1..Len(q) : i \in 1..(Len(q) + Len(s))
      /\ \A i \in 1..Len(s) : Len(q) + i \in 1..(Len(q) + Len(s))
    BY <1>1
<1>3. \A i \in 1..(Len(q) + Len(s)) :
          i \in 1..Len(q) \/ \E j \in 1..Len(s) : i = Len(q) + j
    <2>1. \A i \in 1..(Len(q) + Len(s)) :
              i \in 1..Len(q) \/ (i - Len(q) \in 1..Len(s) /\ i = Len(q) + (i - Len(q)))
        BY <1>1
    <2>2. QED
        BY <2>1
<1>4. Range(q) \cup Range(s) \subseteq Range(q \o s)
    BY <1>1, <1>2 DEF Range
<1>5. ASSUME NEW i \in 1..(Len(q) + Len(s)) PROVE (q \o s)[i] \in Range(q) \cup Range(s)
    <2>1. CASE i \in 1..Len(q)
        BY <1>1, <2>1 DEF Range
    <2>2. ASSUME NEW j \in 1..Len(s), i = Len(q) + j PROVE (q \o s)[i] \in Range(s)
        BY <1>1, <2>2 DEF Range
    <2>3. QED
        BY <1>3, <2>1, <2>2
<1>6. Range(q \o s) \subseteq Range(q) \cup Range(s)
    BY <1>1, <1>5 DEF Range
<1>7. QED
    BY <1>1, <1>4, <1>6

LEMMA ShortQueues ==
    ASSUME NEW S, NEW d \in S, NEW e \in S
    PROVE  /\ <<d>> \in Seq(S) /\ Range(<<d>>) = {d}
           /\ <<d, e>> \in Seq(S) /\ Range(<<d, e>>) = {d, e}
<1>1. <<d>> \in Seq(S) /\ <<d, e>> \in Seq(S)
    OBVIOUS
<1>2. DOMAIN <<d>> = {1} /\ <<d>>[1] = d
    OBVIOUS
<1>3. DOMAIN <<d, e>> = {1, 2} /\ <<d, e>>[1] = d /\ <<d, e>>[2] = e
    OBVIOUS
<1>4. QED
    BY <1>1, <1>2, <1>3 DEF Range

(* What a change of the room says to the server: a read.update for the     *)
(* room that goes and for the one that comes.                              *)
Said(r) == IF Open THEN {active, r} \ {NoRoom} ELSE {}

LEMMA ShowsSays ==
    ASSUME BadgeTypeOK, NEW r \in Rooms \cup {NoRoom}, r # active, Shows(r)
    PROVE  /\ wire' \in Seq(Frame) /\ ReadFrames(wire') = ReadFrames(wire) \cup Said(r)
           /\ active' = r /\ badge' \in [Rooms -> Nat]
           /\ \A x \in Rooms : badge'[x] = IF x = r THEN 0 ELSE badge[x]
<1> DEFINE F(x) == [type |-> "read.update", room |-> x]
           leaving == {active} \ {NoRoom}
           entering == {r} \ {NoRoom}
           N == Cardinality(leaving \cup entering)
           frames == [i \in 1..N |->
                        [type |-> "read.update",
                         room |-> IF i = 1 /\ leaving # {} THEN active ELSE r]]
<1>1. /\ active' = r /\ badge' = [x \in Rooms |-> IF x = r THEN 0 ELSE badge[x]]
      /\ wire' = IF Open THEN wire \o frames ELSE wire
    BY DEF Shows
<1>2. badge' \in [Rooms -> Nat] /\ \A x \in Rooms : badge'[x] = IF x = r THEN 0 ELSE badge[x]
    BY <1>1 DEF BadgeTypeOK
<1>3. wire \in Seq(Frame) /\ active \in Rooms \cup {NoRoom} /\ NoRoom \notin Rooms
    BY UnreadAssumption DEF BadgeTypeOK
<1>4. \A x \in Rooms : F(x) \in Frame
    BY DEF Frame
<1> HIDE DEF F, frames, N, leaving, entering
<1>5. frames \in Seq(Frame) /\ Range(frames) = {F(x) : x \in {active, r} \ {NoRoom}}
    <2>1. ASSUME NEW x \in Rooms, leaving \cup entering = {x}, leaving # {} => active = x,
                 leaving = {} => r = x
          PROVE  frames \in Seq(Frame) /\ Range(frames) = {F(x)}
        <3>1. N = 1
            BY <2>1, FS_Singleton DEF N
        <3>2. frames = <<F(x)>>
            BY <2>1, <3>1 DEF frames, F
        <3>3. QED
            BY <1>4, <3>2, ShortQueues
    <2>2. CASE active = NoRoom
        <3>1. leaving = {} /\ leaving \cup entering = {r} /\ r \in Rooms
            BY <1>3, <2>2 DEF leaving, entering
        <3>2. {active, r} \ {NoRoom} = {r}
            BY <1>3, <2>2
        <3>3. QED
            BY <2>1, <3>1, <3>2
    <2>3. CASE r = NoRoom
        <3>1. leaving = {active} /\ leaving \cup entering = {active} /\ active \in Rooms
            BY <1>3, <2>3 DEF leaving, entering
        <3>2. {active, r} \ {NoRoom} = {active}
            BY <1>3, <2>3
        <3>3. QED
            BY <2>1, <3>1, <3>2
    <2>4. CASE active # NoRoom /\ r # NoRoom
        <3>1. /\ leaving = {active} /\ leaving \cup entering = {active} \cup {r}
              /\ active \in Rooms /\ r \in Rooms
            BY <1>3, <2>4 DEF leaving, entering
        <3>2. N = 2
            <4>1. IsFiniteSet({active}) /\ Cardinality({active}) = 1 /\ r \notin {active}
                BY FS_Singleton
            <4>2. Cardinality({active} \cup {r}) = Cardinality({active}) + 1
                BY <4>1, FS_AddElement
            <4>3. QED
                BY <3>1, <4>1, <4>2 DEF N
        <3>3. frames = <<F(active), F(r)>>
            BY <3>1, <3>2 DEF frames, F
        <3>4. {active, r} \ {NoRoom} = {active, r}
            BY <2>4
        <3>5. frames \in Seq(Frame) /\ Range(frames) = {F(active), F(r)}
            BY <1>4, <3>1, <3>3, ShortQueues
        <3>6. QED
            BY <3>4, <3>5
    <2>5. QED
        BY <2>2, <2>3, <2>4
<1>6. CASE Open
    <2>1. wire' \in Seq(Frame) /\ Range(wire') = Range(wire) \cup Range(frames)
        BY <1>1, <1>3, <1>5, <1>6, RangeOfBoth
    <2>2. \A f : f \in Range(frames) <=> \E x \in {active, r} \ {NoRoom} : f = F(x)
        BY <1>5
    <2>3. ReadFrames(wire') = ReadFrames(wire) \cup ({active, r} \ {NoRoom})
        <3>1. ReadFrames(wire') \subseteq ReadFrames(wire) \cup ({active, r} \ {NoRoom})
            BY <2>1, <2>2 DEF ReadFrames, F
        <3>2. ReadFrames(wire) \subseteq ReadFrames(wire')
            BY <2>1 DEF ReadFrames
        <3>3. ASSUME NEW x \in {active, r} \ {NoRoom} PROVE x \in ReadFrames(wire')
            <4>1. F(x) \in Range(wire') /\ F(x).type = "read.update" /\ F(x).room = x
                BY <2>1, <2>2 DEF F
            <4>2. QED
                BY <4>1 DEF ReadFrames
        <3>4. QED
            BY <3>1, <3>2, <3>3
    <2>4. QED
        BY <1>1, <1>2, <1>6, <2>1, <2>3 DEF Said
<1>7. CASE ~Open
    BY <1>1, <1>2, <1>3, <1>7 DEF Said
<1>8. QED
    BY <1>6, <1>7

(* What the messages of a step are. *)
LEMMA Underway ==
    /\ UnderWay \subseteq Ids
    /\ msg \in Seq(Message) => RoomsOf(UnderWay) \subseteq Rooms
<1>1. UnderWay \subseteq Ids
    BY DEF UnderWay
<1>2. ASSUME msg \in Seq(Message) PROVE RoomsOf(UnderWay) \subseteq Rooms
    <2>1. \A m \in Ids : msg[m] \in Message
        BY <1>2 DEF Ids
    <2>2. QED
        BY <1>1, <2>1 DEF RoomsOf, Message
<1>3. QED
    BY <1>1, <1>2

(* A GET is not the mark of a slot that is free. *)
LEMMA GetIsNotVacant ==
    /\ Request \in Get /\ Request.at = "sent" /\ Vacant.at = "idle"
    /\ \A q \in Get : q # Vacant
<1>1. Request \in Get /\ Request.at = "sent" /\ Vacant.at = "idle"
    BY DEF Request, Get, Zero, Vacant
<1>2. ASSUME NEW q \in Get PROVE q # Vacant
    <2>1. q.at \in {"sent", "read"}
        BY DEF Get
    <2>2. QED
        BY <1>1, <2>1
<1>3. QED
    BY <1>1, <1>2

(* A message is added: the others stay as they are. *)
LEMMA Appended ==
    ASSUME BadgeTypeOK, NEW x \in Message, Len(msg) < MaxMsgs, msg' = Append(msg, x)
    PROVE  /\ msg' \in Seq(Message) /\ Len(msg') <= MaxMsgs
           /\ \A m \in Ids : msg'[m] = msg[m]
           /\ \E n \in Ids' : n \notin Ids /\ Ids' = Ids \cup {n} /\ msg'[n] = x
<1>1. msg \in Seq(Message) /\ Len(msg) \in Nat /\ MaxMsgs \in Nat
    BY UnreadAssumption DEF BadgeTypeOK
<1>2. /\ msg' \in Seq(Message) /\ Len(msg') = Len(msg) + 1
      /\ Ids = 1..Len(msg) /\ Ids' = 1..(Len(msg) + 1)
      /\ \A m \in 1..Len(msg) : msg'[m] = msg[m]
      /\ msg'[Len(msg) + 1] = x
    BY <1>1 DEF Ids
<1>3. Len(msg) + 1 \notin Ids /\ Ids' = Ids \cup {Len(msg) + 1}
    BY <1>1, <1>2
<1>4. QED
    BY <1>1, <1>2, <1>3

(* A message goes on: its room and its sender stay as they are. *)
LEMMA Advanced ==
    ASSUME BadgeTypeOK, NEW m \in Ids, NEW a \in {"published", "committed", "failed"},
           msg' = [msg EXCEPT ![m].at = a]
    PROVE  /\ msg' \in Seq(Message) /\ Len(msg') <= MaxMsgs /\ Ids' = Ids
           /\ \A k \in Ids : /\ msg'[k].room = msg[k].room /\ msg'[k].from = msg[k].from
                             /\ msg'[k].at = IF k = m THEN a ELSE msg[k].at
<1>1. msg \in Seq(Message) /\ Len(msg) \in Nat /\ Len(msg) <= MaxMsgs /\ Ids = 1..Len(msg)
    BY DEF BadgeTypeOK, Ids
<1>2. /\ DOMAIN msg' = 1..Len(msg)
      /\ \A k \in Ids : msg'[k] = IF k = m THEN [msg[m] EXCEPT !.at = a] ELSE msg[k]
    BY <1>1
<1>3. \A k \in Ids : msg[k] \in Message
    BY <1>1
<1>4. [msg[m] EXCEPT !.at = a] \in Message
    BY <1>3 DEF Message
<1>5. msg' \in Seq(Message) /\ Len(msg') = Len(msg)
    <2>1. \A k \in 1..Len(msg) : msg'[k] \in Message
        BY <1>1, <1>2, <1>3, <1>4
    <2>2. msg' = [k \in 1..Len(msg) |-> msg'[k]]
        BY <1>1, <1>2
    <2>3. QED
        BY <1>1, <2>1, <2>2
<1>6. \A k \in Ids : /\ msg'[k].room = msg[k].room /\ msg'[k].from = msg[k].from
                     /\ msg'[k].at = IF k = m THEN a ELSE msg[k].at
    BY <1>2, <1>3 DEF Message
<1>7. QED
    BY <1>1, <1>2, <1>5, <1>6 DEF Ids

(* All of the types but those of the GETs. *)
PageTyped ==
    /\ msg \in Seq(Message) /\ Len(msg) <= MaxMsgs /\ read \subseteq Ids
    /\ mobile \in BOOLEAN /\ active \in Rooms \cup {NoRoom}
    /\ blank \in BOOLEAN /\ listed \in BOOLEAN /\ badge \in [Rooms -> Nat]
    /\ link \in {"connecting", "accepted", "up", "closed"} /\ retried \in BOOLEAN
    /\ wire \in Seq(Frame) /\ feed \in Seq(Ids)
    /\ moves \in 0..MaxMoves /\ events \in 0..MaxEvents
    /\ off \subseteq Rooms

GetSlots == [Gets -> Get \cup {Vacant}]

LEMMA Typing == BadgeTypeOK <=> PageTyped /\ get \in GetSlots
BY DEF BadgeTypeOK, PageTyped, GetSlots

(* What a step makes of the GETs in progress. *)
LEMMA Tracked ==
    ASSUME PageTyped', NEW gets \in GetSlots, Track(gets)
    PROVE  /\ get' \in GetSlots
           /\ \A g \in Gets : gets[g] = Vacant => get'[g] = Vacant
           /\ \A g \in Gets : gets[g] # Vacant =>
                 /\ get'[g].at = gets[g].at /\ get'[g].page = gets[g].page
                 /\ get'[g].met = gets[g].met \cup ReadFrames(wire') \cup RoomsOf(UnderWay)'
<1> DEFINE now == ReadFrames(wire') \cup RoomsOf(UnderWay)'
<1>1. now \subseteq Rooms
    <2>1. ReadFrames(wire') \subseteq Rooms
        BY ReadFramesOf DEF PageTyped
    <2>2. /\ UnderWay' \subseteq Ids'
          /\ \A m \in Ids' : msg'[m] \in Message
        BY DEF UnderWay, PageTyped, Ids
    <2>3. RoomsOf(UnderWay)' \subseteq Rooms
        BY <2>2 DEF RoomsOf, Message
    <2>4. QED
        BY <2>1, <2>3
<1>2. get' = [g \in Gets |-> IF gets[g] = Vacant THEN Vacant
                             ELSE [gets[g] EXCEPT !.met = @ \cup now]]
    BY DEF Track
<1> HIDE DEF now
<1>3. \A g \in Gets : gets[g] # Vacant =>
          /\ gets[g] \in Get
          /\ [gets[g] EXCEPT !.met = @ \cup now] \in Get
          /\ [gets[g] EXCEPT !.met = @ \cup now].at = gets[g].at
          /\ [gets[g] EXCEPT !.met = @ \cup now].page = gets[g].page
          /\ [gets[g] EXCEPT !.met = @ \cup now].met = gets[g].met \cup now
    BY <1>1 DEF GetSlots, Get
<1>4. get' \in GetSlots
    BY <1>2, <1>3 DEF GetSlots
<1>5. QED
    BY <1>2, <1>3, <1>4 DEF now

(* A set of messages can be counted. *)
LEMMA Countable ==
    ASSUME BadgeTypeOK
    PROVE  /\ \A S : S \subseteq Ids => IsFiniteSet(S) /\ Cardinality(S) \in Nat
           /\ \A r : Unread(r) \subseteq Ids /\ Count(r) \in Nat
<1>1. IsFiniteSet(Ids)
    <2>1. Ids = 1..Len(msg) /\ Len(msg) \in Nat
        BY DEF BadgeTypeOK, Ids
    <2>2. QED
        BY <2>1, FS_Interval
<1>2. ASSUME NEW S, S \subseteq Ids PROVE IsFiniteSet(S) /\ Cardinality(S) \in Nat
    BY <1>1, <1>2, FS_Subset, FS_CardinalityType
<1>3. \A r : Unread(r) \subseteq Ids
    BY DEF Unread
<1>4. QED
    BY <1>2, <1>3 DEF Count

(* The rooms of messages are rooms. *)
LEMMA MessageRooms ==
    ASSUME BadgeTypeOK
    PROVE  /\ \A m \in Ids : msg[m] \in Message /\ msg[m].room \in Rooms
           /\ \A S : S \subseteq Ids => RoomsOf(FromOther(S)) \subseteq Rooms
<1>1. ASSUME NEW m \in Ids PROVE msg[m] \in Message
    BY DEF BadgeTypeOK, Ids
<1>2. \A x \in Message : x.room \in Rooms
    BY DEF Message
<1>3. QED
    BY <1>1, <1>2 DEF RoomsOf, FromOther

(* The server's steps keep the types. *)
LEMMA RowsTyped ==
    ASSUME BadgeTypeOK,
           \/ \E r \in Rooms : Build(r)
           \/ \E m \in Ids : Publish(m) \/ Commit(m) \/ CommitFails(m)
           \/ ReadUpdate \/ ReceiveMessage
    PROVE  PageTyped'
<1>1. ASSUME NEW r \in Rooms, Build(r) PROVE PageTyped'
    <2>1. [room |-> r, from |-> Other, at |-> "built"] \in Message
        BY DEF Message
    <2>2. msg' \in Seq(Message) /\ Len(msg') <= MaxMsgs /\ Ids \subseteq Ids'
        BY <1>1, <2>1, Appended DEF Build
    <2>3. read' \subseteq Ids' /\ feed' \in Seq(Ids')
        BY <1>1, <2>2 DEF Build, BadgeTypeOK
    <2>4. QED
        BY <1>1, <2>2, <2>3 DEF Build, BadgeTypeOK, PageTyped, pageVars, linkVars, counters
<1>2. ASSUME NEW m \in Ids, Publish(m) PROVE PageTyped'
    <2>1. msg' \in Seq(Message) /\ Len(msg') <= MaxMsgs /\ Ids' = Ids
        BY <1>2, Advanced DEF Publish
    <2>2. RoomsOf(FromOther({m})) \subseteq Rooms
        BY MessageRooms
    <2>3. Append(feed, m) \in Seq(Ids)
        BY RangeOf DEF BadgeTypeOK
    <2>4. off' \subseteq Rooms /\ feed' \in Seq(Ids)
        BY <1>2, <2>2, <2>3 DEF Publish, BadgeTypeOK
    <2>5. QED
        BY <1>2, <2>1, <2>4 DEF Publish, BadgeTypeOK, PageTyped, pageVars, linkVars, counters
<1>3. ASSUME NEW m \in Ids, Commit(m) \/ CommitFails(m) PROVE PageTyped'
    <2>1. msg' \in Seq(Message) /\ Len(msg') <= MaxMsgs /\ Ids' = Ids
        BY <1>3, Advanced DEF Commit, CommitFails
    <2>2. RoomsOf(FromOther({m})) \subseteq Rooms
        BY MessageRooms
    <2>3. off' \subseteq Rooms
        BY <1>3, <2>2 DEF Commit, CommitFails, BadgeTypeOK
    <2>4. QED
        BY <1>3, <2>1, <2>3
           DEF Commit, CommitFails, BadgeTypeOK, PageTyped, pageVars, linkVars, counters
<1>4. CASE ReadUpdate
    <2>1. wire' \in Seq(Frame) /\ Ids' = Ids
        BY <1>4, RangeOfTail DEF ReadUpdate, Receives, BadgeTypeOK, Ids
    <2>2. read' \subseteq Ids
        BY <1>4 DEF ReadUpdate, BadgeTypeOK
    <2>3. QED
        BY <1>4, <2>1, <2>2
           DEF ReadUpdate, BadgeTypeOK, PageTyped, pageVars, linkVars, counters
<1>5. CASE ReceiveMessage
    <2>1. wire' \in Seq(Frame) /\ Head(wire) \in Frame
        BY <1>5, RangeOfTail DEF ReceiveMessage, Receives, BadgeTypeOK
    <2>2. [room |-> Head(wire).room, from |-> Me, at |-> "built"] \in Message
        BY <2>1 DEF Message, Frame
    <2>3. msg' \in Seq(Message) /\ Len(msg') <= MaxMsgs /\ Ids \subseteq Ids'
        BY <1>5, <2>2, Appended DEF ReceiveMessage
    <2>4. read' \subseteq Ids' /\ feed' \in Seq(Ids')
        BY <1>5, <2>3 DEF ReceiveMessage, BadgeTypeOK
    <2>5. QED
        BY <1>5, <2>1, <2>3, <2>4
           DEF ReceiveMessage, BadgeTypeOK, PageTyped, pageVars, linkVars, counters
<1>6. QED
    BY <1>1, <1>2, <1>3, <1>4, <1>5

(* A page that React takes away is typed. *)
LEMMA BrokenTyped ==
    ASSUME BadgeTypeOK, Moves, Breaks
    PROVE  PageTyped' /\ get' \in GetSlots
<1>1. moves' \in 0..MaxMoves /\ events' = events
    BY UnreadAssumption DEF Moves, BadgeTypeOK
<1>2. <<>> \in Seq(Frame) /\ <<>> \in Seq(Ids) /\ Zero \in [Rooms -> Nat] /\ Ids' = Ids
    BY DEF Zero, Breaks, rowVars, Ids
<1>3. QED
    BY <1>1, <1>2 DEF Breaks, BadgeTypeOK, PageTyped, rowVars, GetSlots

(* What the user does keeps the types. *)
LEMMA UserTyped ==
    ASSUME BadgeTypeOK, Back \/ SendMessage \/ \E r \in Rooms : SelectRoom(r)
    PROVE  PageTyped'
<1>1. ASSUME NEW r \in Rooms \cup {NoRoom}, r # active, Moves, Shows(r),
             UNCHANGED <<rowVars, mobile, blank, listed, linkVars, feed>>
      PROVE  PageTyped'
    <2>1. moves' \in 0..MaxMoves /\ events' = events
        BY <1>1, UnreadAssumption DEF Moves, BadgeTypeOK
    <2>2. wire' \in Seq(Frame) /\ active' = r /\ badge' \in [Rooms -> Nat]
        BY <1>1, ShowsSays
    <2>3. off' \subseteq Rooms
        BY <1>1 DEF Shows, BadgeTypeOK
    <2>4. Ids' = Ids
        BY <1>1 DEF rowVars, Ids
    <2>5. QED
        BY <1>1, <2>1, <2>2, <2>3, <2>4 DEF BadgeTypeOK, PageTyped, rowVars, linkVars
<1>2. ASSUME NEW r \in Rooms, SelectRoom(r) PROVE PageTyped'
    BY <1>1, <1>2, BrokenTyped DEF SelectRoom
<1>3. CASE Back
    BY <1>1, <1>3, BrokenTyped DEF Back
<1>4. CASE SendMessage
    <2>1. [type |-> "message.send", room |-> active] \in Frame
        BY <1>4 DEF SendMessage, BadgeTypeOK, Frame
    <2>2. wire' \in Seq(Frame)
        BY <1>4, <2>1, RangeOf DEF SendMessage, BadgeTypeOK
    <2>3. QED
        BY <1>4, <2>2
           DEF SendMessage, BadgeTypeOK, PageTyped, rowVars, pageVars, linkVars, counters, Ids
<1>5. QED
    BY <1>2, <1>3, <1>4

(* What the tab is told keeps the types. *)
LEMMA TabTyped ==
    ASSUME BadgeTypeOK,
           \/ OnMessage \/ OnInvite \/ Accept \/ Register \/ Drop \/ Retry
           \/ \E g \in Gets : ReadList(g) \/ Arrive(g) \/ GetFails(g)
    PROVE  PageTyped'
<1>1. CASE OnMessage
    <2>1. feed # <<>> /\ Head(feed) \in Ids /\ feed' \in Seq(Ids)
        BY <1>1, RangeOfTail DEF OnMessage, BadgeTypeOK
    <2>2. msg[Head(feed)].room \in Rooms
        BY <2>1, MessageRooms
    <2>3. badge' \in [Rooms -> Nat]
        BY <1>1, <2>2 DEF OnMessage, BadgeTypeOK
    <2>4. off' \subseteq Rooms
        BY <1>1, <2>1, <2>2 DEF OnMessage, BadgeTypeOK
    <2>5. QED
        BY <1>1, <2>1, <2>3, <2>4
           DEF OnMessage, BadgeTypeOK, PageTyped, rowVars, linkVars, counters, Ids
<1>2. CASE OnInvite
    BY <1>2, UnreadAssumption
       DEF OnInvite, BadgeTypeOK, PageTyped, rowVars, pageVars, linkVars, Ids
<1>3. CASE Accept
    BY <1>3 DEF Accept, BadgeTypeOK, PageTyped, rowVars, pageVars, counters, Ids
<1>4. CASE Register \/ Retry
    BY <1>4 DEF Register, Retry, BadgeTypeOK, PageTyped, rowVars, pageVars, counters, Ids
<1>5. CASE Drop
    <2>1. Range(feed) \subseteq Ids
        BY RangeOf DEF BadgeTypeOK
    <2>2. RoomsOf(FromOther(Range(feed))) \subseteq Rooms /\ ReadFrames(wire) \subseteq Rooms
        BY <2>1, MessageRooms, ReadFramesOf DEF BadgeTypeOK
    <2>3. off' \subseteq Rooms
        BY <1>5, <2>1, <2>2 DEF Drop, BadgeTypeOK
    <2>4. events' \in 0..MaxEvents /\ <<>> \in Seq(Frame) /\ <<>> \in Seq(Ids)
        BY <1>5, UnreadAssumption DEF Drop, BadgeTypeOK
    <2>5. QED
        BY <1>5, <2>3, <2>4 DEF Drop, BadgeTypeOK, PageTyped, rowVars, pageVars, Ids
<1>6. ASSUME NEW g \in Gets, ReadList(g) \/ GetFails(g) PROVE PageTyped'
    BY <1>6
       DEF ReadList, GetFails, BadgeTypeOK, PageTyped, rowVars, pageVars, linkVars, counters,
           Ids
<1>7. ASSUME NEW g \in Gets, Arrive(g) PROVE PageTyped'
    <2>1. get[g] \in Get
        BY <1>7, GetIsNotVacant DEF Arrive, BadgeTypeOK
    <2>2. badge' \in [Rooms -> Nat] /\ off' \subseteq Rooms
        BY <1>7, <2>1 DEF Arrive, BadgeTypeOK, Get
    <2>3. QED
        BY <1>7, <2>2 DEF Arrive, BadgeTypeOK, PageTyped, rowVars, linkVars, counters, Ids
<1>8. QED
    BY <1>1, <1>2, <1>3, <1>4, <1>5, <1>6, <1>7

(* The GETs of a step: those of before but for one that is asked for, is   *)
(* read or ends; and what a step meets is met by each of them.             *)
Reads(gets) ==
    \A g \in Gets : \/ gets[g] = get[g]
                    \/ gets[g].at # "read"
                    \/ gets[g].page = [r \in Rooms |-> Count(r)] /\ UNCHANGED rowVars

LEMMA GetsOfStep ==
    ASSUME BadgeTypeOK, BadgeNext
    PROVE  (Moves /\ Breaks) \/ \E gets \in GetSlots : Track(gets) /\ Reads(gets)
<1>1. get \in GetSlots /\ Reads(get)
    BY DEF BadgeTypeOK, GetSlots, Reads
<1>2. NoGet => \E gets \in GetSlots : Track(gets) /\ Reads(gets)
    BY <1>1 DEF NoGet
<1>3. ASSUME Ask PROVE \E gets \in GetSlots : Track(gets) /\ Reads(gets)
    <2>1. PICK g \in Gets : Track([get EXCEPT ![g] = Request])
        BY <1>3 DEF Ask
    <2>2. /\ [get EXCEPT ![g] = Request] \in GetSlots
          /\ \A h \in Gets : [get EXCEPT ![g] = Request][h]
                                = IF h = g THEN Request ELSE get[h]
        BY <1>1, GetIsNotVacant DEF GetSlots
    <2>3. Reads([get EXCEPT ![g] = Request])
        BY <2>2, GetIsNotVacant DEF Reads
    <2>4. QED
        BY <2>1, <2>2, <2>3
<1>4. ASSUME NEW g \in Gets, Track([get EXCEPT ![g] = Vacant])
      PROVE  \E gets \in GetSlots : Track(gets) /\ Reads(gets)
    <2>1. /\ [get EXCEPT ![g] = Vacant] \in GetSlots
          /\ \A h \in Gets : [get EXCEPT ![g] = Vacant][h] = IF h = g THEN Vacant ELSE get[h]
        BY <1>1 DEF GetSlots
    <2>2. Reads([get EXCEPT ![g] = Vacant])
        BY <2>1, GetIsNotVacant DEF Reads
    <2>3. QED
        BY <1>4, <2>1, <2>2
<1>5. ASSUME NEW g \in Gets, ReadList(g)
      PROVE  \E gets \in GetSlots : Track(gets) /\ Reads(gets)
    <2> DEFINE page == [r \in Rooms |-> Count(r)]
               gets == [get EXCEPT ![g].at = "read", ![g].page = page]
    <2>1. get[g] \in Get
        BY <1>5, GetIsNotVacant DEF ReadList, BadgeTypeOK
    <2>2. page \in [Rooms -> Nat]
        BY Countable
    <2> HIDE DEF page
    <2>3. \E x \in Get : x.page = page /\ gets = [get EXCEPT ![g] = x]
        <3>1. [[get[g] EXCEPT !.at = "read"] EXCEPT !.page = page] \in Get
              /\ [[get[g] EXCEPT !.at = "read"] EXCEPT !.page = page].page = page
            BY <2>1, <2>2 DEF Get
        <3>2. gets = [get EXCEPT ![g] = [[get[g] EXCEPT !.at = "read"] EXCEPT !.page = page]]
            BY <1>1, <2>1 DEF GetSlots, Get
        <3>3. QED
            BY <3>1, <3>2
    <2> HIDE DEF gets
    <2>4. gets \in GetSlots /\ Reads(gets)
        BY <1>1, <1>5, <2>3 DEF GetSlots, Reads, ReadList, page
    <2>5. Track(gets)
        BY <1>5 DEF ReadList, gets, page
    <2>6. QED
        BY <2>4, <2>5
<1>6. CASE \E r \in Rooms : Build(r)
    BY <1>2, <1>6 DEF Build
<1>7. CASE \E r \in Rooms : SelectRoom(r)
    BY <1>2, <1>7 DEF SelectRoom
<1>8. CASE \E m \in Ids : Publish(m) \/ Commit(m) \/ CommitFails(m)
    BY <1>2, <1>8 DEF Publish, Commit, CommitFails
<1>9. CASE ReadUpdate \/ ReceiveMessage \/ SendMessage \/ OnMessage \/ Register \/ Drop \/ Retry
    BY <1>2, <1>9 DEF ReadUpdate, ReceiveMessage, SendMessage, OnMessage, Register, Drop, Retry
<1>10. CASE Back \/ OnInvite \/ Accept
    BY <1>2, <1>3, <1>10 DEF Back, OnInvite, Accept
<1>11. ASSUME NEW g \in Gets, Arrive(g) \/ GetFails(g)
       PROVE  \E gets \in GetSlots : Track(gets) /\ Reads(gets)
    BY <1>4, <1>11 DEF Arrive, GetFails
<1>12. QED
    BY <1>5, <1>6, <1>7, <1>8, <1>9, <1>10, <1>11 DEF BadgeNext

LEMMA BadgeInitTyped == BadgeInit => BadgeTypeOK
<1>1. ASSUME BadgeInit PROVE BadgeTypeOK
    <2>1. <<>> \in Seq(Message) /\ <<>> \in Seq(Frame) /\ <<>> \in Seq(Ids) /\ Len(<<>>) = 0
          /\ Zero \in [Rooms -> Nat]
        BY DEF Zero
    <2>2. get \in [Gets -> Get \cup {Vacant}]
        BY <1>1, GetIsNotVacant DEF BadgeInit
    <2>3. 0 <= MaxMsgs /\ 0 \in 0..MaxMoves /\ 0 \in 0..MaxEvents
        BY UnreadAssumption
    <2>4. /\ msg \in Seq(Message) /\ Len(msg) <= MaxMsgs /\ read \subseteq Ids
          /\ wire \in Seq(Frame) /\ feed \in Seq(Ids) /\ badge \in [Rooms -> Nat]
        BY <1>1, <2>1, <2>3 DEF BadgeInit
    <2>5. QED
        BY <1>1, <2>2, <2>3, <2>4 DEF BadgeInit, BadgeTypeOK
<1>2. QED
    BY <1>1

LEMMA BadgeTypeStep ==
    ASSUME BadgeTypeOK, [BadgeNext]_badgeVars
    PROVE  BadgeTypeOK'
<1>1. CASE BadgeNext
    <2>1. CASE Moves /\ Breaks
        BY <2>1, BrokenTyped DEF PageTyped, GetSlots, BadgeTypeOK
    <2>2. ASSUME NEW gets \in GetSlots, Track(gets) PROVE BadgeTypeOK'
        <3>1. PageTyped'
            BY <1>1, RowsTyped, UserTyped, TabTyped DEF BadgeNext
        <3>2. get' \in GetSlots
            BY <2>2, <3>1, Tracked
        <3>3. QED
            BY <3>1, <3>2 DEF PageTyped, GetSlots, BadgeTypeOK
    <2>3. QED
        BY <1>1, <2>1, <2>2, GetsOfStep
<1>2. CASE UNCHANGED badgeVars
    BY <1>2 DEF badgeVars, rowVars, pageVars, linkVars, counters, BadgeTypeOK, Ids
<1>3. QED
    BY <1>1, <1>2

(* Every reachable state is typed. *)
THEOREM BadgeTypeInvariant == BadgeSpec => []BadgeTypeOK
BY BadgeInitTyped, BadgeTypeStep, PTL DEF BadgeSpec
-----------------------------------------------------------------------------
(* What the tab has counted of a room: what came out of the feed, did not  *)
(* fail and is not read.                                                   *)
Counted(r) == {m \in FromOther(Ids) : /\ msg[m].room = r
                                      /\ msg[m].at \in {"published", "committed"}
                                      /\ m \notin Range(feed) /\ m \notin read}

(* A message is in the feed once, and was published; without a registered  *)
(* socket there is no feed.                                                *)
FeedRight ==
    /\ link # "up" => feed = <<>>
    /\ \A m \in Range(feed) : msg[m].at # "built"
    /\ \A i, j \in DOMAIN feed : feed[i] = feed[j] => i = j

(* A message that failed while in the feed will not be counted. *)
FailedRight ==
    \A m \in FromOther(Range(feed)) :
        msg[m].at = "failed" => Passed(m) \/ msg[m].room \in off

(* The room on the screen has no badge. *)
ShownRight == listed /\ active # NoRoom /\ active \notin off => badge[active] = 0

(* The badge of any other room is what was counted, or zero while its      *)
(* update is under way.                                                    *)
CountRight ==
    listed => \A r \in Rooms \ (off \cup {active}) :
                  badge[r] = IF r \in ReadFrames(wire) THEN 0 ELSE Cardinality(Counted(r))

TabInv == FeedRight /\ FailedRight /\ ShownRight /\ CountRight

(* Steps that leave the badges, the feed and the rows alone. *)
LEMMA StillStep ==
    ASSUME TabInv, UNCHANGED <<msg, read, active, listed, badge, feed, off>>,
           ReadFrames(wire') = ReadFrames(wire),
           link' = link \/ feed = <<>>
    PROVE  TabInv'
<1>1. /\ Ids' = Ids /\ FromOther(Ids)' = FromOther(Ids)
      /\ FromOther(Range(feed))' = FromOther(Range(feed))
      /\ \A r : Counted(r)' = Counted(r)
      /\ \A m : Passed(m)' <=> Passed(m)
    BY DEF Ids, FromOther, Counted, Passed
<1>2. FeedRight'
    BY DEF TabInv, FeedRight
<1>3. FailedRight'
    BY <1>1 DEF TabInv, FailedRight
<1>4. ShownRight'
    BY DEF TabInv, ShownRight
<1>5. CountRight'
    BY <1>1 DEF TabInv, CountRight
<1>6. QED
    BY <1>2, <1>3, <1>4, <1>5 DEF TabInv

(* A message is begun: nobody was told of it yet. *)
LEMMA BegunStep ==
    ASSUME BadgeTypeOK, TabInv, NEW x \in Message, x.at = "built",
           Len(msg) < MaxMsgs, msg' = Append(msg, x),
           UNCHANGED <<read, pageVars, link, feed, off>>,
           ReadFrames(wire') = ReadFrames(wire)
    PROVE  TabInv'
<1>1. PICK n \in Ids' : n \notin Ids /\ Ids' = Ids \cup {n} /\ msg'[n] = x
    BY Appended
<1>2. \A m \in Ids : msg'[m] = msg[m]
    BY Appended
<1>3. Range(feed) \subseteq Ids /\ Range(feed') = Range(feed)
    BY RangeOf DEF BadgeTypeOK
<1>4. FromOther(Range(feed))' = FromOther(Range(feed))
    BY <1>2, <1>3 DEF FromOther
<1>5. \A m \in Ids : Passed(m)' <=> Passed(m)
    BY <1>2 DEF Passed, pageVars
<1>6. ASSUME NEW r PROVE Counted(r)' = Counted(r)
    BY <1>1, <1>2, <1>3 DEF Counted, FromOther
<1>7. FeedRight'
    BY <1>2, <1>3 DEF TabInv, FeedRight
<1>8. FailedRight'
    BY <1>2, <1>3, <1>4, <1>5 DEF TabInv, FailedRight, FromOther
<1>9. ShownRight'
    BY DEF TabInv, ShownRight, pageVars
<1>10. CountRight'
    BY <1>6 DEF TabInv, CountRight, pageVars
<1>11. QED
    BY <1>7, <1>8, <1>9, <1>10 DEF TabInv

(* A message is published: it is in the feed, or nobody of the tab hears of it. *)
LEMMA PublishStep ==
    ASSUME BadgeTypeOK, TabInv, NEW m \in Ids, Publish(m)
    PROVE  TabInv'
<1>1. /\ Ids' = Ids /\ \A k \in Ids : /\ msg'[k].room = msg[k].room /\ msg'[k].from = msg[k].from
                                      /\ msg'[k].at = IF k = m THEN "published" ELSE msg[k].at
    BY Advanced DEF Publish
<1>2. /\ msg[m].at = "built" /\ UNCHANGED <<read, active, listed, badge, link, wire>>
      /\ off \subseteq off'
    BY DEF Publish, pageVars, linkVars
<1>3. Range(feed) \subseteq Ids /\ m \notin Range(feed)
    BY <1>2, RangeOf DEF BadgeTypeOK, TabInv, FeedRight
<1>4. \A k \in Ids : Passed(k)' <=> Passed(k)
    BY <1>1, <1>2 DEF Passed
<1>5. CASE link = "up"
    <2>1. feed' = Append(feed, m) /\ off' = off
        BY <1>5 DEF Publish
    <2>2. Range(feed') = Range(feed) \cup {m}
        BY <2>1, RangeOf DEF BadgeTypeOK
    <2>3. \A i, j \in DOMAIN feed' : feed'[i] = feed'[j] => i = j
        <3>1. /\ Len(feed) \in Nat /\ DOMAIN feed = 1..Len(feed)
              /\ DOMAIN feed' = 1..(Len(feed) + 1) /\ feed'[Len(feed) + 1] = m
              /\ \A i \in 1..Len(feed) : feed'[i] = feed[i]
            BY <2>1 DEF BadgeTypeOK
        <3>2. \A i \in 1..(Len(feed) + 1) : i \in 1..Len(feed) \/ i = Len(feed) + 1
            BY <3>1
        <3>3. \A i \in 1..Len(feed) : feed[i] # m
            BY <1>3, <3>1 DEF Range
        <3>4. \A i, j \in 1..Len(feed) : feed[i] = feed[j] => i = j
            BY <3>1 DEF TabInv, FeedRight
        <3>5. QED
            BY <3>1, <3>2, <3>3, <3>4
    <2>4. FeedRight'
        BY <1>1, <1>2, <1>3, <1>5, <2>2, <2>3 DEF TabInv, FeedRight
    <2>5. FailedRight'
        BY <1>1, <1>3, <1>4, <2>1, <2>2 DEF TabInv, FailedRight, FromOther
    <2>6. ShownRight'
        BY <1>2, <2>1 DEF TabInv, ShownRight
    <2>7. ASSUME NEW r PROVE Counted(r)' = Counted(r)
        BY <1>1, <1>2, <1>3, <2>2 DEF Counted, FromOther
    <2>8. CountRight'
        BY <1>2, <2>1, <2>7 DEF TabInv, CountRight
    <2>9. QED
        BY <2>4, <2>5, <2>6, <2>8 DEF TabInv
<1>6. CASE link # "up"
    <2>1. feed' = feed /\ (msg[m].from = Other => msg[m].room \in off')
        BY <1>6 DEF Publish, RoomsOf, FromOther
    <2>2. FeedRight'
        BY <1>1, <1>2, <1>3, <2>1 DEF TabInv, FeedRight
    <2>3. FailedRight'
        BY <1>1, <1>2, <1>3, <1>4, <2>1 DEF TabInv, FailedRight, FromOther
    <2>4. ShownRight'
        BY <1>2 DEF TabInv, ShownRight
    <2>5. ASSUME NEW r, r \notin off' PROVE Counted(r)' = Counted(r)
        BY <1>1, <1>2, <2>1, <2>5 DEF Counted, FromOther
    <2>6. CountRight'
        BY <1>2, <2>5 DEF TabInv, CountRight
    <2>7. QED
        BY <2>2, <2>3, <2>4, <2>6 DEF TabInv
<1>7. QED
    BY <1>5, <1>6

(* A transaction ends. *)
LEMMA EndStep ==
    ASSUME BadgeTypeOK, TabInv, NEW m \in Ids, Commit(m) \/ CommitFails(m)
    PROVE  TabInv'
<1>1. PICK a \in {"committed", "failed"} :
        /\ \A k \in Ids : /\ msg'[k].room = msg[k].room /\ msg'[k].from = msg[k].from
                          /\ msg'[k].at = IF k = m THEN a ELSE msg[k].at
        /\ Ids' = Ids
        /\ a = "failed" /\ msg[m].from = Other => msg[m].room \in off'
    <2>1. CASE Commit(m)
        BY <2>1, Advanced DEF Commit
    <2>2. CASE CommitFails(m)
        <3>1. msg[m].from = Other => msg[m].room \in off'
            BY <2>2 DEF CommitFails, RoomsOf, FromOther
        <3>2. QED
            BY <2>2, <3>1, Advanced DEF CommitFails
    <2>3. QED
        BY <2>1, <2>2
<1>2. /\ msg[m].at = "published" /\ off \subseteq off'
      /\ UNCHANGED <<read, active, listed, badge, link, wire, feed>>
    BY DEF Commit, CommitFails, pageVars, linkVars
<1>3. Range(feed) \subseteq Ids
    BY RangeOf DEF BadgeTypeOK
<1>4. \A k \in Ids : Passed(k)' <=> Passed(k)
    BY <1>1, <1>2 DEF Passed
<1>5. FeedRight'
    BY <1>1, <1>2, <1>3 DEF TabInv, FeedRight
<1>6. FailedRight'
    BY <1>1, <1>2, <1>3, <1>4 DEF TabInv, FailedRight, FromOther
<1>7. ShownRight'
    BY <1>2 DEF TabInv, ShownRight
<1>8. ASSUME NEW r, r \notin off' PROVE Counted(r)' = Counted(r)
    BY <1>1, <1>2, <1>8 DEF Counted, FromOther
<1>9. CountRight'
    BY <1>2, <1>8 DEF TabInv, CountRight
<1>10. QED
    BY <1>5, <1>6, <1>7, <1>9 DEF TabInv

(* The server takes an update: what was due of that room is done. *)
LEMMA UpdateStep ==
    ASSUME BadgeTypeOK, TabInv, ReadUpdate
    PROVE  TabInv'
<1>1. PICK x :
        /\ read' = read \cup {m \in Ids : msg[m].room = x}
        /\ ReadFrames(wire) = ReadFrames(wire') \cup {x}
    BY ReadFramesOf DEF ReadUpdate, Receives, BadgeTypeOK
<1>2. UNCHANGED <<msg, active, listed, badge, link, feed, off>>
    BY DEF ReadUpdate, pageVars, linkVars
<1>3. Ids' = Ids /\ Range(feed) \subseteq Ids
    BY <1>2, RangeOf DEF BadgeTypeOK, Ids
<1>4. \A m \in Ids : Passed(m)' <=> Passed(m)
    BY <1>1, <1>2 DEF Passed
<1>5. FeedRight'
    BY <1>2 DEF TabInv, FeedRight
<1>6. FailedRight'
    BY <1>2, <1>3, <1>4 DEF TabInv, FailedRight, FromOther
<1>7. ShownRight'
    BY <1>2 DEF TabInv, ShownRight
<1>8. /\ Counted(x)' = {}
      /\ \A r : r # x => Counted(r)' = Counted(r)
    <2>1. Counted(x)' = {}
        BY <1>1, <1>2, <1>3 DEF Counted, FromOther
    <2>2. ASSUME NEW r, r # x PROVE Counted(r)' = Counted(r)
        BY <1>1, <1>2, <1>3, <2>2 DEF Counted, FromOther
    <2>3. QED
        BY <2>1, <2>2
<1>9. CountRight'
    <2>1. ASSUME listed, NEW r \in Rooms \ (off \cup {active})
          PROVE  badge[r] = IF r \in ReadFrames(wire') THEN 0 ELSE Cardinality(Counted(r)')
        <3>1. badge[r] = IF r \in ReadFrames(wire) THEN 0 ELSE Cardinality(Counted(r))
            BY <2>1 DEF TabInv, CountRight
        <3>2. Cardinality({}) = 0
            BY FS_EmptySet
        <3>3. QED
            BY <1>1, <1>8, <3>1, <3>2
    <2>2. QED
        BY <1>2, <2>1 DEF CountRight
<1>10. QED
    BY <1>5, <1>6, <1>7, <1>9 DEF TabInv

(* Another room, or none, comes on the screen. *)
LEMMA ShowsStep ==
    ASSUME BadgeTypeOK, TabInv, NEW r \in Rooms \cup {NoRoom}, r # active, Shows(r),
           UNCHANGED <<rowVars, listed, link, feed>>
    PROVE  TabInv'
<1>1. /\ ReadFrames(wire') = ReadFrames(wire) \cup Said(r) /\ active' = r
      /\ \A x \in Rooms : badge'[x] = IF x = r THEN 0 ELSE badge[x]
    BY ShowsSays
<1>2. /\ off' = (IF Open THEN off ELSE off \cup ({active} \ {NoRoom})) \ ({r} \ {NoRoom})
    BY DEF Shows
<1>3. UNCHANGED <<msg, read, listed, link, feed>> /\ Ids' = Ids /\ Range(feed) \subseteq Ids
    BY RangeOf DEF rowVars, Ids, BadgeTypeOK
<1>4. active \in Rooms \cup {NoRoom} /\ NoRoom \notin Rooms /\ off \subseteq Rooms
      /\ \A m \in Ids : msg[m].room \in Rooms
    BY UnreadAssumption, MessageRooms DEF BadgeTypeOK
<1>5. FeedRight'
    BY <1>3 DEF TabInv, FeedRight
<1>6. ASSUME NEW m \in Ids, Passed(m)
      PROVE  Passed(m)' \/ msg[m].room \in off'
    BY <1>1, <1>2, <1>3, <1>4, <1>6 DEF Passed, Said
<1>7. ASSUME NEW m \in Ids, Passed(m)' PROVE Passed(m) \/ msg[m].room = r
    BY <1>1, <1>3, <1>7 DEF Passed, Said
<1>8. FailedRight'
    <2>1. ASSUME NEW m \in FromOther(Range(feed)), msg[m].at = "failed"
          PROVE  Passed(m)' \/ msg[m].room \in off'
        <3>1. m \in Ids /\ (Passed(m) \/ msg[m].room \in off)
            BY <1>3, <2>1 DEF TabInv, FailedRight, FromOther
        <3>2. CASE msg[m].room = r
            BY <1>1, <1>3, <3>2 DEF Passed
        <3>3. CASE msg[m].room # r
            BY <1>2, <1>6, <3>1, <3>3
        <3>4. QED
            BY <3>2, <3>3
    <2>2. QED
        BY <1>3, <2>1 DEF FailedRight, FromOther
<1>9. ShownRight'
    BY <1>1, <1>4 DEF ShownRight
<1>10. \A x : Counted(x)' = Counted(x)
    BY <1>3 DEF Counted, FromOther
<1>11. CountRight'
    <2>1. ASSUME listed, NEW x \in Rooms \ (off' \cup {r})
          PROVE  badge'[x] = IF x \in ReadFrames(wire') THEN 0 ELSE Cardinality(Counted(x))
        <3>1. badge'[x] = badge[x] /\ x \notin off /\ (x = active => Open)
            BY <1>1, <1>2, <1>4, <2>1
        <3>2. CASE x = active
            <4>1. badge[x] = 0
                BY <1>4, <2>1, <3>1, <3>2 DEF TabInv, ShownRight
            <4>2. x \in ReadFrames(wire')
                BY <1>1, <1>4, <2>1, <3>1, <3>2 DEF Said
            <4>3. QED
                BY <3>1, <4>1, <4>2
        <3>3. CASE x # active
            <4>1. badge[x] = IF x \in ReadFrames(wire) THEN 0 ELSE Cardinality(Counted(x))
                BY <2>1, <3>1, <3>3 DEF TabInv, CountRight
            <4>2. x \in ReadFrames(wire') <=> x \in ReadFrames(wire)
                BY <1>1, <2>1, <3>3 DEF Said
            <4>3. QED
                BY <3>1, <4>1, <4>2
        <3>4. QED
            BY <3>2, <3>3
    <2>2. QED
        BY <1>1, <1>3, <1>10, <2>1 DEF CountRight
<1>12. QED
    BY <1>5, <1>8, <1>9, <1>11 DEF TabInv

(* The tab takes a message from the feed: it shows it, counts it, or an    *)
(* update is or will be past it.                                           *)
LEMMA OnMessageStep ==
    ASSUME BadgeTypeOK, TabInv, OnMessage
    PROVE  TabInv'
<1>1. PICK m \in Ids : /\ m = Head(feed) /\ Range(feed) = Range(feed') \cup {m}
                       /\ m \notin Range(feed')
                       /\ \A i, j \in DOMAIN feed' : feed'[i] = feed'[j] => i = j
                       /\ Range(feed) \subseteq Ids
    BY RangeOf, RangeOfTail DEF OnMessage, BadgeTypeOK, TabInv, FeedRight
<1> DEFINE r == msg[m].room
           passed == r # active /\ (m \in read \/ r \in ReadFrames(wire))
<1>2. /\ badge' = IF r # active /\ listed THEN [badge EXCEPT ![r] = @ + 1] ELSE badge
      /\ off' = IF passed \/ (r # active /\ msg[m].from = Me) THEN off \cup {r} ELSE off
    BY <1>1 DEF OnMessage
<1>3. UNCHANGED <<msg, read, active, listed, link, wire>> /\ Ids' = Ids /\ feed # <<>>
    BY DEF OnMessage, rowVars, linkVars, Ids
<1>4. r \in Rooms /\ badge \in [Rooms -> Nat] /\ msg[m] \in Message
    BY MessageRooms DEF BadgeTypeOK
<1>5. link = "up" /\ msg[m].at # "built"
    BY <1>1, <1>3 DEF TabInv, FeedRight
<1>6. \A k : Passed(k)' <=> Passed(k)
    BY <1>3 DEF Passed
<1>7. passed <=> r # active /\ Passed(m)
    BY DEF Passed
<1>8. off \subseteq off'
    BY <1>2
<1>9. FeedRight'
    BY <1>1, <1>3, <1>5 DEF TabInv, FeedRight
<1>10. FailedRight'
    BY <1>1, <1>3, <1>6, <1>8 DEF TabInv, FailedRight, FromOther
<1>11. ShownRight'
    <2>1. active # NoRoom => badge'[active] = badge[active]
        BY <1>2, <1>4
    <2>2. QED
        BY <1>3, <1>8, <2>1 DEF TabInv, ShownRight
<1>12. CountRight'
    <2>1. ASSUME listed, NEW x \in Rooms \ (off' \cup {active})
          PROVE  badge'[x] = IF x \in ReadFrames(wire) THEN 0 ELSE Cardinality(Counted(x)')
        <3>1. badge[x] = IF x \in ReadFrames(wire) THEN 0 ELSE Cardinality(Counted(x))
            BY <1>8, <2>1 DEF TabInv, CountRight
        <3>2. CASE x = r
            <4>1. ~passed /\ msg[m].from = Other /\ r # active
                BY <1>2, <1>4, <2>1, <3>2 DEF Message
            <4>2. m \notin read /\ r \notin ReadFrames(wire)
                BY <4>1
            <4>3. msg[m].at \in {"published", "committed"}
                <5>1. msg[m].at # "failed"
                    BY <1>1, <1>7, <1>8, <2>1, <3>2, <4>1
                       DEF TabInv, FailedRight, FromOther
                <5>2. QED
                    BY <1>4, <1>5, <5>1 DEF Message
            <4>4. Counted(x)' = Counted(x) \cup {m} /\ m \notin Counted(x)
                BY <1>1, <1>3, <3>2, <4>1, <4>2, <4>3 DEF Counted, FromOther
            <4>5. /\ IsFiniteSet(Counted(x))
                  /\ Cardinality(Counted(x) \cup {m}) = Cardinality(Counted(x)) + 1
                <5>1. Counted(x) \subseteq Ids
                    BY DEF Counted, FromOther
                <5>2. IsFiniteSet(Counted(x))
                    BY <5>1, Countable
                <5>3. QED
                    BY <4>4, <5>2, FS_AddElement
            <4>6. badge'[x] = badge[x] + 1
                BY <1>2, <1>4, <2>1, <3>2, <4>1
            <4>7. QED
                BY <3>1, <3>2, <4>2, <4>4, <4>5, <4>6
        <3>3. CASE x # r
            <4>1. badge'[x] = badge[x]
                BY <1>2, <1>4, <3>3
            <4>2. Counted(x)' = Counted(x)
                BY <1>1, <1>3, <3>3 DEF Counted, FromOther
            <4>3. QED
                BY <3>1, <4>1, <4>2
        <3>4. QED
            BY <3>2, <3>3
    <2>2. QED
        BY <1>3, <2>1 DEF CountRight
<1>13. QED
    BY <1>9, <1>10, <1>11, <1>12 DEF TabInv

(* The connection is lost, and with it the feed and the updates. *)
LEMMA DropStep ==
    ASSUME BadgeTypeOK, TabInv, Drop
    PROVE  TabInv'
<1>1. /\ UNCHANGED <<msg, read, active, listed, badge>> /\ wire' = <<>> /\ feed' = <<>>
      /\ off' = off \cup RoomsOf(FromOther(Range(feed))) \cup (ReadFrames(wire) \ {active})
    BY DEF Drop, rowVars, pageVars
<1>2. ReadFrames(wire') = {} /\ Range(feed') = {} /\ Ids' = Ids
    BY <1>1, RangeOf, ReadFramesOf DEF Ids
<1>3. FeedRight'
    BY <1>1, <1>2 DEF FeedRight
<1>4. FailedRight'
    BY <1>2 DEF FailedRight, FromOther
<1>5. ShownRight'
    BY <1>1 DEF TabInv, ShownRight
<1>6. CountRight'
    <2>1. ASSUME listed, NEW x \in Rooms \ (off' \cup {active})
          PROVE  badge[x] = Cardinality(Counted(x)')
        <3>1. x \notin off /\ x \notin ReadFrames(wire)
            BY <1>1, <2>1
        <3>2. \A m \in FromOther(Range(feed)) : msg[m].room # x
            BY <1>1, <2>1 DEF RoomsOf
        <3>3. Counted(x)' = Counted(x)
            BY <1>1, <1>2, <3>2 DEF Counted, FromOther
        <3>4. QED
            BY <2>1, <3>1, <3>3 DEF TabInv, CountRight
    <2>2. QED
        BY <1>1, <1>2, <2>1 DEF CountRight
<1>7. QED
    BY <1>3, <1>4, <1>5, <1>6 DEF TabInv

(* A page that is taken away shows and counts nothing. *)
LEMMA BreaksStep ==
    ASSUME BadgeTypeOK, TabInv, link = "connecting", Breaks
    PROVE  TabInv'
<1>1. /\ UNCHANGED <<msg, read, off>> /\ listed' = FALSE /\ active' = NoRoom
      /\ wire' = <<>> /\ feed' = <<>> /\ feed = <<>> /\ Ids' = Ids
    BY DEF Breaks, rowVars, TabInv, FeedRight, Ids
<1>2. ReadFrames(wire') = {} /\ Range(feed') = {} /\ Range(feed) = {}
    BY <1>1, RangeOf, ReadFramesOf
<1>3. \A m \in Ids : msg[m].room # NoRoom
    BY MessageRooms, UnreadAssumption
<1>4. FeedRight'
    BY <1>1, <1>2 DEF FeedRight
<1>5. FailedRight' /\ ShownRight' /\ CountRight'
    BY <1>1, <1>2 DEF FailedRight, ShownRight, CountRight, FromOther
<1>6. QED
    BY <1>4, <1>5 DEF TabInv
-----------------------------------------------------------------------------
(* A GET has met what is under way, and an answer is right of the rooms    *)
(* it has not met.                                                         *)
MetRight ==
    \A g \in Gets : get[g] # Vacant =>
        ReadFrames(wire) \cup RoomsOf(UnderWay) \subseteq get[g].met

PageRight ==
    \A g \in Gets : get[g].at = "read" =>
        \A r \in Rooms \ get[g].met : get[g].page[r] = Count(r)

GetInv == MetRight /\ PageRight

(* The answer to a GET comes: its counts are right but for what it met. *)
LEMMA ArriveStep ==
    ASSUME BadgeTypeOK, TabInv, GetInv, NEW g \in Gets, Arrive(g)
    PROVE  TabInv'
<1>1. /\ UNCHANGED <<msg, read, active, link, wire, feed>> /\ Ids' = Ids
      /\ badge' = get[g].page /\ get[g].at = "read"
      /\ off' = get[g].met \cup {r \in {active} \ {NoRoom} : get[g].page[r] # 0}
    BY DEF Arrive, rowVars, linkVars, Ids
<1>2. /\ ReadFrames(wire) \cup RoomsOf(UnderWay) \subseteq get[g].met
      /\ \A r \in Rooms \ get[g].met : get[g].page[r] = Count(r)
    BY <1>1, GetIsNotVacant DEF GetInv, MetRight, PageRight
<1>3. Range(feed) \subseteq Ids
    BY RangeOf DEF BadgeTypeOK
<1>4. \A m : Passed(m)' <=> Passed(m)
    BY <1>1 DEF Passed
<1>5. FeedRight'
    BY <1>1 DEF TabInv, FeedRight
<1>6. FailedRight'
    <2>1. ASSUME NEW m \in Range(feed) PROVE msg[m].room \in off'
        BY <1>1, <1>2, <1>3, <2>1 DEF RoomsOf, UnderWay
    <2>2. QED
        BY <1>1, <2>1 DEF FailedRight, FromOther
<1>7. ShownRight'
    BY <1>1 DEF ShownRight
<1>8. CountRight'
    <2>1. ASSUME NEW r \in Rooms \ (off' \cup {active})
          PROVE  badge'[r] = IF r \in ReadFrames(wire) THEN 0 ELSE Cardinality(Counted(r))
        <3>1. r \notin get[g].met
            BY <1>1, <2>1
        <3>2. badge'[r] = Count(r) /\ r \notin ReadFrames(wire) /\ r \notin RoomsOf(UnderWay)
            BY <1>1, <1>2, <2>1, <3>1
        <3>3. \A m \in Ids : msg[m].room = r => m \notin Range(feed) /\ msg[m].at # "published"
            BY <3>2 DEF RoomsOf, UnderWay
        <3>4. \A m \in Ids : msg[m].from # Me <=> msg[m].from = Other
            BY MessageRooms, UnreadAssumption DEF Message
        <3>5. Counted(r) = Unread(r)
            BY <3>3, <3>4 DEF Counted, Unread, FromOther
        <3>6. QED
            BY <3>2, <3>5 DEF Count
    <2>2. \A r : Counted(r)' = Counted(r)
        BY <1>1 DEF Counted, FromOther
    <2>3. QED
        BY <1>1, <2>1, <2>2 DEF CountRight
<1>9. QED
    BY <1>5, <1>6, <1>7, <1>8 DEF TabInv

(* The counts of a room change only while something of it is under way. *)
LEMMA UnreadKept ==
    ASSUME BadgeTypeOK, BadgeNext, NEW r \in Rooms,
           r \notin ReadFrames(wire) \cup RoomsOf(UnderWay)
    PROVE  Unread(r)' = Unread(r)
<1>1. ASSUME NEW x \in Message, x.at = "built", Len(msg) < MaxMsgs, msg' = Append(msg, x),
             read' = read
      PROVE  Unread(r)' = Unread(r)
    <2>1. PICK n \in Ids' : n \notin Ids /\ Ids' = Ids \cup {n} /\ msg'[n] = x
        BY <1>1, Appended
    <2>2. \A m \in Ids : msg'[m] = msg[m]
        BY <1>1, Appended
    <2>3. QED
        BY <1>1, <2>1, <2>2 DEF Unread
<1>2. CASE \E x \in Rooms : Build(x)
    <2>1. PICK x \in Rooms : Build(x)
        BY <1>2
    <2>2. [room |-> x, from |-> Other, at |-> "built"] \in Message
        BY DEF Message
    <2>3. QED
        BY <1>1, <2>1, <2>2 DEF Build
<1>3. CASE ReceiveMessage
    <2>1. Head(wire) \in Frame
        BY <1>3, RangeOfTail DEF ReceiveMessage, Receives, BadgeTypeOK
    <2>2. [room |-> Head(wire).room, from |-> Me, at |-> "built"] \in Message
        BY <2>1 DEF Message, Frame
    <2>3. QED
        BY <1>1, <1>3, <2>2 DEF ReceiveMessage
<1>4. ASSUME NEW m \in Ids, NEW a \in {"published", "committed", "failed"},
             msg' = [msg EXCEPT ![m].at = a], read' = read,
             \/ msg[m].at = "built" /\ a = "published"
             \/ msg[m].at = "published"
      PROVE  Unread(r)' = Unread(r)
    <2>1. /\ Ids' = Ids
          /\ \A k \in Ids : /\ msg'[k].room = msg[k].room /\ msg'[k].from = msg[k].from
                            /\ msg'[k].at = IF k = m THEN a ELSE msg[k].at
        BY <1>4, Advanced
    <2>2. msg[m].room # r
        BY <1>4 DEF RoomsOf, UnderWay
    <2>3. QED
        BY <1>4, <2>1, <2>2 DEF Unread
<1>5. CASE \E m \in Ids : Publish(m) \/ Commit(m) \/ CommitFails(m)
    BY <1>4, <1>5 DEF Publish, Commit, CommitFails
<1>6. CASE ReadUpdate
    <2>1. Head(wire).room # r /\ msg' = msg
        BY <1>6, ReadFramesOf DEF ReadUpdate, Receives, BadgeTypeOK
    <2>2. QED
        BY <1>6, <2>1 DEF ReadUpdate, Unread, Ids
<1>7. CASE UNCHANGED rowVars
    BY <1>7 DEF rowVars, Unread, Ids
<1>8. CASE \E x \in Rooms : SelectRoom(x)
    BY <1>7, <1>8 DEF SelectRoom, Breaks
<1>9. CASE Back \/ SendMessage \/ OnMessage \/ OnInvite
    BY <1>7, <1>9 DEF Back, Breaks, SendMessage, OnMessage, OnInvite
<1>10. CASE \E g \in Gets : ReadList(g) \/ Arrive(g) \/ GetFails(g)
    BY <1>7, <1>10 DEF ReadList, Arrive, GetFails
<1>11. CASE Accept \/ Register \/ Drop \/ Retry
    BY <1>7, <1>11 DEF Accept, Register, Drop, Retry
<1>12. QED
    BY <1>2, <1>3, <1>5, <1>6, <1>8, <1>9, <1>10, <1>11 DEF BadgeNext

LEMMA GetStep ==
    ASSUME BadgeTypeOK, BadgeTypeOK', GetInv, BadgeNext
    PROVE  GetInv'
<1>1. CASE Breaks
    BY <1>1, GetIsNotVacant DEF Breaks, GetInv, MetRight, PageRight
<1>2. ASSUME NEW gets \in GetSlots, Track(gets), Reads(gets) PROVE GetInv'
    <2>1. /\ \A g \in Gets : gets[g] = Vacant => get'[g] = Vacant
          /\ \A g \in Gets : gets[g] # Vacant =>
                /\ get'[g].at = gets[g].at /\ get'[g].page = gets[g].page
                /\ get'[g].met = gets[g].met \cup ReadFrames(wire') \cup RoomsOf(UnderWay)'
        BY <1>2, Tracked DEF BadgeTypeOK, PageTyped
    <2>2. MetRight'
        BY <2>1 DEF MetRight
    <2>3. ASSUME NEW g \in Gets, get'[g].at = "read", NEW r \in Rooms \ get'[g].met
          PROVE  get'[g].page[r] = Count(r)'
        <3>1. /\ gets[g] # Vacant /\ gets[g].at = "read" /\ r \notin gets[g].met
              /\ get'[g].page = gets[g].page
            BY <2>1, <2>3, GetIsNotVacant
        <3>2. CASE gets[g] = get[g]
            <4>1. /\ gets[g].page[r] = Count(r)
                  /\ r \notin ReadFrames(wire) \cup RoomsOf(UnderWay)
                BY <3>1, <3>2 DEF GetInv, MetRight, PageRight
            <4>2. QED
                BY <3>1, <4>1, UnreadKept DEF Count
        <3>3. CASE gets[g].page = [x \in Rooms |-> Count(x)] /\ UNCHANGED rowVars
            <4>1. Count(r)' = Count(r)
                BY <3>3 DEF Count, Unread, rowVars, Ids
            <4>2. QED
                BY <3>1, <3>3, <4>1
        <3>4. QED
            BY <1>2, <3>1, <3>2, <3>3 DEF Reads
    <2>4. QED
        BY <2>2, <2>3 DEF GetInv, PageRight
<1>3. QED
    BY <1>1, <1>2, GetsOfStep

LEMMA TabStep ==
    ASSUME BadgeTypeOK, TabInv, GetInv, [BadgeNext]_badgeVars
    PROVE  TabInv'
<1>1. ASSUME NEW r \in Rooms, Build(r) PROVE TabInv'
    <2>1. [room |-> r, from |-> Other, at |-> "built"] \in Message
        BY DEF Message
    <2>2. QED
        BY <1>1, <2>1, BegunStep DEF Build, linkVars
<1>2. CASE ReceiveMessage
    <2>1. Head(wire) \in Frame /\ ReadFrames(wire') = ReadFrames(wire)
        <3>1. /\ wire \in Seq(Frame) /\ wire # <<>> /\ wire' = Tail(wire)
              /\ Head(wire).type = "message.send"
            BY <1>2 DEF ReceiveMessage, Receives, BadgeTypeOK
        <3>2. Head(wire) \in Frame /\ Head(wire).type # "read.update"
            BY <3>1, RangeOfTail
        <3>3. QED
            BY <3>1, <3>2, ReadFramesOf
    <2>2. [room |-> Head(wire).room, from |-> Me, at |-> "built"] \in Message
        BY <2>1 DEF Message, Frame
    <2>3. QED
        BY <1>2, <2>1, <2>2, BegunStep DEF ReceiveMessage, linkVars
<1>3. CASE \E m \in Ids : Publish(m) \/ Commit(m) \/ CommitFails(m)
    BY <1>3, PublishStep, EndStep
<1>4. CASE ReadUpdate
    BY <1>4, UpdateStep
<1>5. CASE \E r \in Rooms : SelectRoom(r)
    BY <1>5, ShowsStep, BreaksStep DEF SelectRoom, linkVars
<1>6. CASE Back
    BY <1>6, ShowsStep, BreaksStep DEF Back, linkVars
<1>7. CASE SendMessage
    <2>1. ReadFrames(wire') = ReadFrames(wire)
        <3>1. PICK f \in Frame : f.type # "read.update" /\ wire' = Append(wire, f)
            <4>1. [type |-> "message.send", room |-> active] \in Frame
                BY <1>7 DEF SendMessage, BadgeTypeOK, Frame
            <4>2. QED
                BY <1>7, <4>1 DEF SendMessage
        <3>2. wire \in Seq(Frame)
            BY DEF BadgeTypeOK
        <3>3. ReadFrames(wire') = ReadFrames(wire) \cup {}
            BY <3>1, <3>2, ReadFramesOf
        <3>4. QED
            BY <3>3
    <2>2. QED
        BY <1>7, <2>1, StillStep DEF SendMessage, rowVars, pageVars, linkVars
<1>8. CASE OnMessage
    BY <1>8, OnMessageStep
<1>9. CASE OnInvite \/ \E g \in Gets : ReadList(g) \/ GetFails(g)
    BY <1>9, StillStep DEF OnInvite, ReadList, GetFails, rowVars, pageVars, linkVars
<1>10. CASE \E g \in Gets : Arrive(g)
    BY <1>10, ArriveStep
<1>11. CASE Accept \/ Register \/ Retry
    <2>1. feed = <<>>
        BY <1>11 DEF Accept, Register, Retry, TabInv, FeedRight
    <2>2. QED
        BY <1>11, <2>1, StillStep DEF Accept, Register, Retry, rowVars, pageVars
<1>12. CASE Drop
    BY <1>12, DropStep
<1>13. CASE UNCHANGED badgeVars
    BY <1>13, StillStep DEF badgeVars, rowVars, pageVars, linkVars
<1>14. QED
    BY <1>1, <1>2, <1>3, <1>4, <1>5, <1>6, <1>7, <1>8, <1>9, <1>10, <1>11, <1>12, <1>13
       DEF BadgeNext

(* What the tab shows and what it will be told agree with the server: the  *)
(* invariant the theorem below rests on.                                   *)
BadgeInv == BadgeTypeOK /\ TabInv /\ GetInv

THEOREM BadgeInvariant == BadgeSpec => []BadgeInv
<1>1. BadgeInit => BadgeInv
    <2>1. ASSUME BadgeInit PROVE TabInv
        <3>1. Range(feed) = {} /\ Ids = {} /\ listed = FALSE /\ feed = <<>>
            BY <2>1, RangeOf DEF BadgeInit, Ids
        <3>2. QED
            BY <3>1 DEF TabInv, FeedRight, FailedRight, ShownRight, CountRight, FromOther
    <2>2. ASSUME BadgeInit PROVE GetInv
        <3>1. Ids = {} /\ ReadFrames(wire) = {} /\ UnderWay = {} /\ RoomsOf({}) = {}
            BY <2>2, ReadFramesOf DEF BadgeInit, Ids, UnderWay, RoomsOf
        <3>2. \A g \in Gets : get[g].at # "read"
            BY <2>2, GetIsNotVacant DEF BadgeInit
        <3>3. QED
            BY <3>1, <3>2 DEF GetInv, MetRight, PageRight
    <2>3. QED
        BY <2>1, <2>2, BadgeInitTyped DEF BadgeInv
<1>2. BadgeInv /\ [BadgeNext]_badgeVars => BadgeInv'
    <2>1. ASSUME BadgeInv, [BadgeNext]_badgeVars PROVE BadgeInv'
        <3>1. BadgeTypeOK' /\ TabInv'
            BY <2>1, BadgeTypeStep, TabStep DEF BadgeInv
        <3>2. CASE BadgeNext
            BY <2>1, <3>1, <3>2, GetStep DEF BadgeInv
        <3>3. CASE UNCHANGED badgeVars
            <4>1. GetInv'
                BY <2>1, <3>3
                   DEF BadgeInv, GetInv, MetRight, PageRight, badgeVars, rowVars, Count, Unread,
                       Ids, RoomsOf, UnderWay
            <4>2. QED
                BY <3>1, <4>1 DEF BadgeInv
        <3>4. QED
            BY <2>1, <3>2, <3>3
    <2>2. QED
        BY <2>1
<1>3. QED
    BY <1>1, <1>2, PTL DEF BadgeSpec

(* When all is quiet a badge is the number of messages of others that the  *)
(* server counts as unread, and the room on the screen has none, but where *)
(* off says why not.                                                       *)
THEOREM BadgesAgree == BadgeSpec => []BadgeRight
<1>1. BadgeInv => BadgeRight
    <2>1. ASSUME BadgeInv, Quiet, listed, NEW r \in Rooms \ off
          PROVE  badge[r] = IF r = active THEN 0 ELSE Count(r)
        <3>1. CASE r = active
            BY <2>1, <3>1, UnreadAssumption DEF BadgeInv, TabInv, ShownRight
        <3>2. CASE r # active
            <4>1. ReadFrames(wire) = {}
                BY <2>1, ReadFramesOf DEF Quiet
            <4>2. badge[r] = Cardinality(Counted(r))
                BY <2>1, <3>2, <4>1 DEF BadgeInv, TabInv, CountRight
            <4>3. \A m \in Ids : m \notin Range(feed) /\ msg[m].at # "published"
                BY <2>1 DEF Quiet, UnderWay
            <4>4. \A m \in Ids : msg[m].from # Me <=> msg[m].from = Other
                BY <2>1, MessageRooms, UnreadAssumption DEF BadgeInv, Message
            <4>5. Counted(r) = Unread(r)
                BY <4>3, <4>4 DEF Counted, Unread, FromOther
            <4>6. QED
                BY <3>2, <4>2, <4>5 DEF Count
        <3>3. QED
            BY <3>1, <3>2
    <2>2. QED
        BY <2>1 DEF BadgeRight
<1>2. QED
    BY <1>1, BadgeInvariant, PTL
-----------------------------------------------------------------------------
(* SeenMessages.  Its steps are those of UnreadCounts. *)
LEMMA SeenStepIsBadgeStep == [SeenNext]_seenVars => [BadgeNext]_badgeVars
<1>1. Elsewhere => BadgeNext
    BY DEF Elsewhere, BadgeNext
<1>2. (\E r \in Rooms : EnterRoom(r)) \/ CloseRoom => BadgeNext
    BY DEF EnterRoom, CloseRoom, BadgeNext
<1>3. (\E m \in Ids : Push(m)) \/ AddMessage => BadgeNext
    BY DEF Push, AddMessage, BadgeNext
<1>4. Disconnect \/ Reconnect => BadgeNext
    BY DEF Disconnect, Reconnect, BadgeNext
<1>5. ASSUME NEW f \in Fetches, ReadMessages(f) \/ MessagesArrive(f) \/ FetchFails(f)
      PROVE  UNCHANGED badgeVars
    BY <1>5 DEF ReadMessages, MessagesArrive, FetchFails
<1>6. UNCHANGED seenVars => UNCHANGED badgeVars
    BY DEF seenVars
<1>7. QED
    BY <1>1, <1>2, <1>3, <1>4, <1>5, <1>6 DEF SeenNext

(* A message is not taken away, and stays in its room. *)
LEMMA MessagesStay ==
    ASSUME BadgeTypeOK, [BadgeNext]_badgeVars
    PROVE  Ids \subseteq Ids' /\ \A m \in Ids : msg'[m].room = msg[m].room
<1> DEFINE Stay == Ids \subseteq Ids' /\ \A m \in Ids : msg'[m].room = msg[m].room
<1>1. ASSUME NEW x \in Message, Len(msg) < MaxMsgs, msg' = Append(msg, x) PROVE Stay
    BY <1>1, Appended
<1>2. CASE \E x \in Rooms : Build(x)
    <2>1. \A x \in Rooms : [room |-> x, from |-> Other, at |-> "built"] \in Message
        BY DEF Message
    <2>2. QED
        BY <1>1, <1>2, <2>1 DEF Build
<1>3. CASE ReceiveMessage
    <2>1. Head(wire) \in Frame
        BY <1>3, RangeOfTail DEF ReceiveMessage, Receives, BadgeTypeOK
    <2>2. [room |-> Head(wire).room, from |-> Me, at |-> "built"] \in Message
        BY <2>1 DEF Message, Frame
    <2>3. QED
        BY <1>1, <1>3, <2>2 DEF ReceiveMessage
<1>4. CASE \E m \in Ids : Publish(m) \/ Commit(m) \/ CommitFails(m)
    BY <1>4, Advanced DEF Publish, Commit, CommitFails
<1>5. CASE UNCHANGED msg
    BY <1>5 DEF Ids
<1>6. CASE Back \/ \E x \in Rooms : SelectRoom(x)
    BY <1>5, <1>6 DEF Back, SelectRoom, Breaks, rowVars
<1>7. CASE ReadUpdate \/ SendMessage \/ OnMessage \/ OnInvite
    BY <1>5, <1>7 DEF ReadUpdate, SendMessage, OnMessage, OnInvite, rowVars
<1>8. CASE \E g \in Gets : ReadList(g) \/ Arrive(g) \/ GetFails(g)
    BY <1>5, <1>8 DEF ReadList, Arrive, GetFails, rowVars
<1>9. CASE Accept \/ Register \/ Drop \/ Retry
    BY <1>5, <1>9 DEF Accept, Register, Drop, Retry, rowVars
<1>10. CASE UNCHANGED badgeVars
    BY <1>5, <1>10 DEF badgeVars, rowVars
<1>11. QED
    BY <1>2, <1>3, <1>4, <1>6, <1>7, <1>8, <1>9, <1>10 DEF BadgeNext

(* A GET of messages is not the mark of a slot that is free; what it       *)
(* brings are messages also when there are more.                           *)
LEMMA Fetched ==
    /\ NoFetch.at = "idle" /\ \A q \in Fetch : q # NoFetch
    /\ \A r \in Rooms : [at |-> "sent", room |-> r, page |-> {}] \in Fetch
    /\ Ids \subseteq Ids' => Fetch \subseteq Fetch'
<1>1. NoFetch.at = "idle"
    BY DEF NoFetch
<1>2. ASSUME NEW q \in Fetch PROVE q # NoFetch
    <2>1. q.at \in {"sent", "read"}
        BY DEF Fetch
    <2>2. QED
        BY <1>1, <2>1
<1>3. QED
    BY <1>1, <1>2 DEF Fetch

(* A room is asked for: its GET takes a slot that was free. *)
LEMMA Asked ==
    ASSUME SeenTypeOK, NEW r \in Rooms, FetchMessages(r)
    PROVE  \E f \in Fetches :
              /\ fetch[f] = NoFetch /\ fetch'[f] = [at |-> "sent", room |-> r, page |-> {}]
              /\ \A h \in Fetches \ {f} : fetch'[h] = fetch[h]
              /\ fetch' = [h \in Fetches |-> fetch'[h]]
BY DEF FetchMessages, SeenTypeOK

LEMMA SeenTypeStep ==
    ASSUME SeenTypeOK, BadgeTypeOK', [SeenNext]_seenVars
    PROVE  SeenTypeOK'
<1> DEFINE Typed == /\ messages' \subseteq Ids' /\ seen' \subseteq Ids' /\ missed' \subseteq Ids'
                    /\ fetch' \in [Fetches -> Fetch' \cup {NoFetch}]
<1>1. Ids \subseteq Ids' /\ Fetch \subseteq Fetch'
    BY SeenStepIsBadgeStep, MessagesStay, Fetched DEF SeenTypeOK
<1>2. /\ messages \subseteq Ids /\ seen \subseteq Ids /\ missed \subseteq Ids
      /\ fetch \in [Fetches -> Fetch \cup {NoFetch}]
    BY DEF SeenTypeOK
<1>3. \A r : InRoom(r) \subseteq Ids /\ Unseen(r) \subseteq Ids /\ Page(r) \subseteq Ids
    BY DEF InRoom, Unseen, Page
<1>4. Range(feed) \subseteq Ids
    BY RangeOf DEF SeenTypeOK, BadgeTypeOK
<1>5. \A r \in Rooms : FetchMessages(r) => fetch' \in [Fetches -> Fetch' \cup {NoFetch}]
    BY <1>1, <1>2, Asked, Fetched
<1>6. Leaves => missed' \subseteq Ids
    BY <1>2, <1>3 DEF Leaves
<1>7. CASE UNCHANGED messageVars
    BY <1>1, <1>2, <1>7 DEF messageVars, SeenTypeOK
<1>8. ASSUME NEW r \in Rooms, EnterRoom(r) PROVE SeenTypeOK'
    <2>1. CASE FetchMessages(r) /\ Leaves /\ UNCHANGED messages
               /\ seen' = seen \cup (messages \cap InRoom(r))
        BY <1>1, <1>2, <1>5, <1>6, <2>1 DEF SeenTypeOK
    <2>2. QED
        BY <1>7, <1>8, <2>1 DEF EnterRoom
<1>9. CASE CloseRoom
    <2>1. CASE Leaves /\ UNCHANGED <<messages, fetch, seen>>
        BY <1>1, <1>2, <1>6, <2>1 DEF SeenTypeOK
    <2>2. QED
        BY <1>7, <1>9, <2>1 DEF CloseRoom
<1>10. ASSUME NEW m \in Ids, Push(m) PROVE SeenTypeOK'
    BY <1>1, <1>2, <1>10 DEF Push, SeenTypeOK
<1>11. CASE AddMessage
    <2>1. Head(feed) \in Ids
        BY <1>11, RangeOfTail DEF AddMessage, OnMessage, SeenTypeOK, BadgeTypeOK
    <2>2. QED
        BY <1>1, <1>2, <1>11, <2>1 DEF AddMessage, SeenTypeOK
<1>12. ASSUME NEW f \in Fetches, ReadMessages(f) PROVE SeenTypeOK'
    <2>1. fetch[f] \in Fetch
        BY <1>2, <1>12, Fetched DEF ReadMessages
    <2>2. [[fetch[f] EXCEPT !.at = "read"] EXCEPT !.page = Page(fetch[f].room)] \in Fetch
        BY <1>3, <2>1 DEF Fetch
    <2>3. fetch' = [fetch EXCEPT ![f] = [[fetch[f] EXCEPT !.at = "read"]
                                            EXCEPT !.page = Page(fetch[f].room)]]
        BY <1>2, <1>12, <2>1 DEF ReadMessages, Fetch
    <2>4. missed' \subseteq Ids
        BY <1>2, <1>3, <1>12 DEF ReadMessages
    <2>5. QED
        BY <1>1, <1>2, <1>12, <2>2, <2>3, <2>4 DEF ReadMessages, SeenTypeOK
<1>13. ASSUME NEW f \in Fetches, MessagesArrive(f) PROVE SeenTypeOK'
    <2>1. fetch[f] \in Fetch /\ fetch[f].page \subseteq Ids
        BY <1>2, <1>13, Fetched DEF MessagesArrive, Fetch
    <2>2. messages' \subseteq Ids /\ seen' \subseteq Ids /\ missed' \subseteq Ids
        BY <1>2, <1>3, <1>13, <2>1 DEF MessagesArrive
    <2>3. QED
        BY <1>1, <1>2, <1>13, <2>2 DEF MessagesArrive, SeenTypeOK
<1>14. ASSUME NEW f \in Fetches, FetchFails(f) PROVE SeenTypeOK'
    BY <1>1, <1>2, <1>3, <1>14 DEF FetchFails, SeenTypeOK
<1>15. CASE Disconnect
    BY <1>1, <1>2, <1>4, <1>15 DEF Disconnect, SeenTypeOK
<1>16. CASE Reconnect
    <2>1. active \in Rooms \cup {NoRoom}
        BY DEF SeenTypeOK, BadgeTypeOK
    <2>2. QED
        BY <1>1, <1>2, <1>5, <1>16, <2>1 DEF Reconnect, SeenTypeOK
<1>17. CASE Elsewhere \/ UNCHANGED seenVars
    BY <1>7, <1>17 DEF Elsewhere, seenVars
<1>18. QED
    BY <1>8, <1>9, <1>10, <1>11, <1>12, <1>13, <1>14, <1>15, <1>16, <1>17 DEF SeenNext

(* A socket that is not open has taken no frames, and when there is none,  *)
(* or a new one for an open room, it is a retry.                           *)
LinkRight ==
    /\ ~Open => wire = <<>>
    /\ ~blank /\ (link = "closed" \/ (link = "connecting" /\ active # NoRoom)) => retried

(* An answer holds messages of the room that was asked for. *)
PagesRight ==
    \A f \in Fetches : fetch[f] # NoFetch => fetch[f].page \subseteq InRoom(fetch[f].room)

(* Who passes unseen, with no payload to come, is missed, or comes by a    *)
(* GET.                                                                    *)
Due(m) == \/ m \in missed \/ Awaited(msg[m].room)
          \/ \E f \in Fetches : fetch[f] # NoFetch /\ m \in fetch[f].page

SeenOrDue == ~blank => \A m \in Ids : m \in Unseen(msg[m].room) => Due(m)

LEMMA LinkStep ==
    ASSUME BadgeTypeOK, LinkRight, [BadgeNext]_badgeVars
    PROVE  LinkRight'
<1>1. CASE UNCHANGED <<blank, linkVars, wire, active>>
    BY <1>1 DEF LinkRight, Open, linkVars
<1>2. CASE (\E r \in Rooms : Build(r)) \/ \E m \in Ids : Publish(m) \/ Commit(m) \/ CommitFails(m)
    BY <1>1, <1>2 DEF Build, Publish, Commit, CommitFails, pageVars
<1>3. CASE ReadUpdate \/ ReceiveMessage
    BY <1>3 DEF ReadUpdate, ReceiveMessage, Receives, LinkRight, Open, linkVars, pageVars
<1>4. CASE Moves /\ Breaks
    BY <1>4 DEF Moves, Breaks, LinkRight, Open
<1>5. ASSUME NEW r, Shows(r), link # "connecting", UNCHANGED <<blank, linkVars>>
      PROVE  LinkRight'
    BY <1>5 DEF Shows, LinkRight, Open, linkVars
<1>6. CASE Back \/ \E r \in Rooms : SelectRoom(r)
    BY <1>4, <1>5, <1>6 DEF Back, SelectRoom
<1>7. CASE SendMessage
    BY <1>7 DEF SendMessage, LinkRight, Open, linkVars
<1>8. CASE OnMessage \/ OnInvite
    BY <1>1, <1>8 DEF OnMessage, OnInvite, pageVars
<1>9. CASE \E g \in Gets : ReadList(g) \/ Arrive(g) \/ GetFails(g)
    BY <1>1, <1>9 DEF ReadList, Arrive, GetFails, pageVars
<1>10. CASE Accept \/ Register \/ Retry
    BY <1>10 DEF Accept, Register, Retry, LinkRight, Open, pageVars
<1>11. CASE Drop
    BY <1>11 DEF Drop, LinkRight, Open
<1>12. CASE UNCHANGED badgeVars
    BY <1>1, <1>12 DEF badgeVars, pageVars
<1>13. QED
    BY <1>2, <1>3, <1>6, <1>7, <1>8, <1>9, <1>10, <1>11, <1>12 DEF BadgeNext

LEMMA PagesStep ==
    ASSUME SeenTypeOK, PagesRight, [SeenNext]_seenVars
    PROVE  PagesRight'
<1>1. \A r : InRoom(r) \subseteq InRoom(r)'
    BY SeenStepIsBadgeStep, MessagesStay DEF SeenTypeOK, InRoom
<1>2. fetch \in [Fetches -> Fetch \cup {NoFetch}]
    BY DEF SeenTypeOK
<1>3. CASE UNCHANGED fetch
    BY <1>1, <1>3 DEF PagesRight
<1>4. ASSUME NEW r \in Rooms, FetchMessages(r) PROVE PagesRight'
    <2>1. PICK f \in Fetches : /\ fetch'[f] = [at |-> "sent", room |-> r, page |-> {}]
                               /\ \A h \in Fetches \ {f} : fetch'[h] = fetch[h]
        BY <1>4, Asked
    <2>2. fetch'[f].page = {}
        BY <2>1
    <2>3. QED
        BY <1>1, <2>1, <2>2 DEF PagesRight
<1>5. ASSUME NEW f \in Fetches, fetch' = [fetch EXCEPT ![f] = NoFetch] PROVE PagesRight'
    BY <1>1, <1>2, <1>5 DEF PagesRight
<1>6. ASSUME NEW f \in Fetches, ReadMessages(f) PROVE PagesRight'
    <2>1. fetch[f] \in Fetch
        BY <1>2, <1>6, Fetched DEF ReadMessages
    <2>2. /\ fetch'[f].page = Page(fetch[f].room) /\ fetch'[f].room = fetch[f].room
          /\ \A h \in Fetches \ {f} : fetch'[h] = fetch[h]
        BY <1>2, <1>6, <2>1 DEF ReadMessages, Fetch
    <2>3. Page(fetch[f].room) \subseteq InRoom(fetch[f].room)
        BY DEF Page
    <2>4. QED
        BY <1>1, <2>2, <2>3 DEF PagesRight
<1>7. CASE \E f \in Fetches : MessagesArrive(f) \/ FetchFails(f)
    BY <1>5, <1>7 DEF MessagesArrive, FetchFails
<1>8. CASE \E r \in Rooms : EnterRoom(r)
    BY <1>3, <1>4, <1>8 DEF EnterRoom, messageVars
<1>9. CASE Reconnect
    BY <1>3, <1>4, <1>9 DEF Reconnect, SeenTypeOK, BadgeTypeOK
<1>10. CASE CloseRoom \/ AddMessage \/ Disconnect \/ \E m \in Ids : Push(m)
    BY <1>3, <1>10 DEF CloseRoom, AddMessage, Disconnect, Push, messageVars
<1>11. CASE Elsewhere \/ UNCHANGED seenVars
    BY <1>3, <1>11 DEF Elsewhere, seenVars, messageVars
<1>12. QED
    BY <1>6, <1>7, <1>8, <1>9, <1>10, <1>11 DEF SeenNext
-----------------------------------------------------------------------------
(* What is due stays due while the room on the screen, the GETs and        *)
(* whether the socket is open stay as they are.                            *)
LEMMA DueStays ==
    ASSUME SeenTypeOK, SeenOrDue, BadgeTypeOK', blank => blank',
           Ids \subseteq Ids', \A m \in Ids : msg'[m].room = msg[m].room,
           UNCHANGED <<active, fetch>>, Open' => Open, missed \subseteq missed',
           \A m \in Ids' : m \in Unseen(msg[m].room)' =>
               m \in missed' \/ (m \in Ids /\ m \in Unseen(msg[m].room))
    PROVE  SeenOrDue'
<1>1. ASSUME NEW m \in Ids, Due(m) PROVE Due(m)'
    BY <1>1 DEF Due, Awaited
<1>2. QED
    BY <1>1 DEF SeenOrDue, Due

(* The steps that are no matter of the messages. *)
LEMMA ElsewhereStep ==
    ASSUME SeenTypeOK, SeenTypeOK', LinkRight, SeenOrDue,
           Elsewhere \/ UNCHANGED seenVars
    PROVE  SeenOrDue'
<1>1. /\ Ids \subseteq Ids' /\ \A m \in Ids : msg'[m].room = msg[m].room
      /\ BadgeTypeOK /\ BadgeTypeOK' /\ Range(feed) \subseteq Ids
    <2>1. [SeenNext]_seenVars
        BY DEF SeenNext
    <2>2. QED
        BY <2>1, SeenStepIsBadgeStep, MessagesStay, RangeOf DEF SeenTypeOK, BadgeTypeOK
<1>2. UNCHANGED <<messages, fetch, seen, missed>>
    BY DEF Elsewhere, seenVars, messageVars
<1>3. ASSUME UNCHANGED <<blank, active, feed>>, Open' => Open,
             \A m \in Ids' : /\ msg'[m].at \in {"published", "committed"}
                             /\ Passed(m)' /\ m \notin Range(feed)
                             => m \in Ids /\ Passed(m) /\ msg[m].at \in {"published", "committed"}
      PROVE  SeenOrDue'
    BY <1>1, <1>2, <1>3, DueStays DEF Unseen, InRoom
<1>4. ASSUME UNCHANGED <<blank, active, feed, msg, read>>, Open' => Open,
             ReadFrames(wire') = ReadFrames(wire)
      PROVE  SeenOrDue'
    BY <1>3, <1>4 DEF Passed, Ids
<1>5. ASSUME NEW x \in Message, x.at = "built", Len(msg) < MaxMsgs, msg' = Append(msg, x),
             UNCHANGED <<blank, active, feed, read, link>>,
             ReadFrames(wire') = ReadFrames(wire)
      PROVE  SeenOrDue'
    <2>1. PICK n \in Ids' : n \notin Ids /\ Ids' = Ids \cup {n} /\ msg'[n] = x
        BY <1>1, <1>5, Appended
    <2>2. \A m \in Ids : msg'[m] = msg[m]
        BY <1>1, <1>5, Appended
    <2>3. QED
        BY <1>3, <1>5, <2>1, <2>2 DEF Passed, Open
<1>6. ASSUME NEW r \in Rooms, Build(r) PROVE SeenOrDue'
    <2>1. [room |-> r, from |-> Other, at |-> "built"] \in Message
        BY DEF Message
    <2>2. QED
        BY <1>5, <1>6, <2>1 DEF Build, pageVars, linkVars
<1>7. CASE ReceiveMessage
    <2>1. /\ wire \in Seq(Frame) /\ wire # <<>> /\ wire' = Tail(wire)
          /\ Head(wire).type = "message.send"
        BY <1>1, <1>7 DEF ReceiveMessage, Receives, BadgeTypeOK
    <2>2. Head(wire) \in Frame /\ Head(wire).type # "read.update"
        BY <2>1, RangeOfTail
    <2>3. ReadFrames(wire') = ReadFrames(wire)
        BY <2>1, <2>2, ReadFramesOf
    <2>4. [room |-> Head(wire).room, from |-> Me, at |-> "built"] \in Message
        BY <2>2 DEF Message, Frame
    <2>5. QED
        BY <1>5, <1>7, <2>3, <2>4 DEF ReceiveMessage, pageVars, linkVars
<1>8. ASSUME NEW m \in Ids, Commit(m) \/ CommitFails(m) PROVE SeenOrDue'
    <2>1. PICK a \in {"committed", "failed"} :
              /\ Ids' = Ids /\ msg[m].at = "published"
              /\ \A k \in Ids : /\ msg'[k].room = msg[k].room
                                /\ msg'[k].at = IF k = m THEN a ELSE msg[k].at
        BY <1>1, <1>8, Advanced DEF Commit, CommitFails
    <2>2. UNCHANGED <<blank, active, feed, read, link, wire>>
        BY <1>8 DEF Commit, CommitFails, pageVars, linkVars
    <2>3. \A k \in Ids : Passed(k)' <=> Passed(k)
        BY <2>1, <2>2 DEF Passed
    <2>4. QED
        BY <1>3, <2>1, <2>2, <2>3 DEF Open
<1>9. CASE ReadUpdate
    <2>1. PICK x :
            /\ read' = read \cup {m \in Ids : msg[m].room = x}
            /\ ReadFrames(wire) = ReadFrames(wire') \cup {x}
        BY <1>1, <1>9, ReadFramesOf DEF ReadUpdate, Receives, BadgeTypeOK
    <2>2. UNCHANGED <<msg, blank, active, feed, link>>
        BY <1>9 DEF ReadUpdate, pageVars, linkVars
    <2>3. Ids' = Ids /\ \A m \in Ids : Passed(m)' <=> Passed(m)
        BY <2>1, <2>2 DEF Passed, Ids
    <2>4. QED
        BY <1>3, <2>2, <2>3 DEF Open
<1>10. CASE SendMessage
    <2>1. PICK f \in Frame : f.type # "read.update" /\ wire' = Append(wire, f)
        <3>1. [type |-> "message.send", room |-> active] \in Frame
            BY <1>1, <1>10 DEF SendMessage, BadgeTypeOK, Frame
        <3>2. QED
            BY <1>10, <3>1 DEF SendMessage
    <2>2. wire \in Seq(Frame)
        BY <1>1 DEF BadgeTypeOK
    <2>3. ReadFrames(wire') = ReadFrames(wire) \cup {}
        BY <2>1, <2>2, ReadFramesOf
    <2>4. QED
        BY <1>4, <1>10, <2>3 DEF SendMessage, rowVars, pageVars, linkVars, Open
<1>11. CASE OnInvite \/ \E g \in Gets : ReadList(g) \/ Arrive(g) \/ GetFails(g)
    BY <1>4, <1>11 DEF OnInvite, ReadList, Arrive, GetFails, rowVars, pageVars, linkVars, Open
<1>12. CASE Register \/ Retry
    BY <1>4, <1>12 DEF Register, Retry, rowVars, pageVars, Open
<1>13. CASE UNCHANGED seenVars
    BY <1>4, <1>13 DEF seenVars, badgeVars, rowVars, pageVars, linkVars, Open
<1>14. QED
    BY <1>6, <1>7, <1>8, <1>9, <1>10, <1>11, <1>12, <1>13 DEF Elsewhere

(* Another room, or none, comes on the screen: with the connection up the  *)
(* room that goes has said its read.update before; with no connection it   *)
(* is not asked for any more.                                              *)
LEMMA LeaveStep ==
    ASSUME SeenTypeOK, LinkRight, SeenOrDue, ~blank, link # "connecting", Leaves,
           NEW r \in Rooms \cup {NoRoom}, r # active, Shows(r),
           UNCHANGED <<rowVars, blank, link, feed>>, seen \subseteq seen',
           \A f \in Fetches : fetch[f] # NoFetch => fetch'[f] = fetch[f],
           r # NoRoom => \E f \in Fetches : fetch'[f].at = "sent" /\ fetch'[f].room = r,
           NoFetch.at = "idle"
    PROVE  SeenOrDue'
<1>1. ReadFrames(wire') = ReadFrames(wire) \cup Said(r) /\ active' = r
    BY ShowsSays DEF SeenTypeOK
<1>2. UNCHANGED <<msg, read, blank, link, feed, Ids>> /\ missed \subseteq missed'
    BY DEF rowVars, Leaves, Ids
<1>3. \A m \in Ids : msg[m].room \in Rooms
    BY MessageRooms DEF SeenTypeOK
<1>4. NoRoom \notin Rooms /\ active \in Rooms \cup {NoRoom}
    BY UnreadAssumption DEF SeenTypeOK, BadgeTypeOK
<1>5. ASSUME NEW m \in Ids, m \in Unseen(msg[m].room)' PROVE Due(m)'
    <2>1. CASE msg[m].room = r
        BY <1>3, <1>4, <2>1, <1>2 DEF Due, Awaited
    <2>2. CASE msg[m].room # r
        <3>1. Passed(m)' /\ m \notin seen \cup Range(feed)
              /\ msg[m].at \in {"published", "committed"}
            BY <1>2, <1>5 DEF Unseen, InRoom
        <3>2. Passed(m)
            BY <1>1, <1>2, <1>3, <1>4, <2>2, <3>1 DEF Passed, Said
        <3>3. m \in Unseen(msg[m].room)
            BY <3>1, <3>2 DEF Unseen, InRoom
        <3>4. CASE msg[m].room = active /\ ~Open
            <4>1. wire = <<>> /\ wire' = <<>>
                BY <3>4 DEF LinkRight, Shows
            <4>2. m \in read
                BY <1>1, <1>2, <2>2, <3>1, <4>1, ReadFramesOf DEF Passed
            <4>3. m \in missed'
                BY <3>3, <3>4, <4>2 DEF Leaves
            <4>4. QED
                BY <4>3 DEF Due
        <3>5. CASE ~(msg[m].room = active /\ ~Open)
            <4>1. \/ m \in missed
                  \/ \E f \in Fetches : fetch[f].at = "sent" /\ fetch[f].room = msg[m].room
                  \/ \E f \in Fetches : fetch[f] # NoFetch /\ m \in fetch[f].page
                BY <3>3, <3>5 DEF SeenOrDue, Due, Awaited
            <4>2. CASE m \in missed
                BY <1>2, <4>2 DEF Due
            <4>3. ASSUME NEW f \in Fetches, fetch[f].at = "sent", fetch[f].room = msg[m].room
                  PROVE  Due(m)'
                BY <1>2, <4>3 DEF Due, Awaited
            <4>4. ASSUME NEW f \in Fetches, fetch[f] # NoFetch, m \in fetch[f].page
                  PROVE  Due(m)'
                BY <4>4 DEF Due
            <4>5. QED
                BY <4>1, <4>2, <4>3, <4>4
        <3>6. QED
            BY <3>4, <3>5
    <2>3. QED
        BY <2>1, <2>2
<1>6. QED
    BY <1>2, <1>5 DEF SeenOrDue

LEMMA RoomStep ==
    ASSUME SeenTypeOK, LinkRight, SeenOrDue, CloseRoom \/ \E r \in Rooms : EnterRoom(r)
    PROVE  SeenOrDue'
<1>1. CASE blank'
    BY <1>1 DEF SeenOrDue
<1>2. ASSUME NEW r \in Rooms, EnterRoom(r), ~blank' PROVE SeenOrDue'
    <2>1. /\ ~blank /\ r # active /\ link # "connecting" /\ Shows(r)
          /\ UNCHANGED <<rowVars, blank, link, feed>>
        BY <1>2 DEF EnterRoom, SelectRoom, Moves, Breaks, linkVars
    <2>2. FetchMessages(r) /\ Leaves /\ seen \subseteq seen'
        BY <1>2 DEF EnterRoom
    <2>3. PICK f \in Fetches :
            /\ fetch[f] = NoFetch /\ fetch'[f] = [at |-> "sent", room |-> r, page |-> {}]
            /\ \A h \in Fetches \ {f} : fetch'[h] = fetch[h]
        BY <2>2, Asked
    <2>4. fetch'[f].at = "sent" /\ fetch'[f].room = r
        BY <2>3
    <2>5. \A h \in Fetches : fetch[h] # NoFetch => fetch'[h] = fetch[h]
        BY <2>3
    <2>6. QED
        BY <2>1, <2>2, <2>4, <2>5, LeaveStep, Fetched
<1>3. CASE CloseRoom /\ ~blank'
    <2>1. /\ ~blank /\ NoRoom # active /\ link # "connecting" /\ Shows(NoRoom)
          /\ UNCHANGED <<rowVars, blank, link, feed>>
        BY <1>3 DEF CloseRoom, Back, Moves, Breaks, linkVars
    <2>2. Leaves /\ UNCHANGED <<fetch, seen>>
        BY <1>3 DEF CloseRoom
    <2>3. QED
        BY <2>1, <2>2, LeaveStep, Fetched
<1>4. QED
    BY <1>1, <1>2, <1>3

(* A payload finds a socket, or a GET will, or it is missed. *)
LEMMA PushStep ==
    ASSUME SeenTypeOK, SeenTypeOK', SeenOrDue, NEW m \in Ids, Push(m)
    PROVE  SeenOrDue'
<1>1. /\ Ids' = Ids
      /\ \A k \in Ids : /\ msg'[k].room = msg[k].room
                        /\ msg'[k].at = IF k = m THEN "published" ELSE msg[k].at
    BY Advanced DEF Push, Publish, SeenTypeOK
<1>2. UNCHANGED <<read, active, blank, link, wire, seen, fetch>> /\ missed \subseteq missed'
    BY DEF Push, Publish, pageVars, linkVars
<1>3. Range(feed) \subseteq Range(feed') /\ (link = "up" => m \in Range(feed'))
    <2>1. feed \in Seq(Ids)
        BY DEF SeenTypeOK, BadgeTypeOK
    <2>2. feed' = IF link = "up" THEN Append(feed, m) ELSE feed
        BY DEF Push, Publish
    <2>3. QED
        BY <2>1, <2>2, RangeOf
<1>4. \A k \in Ids : Passed(k)' <=> Passed(k)
    BY <1>1, <1>2 DEF Passed
<1>5. \A r : Awaited(r)' <=> Awaited(r)
    BY <1>2 DEF Awaited, Open
<1>6. ASSUME NEW k \in Ids, k # m, k \in Unseen(msg[k].room)' PROVE k \in Unseen(msg[k].room)
    BY <1>1, <1>2, <1>3, <1>4, <1>6 DEF Unseen, InRoom
<1>7. ASSUME ~blank, m \in Unseen(msg[m].room)' PROVE m \in missed' \/ Awaited(msg[m].room)
    <2>1. Passed(m) /\ link # "up"
        BY <1>1, <1>3, <1>4, <1>7 DEF Unseen, InRoom
    <2>2. QED
        BY <2>1 DEF Push
<1>8. QED
    BY <1>1, <1>2, <1>5, <1>6, <1>7 DEF SeenOrDue, Due

(* What the tab takes from the feed is on the screen, or missed. *)
LEMMA AddStep ==
    ASSUME SeenTypeOK, SeenTypeOK', SeenOrDue, AddMessage
    PROVE  SeenOrDue'
<1> DEFINE m == Head(feed)
<1>1. m \in Ids /\ Range(feed) = Range(feed') \cup {m}
    BY RangeOfTail DEF AddMessage, OnMessage, SeenTypeOK, BadgeTypeOK
<1>2. /\ UNCHANGED <<msg, read, active, blank, link, wire, fetch, Ids>>
      /\ seen \subseteq seen' /\ missed \subseteq missed'
      /\ Passed(m) => m \in seen' \cup missed'
    BY DEF AddMessage, OnMessage, rowVars, linkVars, Ids
<1> HIDE DEF m
<1>3. \A k \in Ids : Passed(k)' <=> Passed(k)
    BY <1>2 DEF Passed
<1>4. ASSUME NEW k \in Ids, k \in Unseen(msg[k].room)'
      PROVE  k \in missed' \/ k \in Unseen(msg[k].room)
    BY <1>1, <1>2, <1>3, <1>4 DEF Unseen, InRoom
<1>5. QED
    BY <1>2, <1>4, DueStays DEF SeenTypeOK, Open

(* The database is read: the page has the message, or it is missed. *)
LEMMA ReadStep ==
    ASSUME SeenTypeOK, PagesRight, SeenOrDue, NEW f \in Fetches, ReadMessages(f)
    PROVE  SeenOrDue'
<1> DEFINE r == fetch[f].room
<1>1. fetch[f] \in Fetch /\ fetch \in [Fetches -> Fetch \cup {NoFetch}]
    BY Fetched DEF ReadMessages, SeenTypeOK
<1>2. /\ fetch'[f].page = Page(r) /\ fetch'[f].at = "read"
      /\ \A h \in Fetches \ {f} : fetch'[h] = fetch[h]
      /\ missed' = missed \cup (Unseen(r) \ Page(r))
      /\ UNCHANGED <<msg, read, active, blank, link, wire, feed, seen, Ids>>
    BY <1>1 DEF ReadMessages, Fetch, badgeVars, rowVars, pageVars, linkVars, Ids
<1>3. fetch'[f] # NoFetch
    BY <1>2, Fetched
<1>4. \A x : Unseen(x)' = Unseen(x)
    BY <1>2 DEF Unseen, InRoom, Passed
<1>5. ASSUME NEW k \in Ids, k \in Unseen(msg[k].room), Due(k) PROVE Due(k)'
    <2>1. CASE msg[k].room = r
        BY <1>2, <1>3, <1>5, <2>1 DEF Due
    <2>2. CASE msg[k].room # r
        <3>1. k \notin fetch[f].page
            BY <1>1, <2>2, Fetched DEF PagesRight, InRoom
        <3>2. Awaited(msg[k].room) => Awaited(msg[k].room)'
            BY <1>2, <2>2 DEF Awaited, Open
        <3>3. QED
            BY <1>2, <1>5, <3>1, <3>2 DEF Due
    <2>3. QED
        BY <2>1, <2>2
<1>6. QED
    BY <1>2, <1>4, <1>5 DEF SeenOrDue

(* A GET ends: what it would have brought is on the screen, or missed. *)
LEMMA FetchedStep ==
    ASSUME SeenTypeOK, PagesRight, SeenOrDue, NEW f \in Fetches,
           MessagesArrive(f) \/ FetchFails(f)
    PROVE  SeenOrDue'
<1> DEFINE r == fetch[f].room
<1>1. fetch[f] \in Fetch /\ fetch \in [Fetches -> Fetch \cup {NoFetch}]
    BY Fetched DEF MessagesArrive, FetchFails, SeenTypeOK
<1>2. /\ \A h \in Fetches \ {f} : fetch'[h] = fetch[h]
      /\ seen \subseteq seen' /\ missed \subseteq missed'
      /\ UNCHANGED <<msg, read, active, blank, link, wire, feed, Ids>>
    BY <1>1 DEF MessagesArrive, FetchFails, badgeVars, rowVars, pageVars, linkVars, Ids
<1>3. ASSUME NEW k \in Unseen(r), fetch[f].at = "sent" \/ k \in fetch[f].page
      PROVE  k \in seen' \cup missed'
    BY <1>3 DEF MessagesArrive, FetchFails
<1>4. \A x : Unseen(x)' \subseteq Unseen(x)
    BY <1>2 DEF Unseen, InRoom, Passed
<1>5. ASSUME NEW k \in Ids, k \in Unseen(msg[k].room)', Due(k) PROVE Due(k)'
    <2>1. k \in Unseen(msg[k].room) /\ k \notin seen'
        BY <1>2, <1>4, <1>5 DEF Unseen
    <2>2. CASE k \in missed
        BY <1>2, <2>2 DEF Due
    <2>3. CASE fetch[f].at = "sent" /\ r = msg[k].room
        BY <1>3, <2>1, <2>3 DEF Due
    <2>4. CASE k \in fetch[f].page
        <3>1. r = msg[k].room
            BY <1>1, <2>4, Fetched DEF PagesRight, InRoom
        <3>2. QED
            BY <1>3, <2>1, <2>4, <3>1 DEF Due
    <2>5. CASE /\ k \notin missed /\ k \notin fetch[f].page
               /\ ~(fetch[f].at = "sent" /\ r = msg[k].room)
        BY <1>2, <1>5, <2>5 DEF Due, Awaited, Open
    <2>6. QED
        BY <2>2, <2>3, <2>4, <2>5
<1>6. QED
    BY <1>2, <1>4, <1>5 DEF SeenOrDue

(* The connection is lost: what was for the room on the screen will be     *)
(* asked for.                                                              *)
LEMMA DisconnectStep ==
    ASSUME SeenTypeOK, SeenOrDue, Disconnect
    PROVE  SeenOrDue'
<1>1. /\ UNCHANGED <<msg, read, active, blank, seen, fetch, Ids>> /\ ~Open'
      /\ ReadFrames(wire') = {} /\ ~blank
      /\ missed' = missed \cup {m \in Range(feed) \cap read : msg[m].room # active}
    BY ReadFramesOf DEF Disconnect, Drop, rowVars, pageVars, Ids, Open
<1>2. ASSUME NEW k \in Ids, k \in Unseen(msg[k].room)' PROVE Due(k)'
    <2>1. CASE msg[k].room = active
        BY <1>1, <2>1 DEF Due, Awaited
    <2>2. CASE msg[k].room # active
        <3>1. k \in read /\ k \notin seen /\ msg[k].at \in {"published", "committed"}
            BY <1>1, <1>2, <2>2 DEF Unseen, InRoom, Passed
        <3>2. CASE k \in Range(feed)
            BY <1>1, <2>2, <3>1, <3>2 DEF Due
        <3>3. CASE k \notin Range(feed)
            <4>1. Due(k)
                BY <1>1, <3>1, <3>3 DEF SeenOrDue, Unseen, InRoom, Passed
            <4>2. QED
                BY <1>1, <2>2, <4>1 DEF Due, Awaited
        <3>4. QED
            BY <3>2, <3>3
    <2>3. QED
        BY <2>1, <2>2
<1>3. QED
    BY <1>1, <1>2 DEF SeenOrDue

(* The socket opens again: the room on the screen is asked for. *)
LEMMA ReconnectStep ==
    ASSUME SeenTypeOK, LinkRight, SeenOrDue, Reconnect
    PROVE  SeenOrDue'
<1>1. /\ UNCHANGED <<msg, read, active, blank, wire, feed, seen, missed, Ids>>
      /\ ~blank /\ link = "connecting"
    BY DEF Reconnect, Accept, rowVars, pageVars, Ids
<1>2. /\ \A h \in Fetches : fetch[h] # NoFetch => fetch'[h] = fetch[h]
      /\ active # NoRoom =>
            \E f \in Fetches : fetch'[f].at = "sent" /\ fetch'[f].room = active
    <2>1. CASE active = NoRoom
        BY <2>1 DEF Reconnect
    <2>2. CASE active # NoRoom
        <3>1. active \in Rooms /\ FetchMessages(active)
            BY <1>1, <2>2 DEF Reconnect, LinkRight, SeenTypeOK, BadgeTypeOK
        <3>2. PICK f \in Fetches :
                /\ fetch[f] = NoFetch
                /\ fetch'[f] = [at |-> "sent", room |-> active, page |-> {}]
                /\ \A h \in Fetches \ {f} : fetch'[h] = fetch[h]
            BY <3>1, Asked
        <3>3. fetch'[f].at = "sent" /\ fetch'[f].room = active
            BY <3>2
        <3>4. QED
            BY <3>2, <3>3
    <2>3. QED
        BY <2>1, <2>2
<1>3. \A x : Unseen(x)' = Unseen(x)
    BY <1>1 DEF Unseen, InRoom, Passed
<1>4. \A m \in Ids : msg[m].room # NoRoom
    BY MessageRooms, UnreadAssumption DEF SeenTypeOK
<1>5. ASSUME NEW k \in Ids, Due(k) PROVE Due(k)'
    <2>1. Awaited(msg[k].room) => Awaited(msg[k].room)'
        BY <1>1, <1>2, <1>4, Fetched DEF Awaited
    <2>2. QED
        BY <1>1, <1>2, <1>5, <2>1 DEF Due
<1>6. QED
    BY <1>1, <1>3, <1>5 DEF SeenOrDue
-----------------------------------------------------------------------------
(* What the tab has shown, and will be brought, is right of what counts as *)
(* read.                                                                   *)
SeenInv == SeenTypeOK /\ LinkRight /\ PagesRight /\ SeenOrDue

LEMMA SeenStart == SeenInit => SeenInv
<1>1. ASSUME SeenInit PROVE SeenInv
    <2>1. BadgeTypeOK /\ Ids = {} /\ wire = <<>> /\ link = "connecting" /\ active = NoRoom
        BY <1>1, BadgeInitTyped DEF SeenInit, BadgeInit, Ids
    <2>2. SeenTypeOK /\ PagesRight
        BY <1>1, <2>1 DEF SeenInit, SeenTypeOK, PagesRight
    <2>3. LinkRight /\ SeenOrDue
        BY <2>1 DEF LinkRight, SeenOrDue
    <2>4. QED
        BY <2>2, <2>3 DEF SeenInv
<1>2. QED
    BY <1>1

LEMMA SeenStep ==
    ASSUME SeenInv, [SeenNext]_seenVars
    PROVE  SeenInv'
<1>1. SeenTypeOK /\ LinkRight /\ PagesRight /\ SeenOrDue /\ BadgeTypeOK
    BY DEF SeenInv, SeenTypeOK
<1>2. [BadgeNext]_badgeVars
    BY SeenStepIsBadgeStep
<1>3. SeenTypeOK' /\ LinkRight' /\ PagesRight'
    BY <1>1, <1>2, BadgeTypeStep, SeenTypeStep, LinkStep, PagesStep
<1>4. SeenOrDue'
    <2>1. CASE CloseRoom \/ \E r \in Rooms : EnterRoom(r)
        BY <1>1, <2>1, RoomStep
    <2>2. CASE \E m \in Ids : Push(m)
        BY <1>1, <1>3, <2>2, PushStep
    <2>3. CASE AddMessage
        BY <1>1, <1>3, <2>3, AddStep
    <2>4. CASE \E f \in Fetches : ReadMessages(f) \/ MessagesArrive(f) \/ FetchFails(f)
        BY <1>1, <2>4, ReadStep, FetchedStep
    <2>5. CASE Disconnect \/ Reconnect
        BY <1>1, <2>5, DisconnectStep, ReconnectStep
    <2>6. CASE Elsewhere \/ UNCHANGED seenVars
        BY <1>1, <1>3, <2>6, ElsewhereStep
    <2>7. QED
        BY <2>1, <2>2, <2>3, <2>4, <2>5, <2>6 DEF SeenNext
<1>5. QED
    BY <1>3, <1>4 DEF SeenInv

(* When all is quiet, a message of somebody else that counts as read was   *)
(* on the screen, but where missed says why not: its GET failed, came      *)
(* late or stopped before it, or it was left behind on the way.            *)
THEOREM ReadMeansSeen == SeenSpec => []ReadWasSeen
<1>1. SeenInv => ReadWasSeen
    <2>1. ASSUME SeenInv, Quiet, \A f \in Fetches : fetch[f] = NoFetch,
                 NEW m \in FromOther(read), msg[m].at = "committed"
          PROVE  m \in seen \cup missed
        <3>1. m \in Ids /\ m \in read /\ ~blank /\ Open
            BY <2>1 DEF SeenInv, SeenTypeOK, BadgeTypeOK, FromOther, Quiet, Open
        <3>2. m \notin Range(feed)
            BY <2>1, <3>1 DEF Quiet, UnderWay
        <3>3. ~Awaited(msg[m].room)
            BY <2>1, <3>1, Fetched DEF Awaited
        <3>4. m \in Unseen(msg[m].room) => m \in missed
            BY <2>1, <3>1, <3>3 DEF SeenInv, SeenOrDue, Due
        <3>5. QED
            BY <2>1, <3>1, <3>2, <3>4 DEF Unseen, InRoom, Passed
    <2>2. QED
        BY <2>1 DEF ReadWasSeen
<1>2. QED
    BY <1>1, SeenStart, SeenStep, PTL DEF SeenSpec
=============================================================================
