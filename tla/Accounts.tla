---- MODULE Accounts ----
(***************************************************************************)
(* Accounts and sessions: the handlers of cmd/accounts/main.go over        *)
(* internal/accounts/model.go, and the storefront's part of them, which    *)
(* turns tokens into a cookie (cmd/storefront/auth.go).                    *)
(*                                                                         *)
(* A call is one request of a browser through both services.  Its token,   *)
(* 32 random bytes, is named after the call that mints it.  An address is  *)
(* the id of its user, and a user document is its password here: bcrypt    *)
(* compares true exactly on the password that was hashed.                  *)
(***************************************************************************)
EXTENDS Naturals

CONSTANTS
    Browsers,
    Emails,      \* addresses as normalizeEmail leaves them
    Passwords,
    Calls,       \* requests, and the tokens they may mint
    NoUser,      \* the document of an address without an account
    NoSession,   \* the document of an unknown token, and the empty cookie
    StaleReads,  \* the tables are DynamoDB, read without ConsistentRead
    StoreFails   \* a store call may fail, or happen and lose its answer

Kinds == {"signup", "login", "verify", "logout"}
Request == [kind : Kinds \cup {"none"}, browser : Browsers, email : Emails \cup {NoSession},
            password : Passwords \cup {NoUser}, token : Calls \cup {NoSession}]

ASSUME AccountsConstants ==
    /\ NoUser \notin Passwords
    /\ NoSession \notin Emails \cup Calls
    /\ StaleReads \in BOOLEAN
    /\ StoreFails \in BOOLEAN

VARIABLES
    users,      \* the users table: per address, its password
    oldUsers,   \* earlier versions of each user document
    sessions,   \* the sessions table: per token, its user
    oldSessions,
    lapsed,     \* tokens whose ExpiresAt has passed
    cookie,     \* per browser, the token in its cookie
    stage,      \* per call, where its handler is
    request,    \* per call, what it asks; a verification adds the user it found
    answer,     \* per call, the status accounts answers with (200 for its 204),
                \* and once the call is done, what the browser was told
    late        \* history: calls received after what they ask for was gone

tables == <<users, oldUsers, sessions, oldSessions>>
vars   == <<users, oldUsers, sessions, oldSessions, lapsed, cookie, stage,
            request, answer, late>>

Stages == {"idle", "checkUser", "saveUser", "newSession", "readSession", "readOwner",
           "delete", "answered", "done"}
Answers == {"none", "200", "400", "401", "409", "502"}

UserVersions(e) == {users[e]} \cup oldUsers[e]
SessionVersions(t) == {sessions[t]} \cup oldSessions[t]

\* What a read of a table may return.
ReadableUser(e) == IF StaleReads THEN UserVersions(e) ELSE {users[e]}
ReadableSession(t) == IF StaleReads THEN SessionVersions(t) ELSE {sessions[t]}

Goto(h, s) == stage' = [stage EXCEPT ![h] = s] /\ UNCHANGED answer
Answer(h, code) ==
    /\ stage' = [stage EXCEPT ![h] = "answered"]
    /\ answer' = [answer EXCEPT ![h] = code]

Kind(h) == request[h].kind
Email(h) == request[h].email
Token(h) == request[h].token

-----------------------------------------------------------------------------

TypeOK ==
    /\ users \in [Emails -> Passwords \cup {NoUser}]
    /\ oldUsers \in [Emails -> SUBSET (Passwords \cup {NoUser})]
    /\ sessions \in [Calls -> Emails \cup {NoSession}]
    /\ oldSessions \in [Calls -> SUBSET (Emails \cup {NoSession})]
    /\ lapsed \subseteq Calls
    /\ cookie \in [Browsers -> Calls \cup {NoSession}]
    /\ stage \in [Calls -> Stages]
    /\ request \in [Calls -> Request]
    /\ answer \in [Calls -> Answers]
    /\ late \subseteq Calls

Blank(b) == [kind |-> "none", browser |-> b, email |-> NoSession,
             password |-> NoUser, token |-> NoSession]

Init ==
    /\ users = [e \in Emails |-> NoUser]
    /\ oldUsers = [e \in Emails |-> {}]
    /\ sessions = [t \in Calls |-> NoSession]
    /\ oldSessions = [t \in Calls |-> {}]
    /\ lapsed = {}
    /\ cookie = [b \in Browsers |-> NoSession]
    /\ stage = [h \in Calls |-> "idle"]
    /\ request \in [Calls -> {Blank(b) : b \in Browsers}]
    /\ answer = [h \in Calls |-> "none"]
    /\ late = {}

-----------------------------------------------------------------------------
(* Requests.  A sign-up or a login brings an address and a password; a     *)
(* verification or a logout brings the browser's cookie.                   *)

FirstStage(kind) ==
    CASE kind \in {"signup", "login"} -> "checkUser"
      [] kind = "verify" -> "readSession"
      [] kind = "logout" -> "delete"

\* A token has ended once it has expired or a logout with it was answered.
Ended(t) == t \in lapsed \/ \E g \in Calls :
    Kind(g) = "logout" /\ Token(g) = t /\ answer[g] = "200"

TooLate(r) ==
    \/ r.kind = "signup" /\ users[r.email] # NoUser
    \/ r.kind = "verify" /\ Ended(r.token)

Receive(h, r) ==
    /\ stage[h] = "idle"
    /\ request' = [request EXCEPT ![h] = r]
    /\ late' = IF TooLate(r) THEN late \cup {h} ELSE late
    /\ Goto(h, FirstStage(r.kind))
    /\ UNCHANGED <<tables, lapsed, cookie>>

\* The browser sends an address and a password, or its cookie.
EnterPassword(h) ==
    \E k \in {"signup", "login"}, e \in Emails, p \in Passwords :
        Receive(h, [request[h] EXCEPT !.kind = k, !.email = e, !.password = p])

PresentCookie(h) ==
    \E k \in {"verify", "logout"}, t \in {cookie[request[h].browser]} \ {NoSession} :
        Receive(h, [request[h] EXCEPT !.kind = k, !.token = t])

\* Undecodable JSON, an address without @, a password that is too short.
Refuse(h) ==
    /\ stage[h] = "checkUser"
    /\ Answer(h, "400")
    /\ UNCHANGED <<tables, lapsed, cookie, request, late>>

-----------------------------------------------------------------------------
(* The store operations.                                                   *)

\* Slips: the address is not checked, or the password is not.
CheckUserLax(h) ==
    /\ stage[h] = "checkUser"
    /\ \E u \in ReadableUser(Email(h)) :
         \/ Kind(h) = "signup" /\ Goto(h, "saveUser")
         \/ Kind(h) = "login" /\ u = NoUser /\ Answer(h, "401")
         \/ Kind(h) = "login" /\ u # NoUser /\ Goto(h, "newSession")
    /\ UNCHANGED <<tables, lapsed, cookie, request, late>>

\* Signup wants no user; Login wants one, with the password.
CheckUser(h) ==
    /\ stage[h] = "checkUser"
    /\ \E u \in ReadableUser(Email(h)) :
         \/ Kind(h) = "signup" /\ u = NoUser /\ Goto(h, "saveUser")
         \/ Kind(h) = "signup" /\ u # NoUser /\ Answer(h, "409")
         \/ Kind(h) = "login" /\ u = request[h].password /\ Goto(h, "newSession")
         \/ Kind(h) = "login" /\ u # request[h].password /\ Answer(h, "401")
    /\ UNCHANGED <<tables, lapsed, cookie, request, late>>

PutUser(h) ==
    /\ users' = [users EXCEPT ![Email(h)] = request[h].password]
    /\ oldUsers' = [oldUsers EXCEPT ![Email(h)] = @ \cup {users[Email(h)]}]
    /\ UNCHANGED <<sessions, oldSessions>>

PutSession(t, user) ==
    /\ sessions' = [sessions EXCEPT ![t] = user]
    /\ oldSessions' = [oldSessions EXCEPT ![t] = @ \cup {sessions[t]}]
    /\ UNCHANGED <<users, oldUsers>>

SaveUser(h) ==
    /\ stage[h] = "saveUser"
    /\ PutUser(h)
    /\ Goto(h, "newSession")
    /\ UNCHANGED <<lapsed, cookie, request, late>>

\* Slip: token and user are swapped.
NewSessionSwapped(h) ==
    /\ stage[h] = "newSession"
    /\ PutSession(h, h)
    /\ Answer(h, "200")
    /\ UNCHANGED <<lapsed, cookie, request, late>>

\* The session of the user, under a fresh token.
NewSession(h) ==
    /\ stage[h] = "newSession"
    /\ PutSession(h, Email(h))
    /\ Answer(h, "200")
    /\ UNCHANGED <<lapsed, cookie, request, late>>

ReadSession(h) ==
    /\ stage[h] = "readSession"
    /\ \E s \in ReadableSession(Token(h)) :
         IF s = NoSession \/ Token(h) \in lapsed
           THEN Answer(h, "401") /\ UNCHANGED request
           ELSE /\ request' = [request EXCEPT ![h].email = s]
                /\ Goto(h, "readOwner")
    /\ UNCHANGED <<tables, lapsed, cookie, late>>

\* Slip: the session is written back, say to extend it, though it may be gone.
ReadOwnerSlides(h) ==
    /\ stage[h] = "readOwner"
    /\ PutSession(Token(h), Email(h))
    /\ Answer(h, "200")
    /\ UNCHANGED <<lapsed, cookie, request, late>>

ReadOwner(h) ==
    /\ stage[h] = "readOwner"
    /\ \E u \in ReadableUser(Email(h)) :
         Answer(h, IF u = NoUser THEN "401" ELSE "200")
    /\ UNCHANGED <<tables, lapsed, cookie, request, late>>

Delete(h) ==
    /\ stage[h] = "delete"
    /\ PutSession(Token(h), NoSession)
    /\ Answer(h, "200")
    /\ UNCHANGED <<lapsed, cookie, request, late>>

InStore(h) == stage[h] \in Stages \ {"idle", "answered", "done"}

\* What the store call of a handler writes.
Written(h) ==
    \/ stage[h] = "saveUser" /\ PutUser(h)
    \/ stage[h] = "newSession" /\ PutSession(h, Email(h))
    \/ stage[h] = "delete" /\ PutSession(Token(h), NoSession)

\* Slip: the error of newSession is dropped.
StoreFailsUnseen(h) ==
    /\ StoreFails /\ InStore(h)
    /\ Written(h) \/ UNCHANGED tables
    /\ Answer(h, IF stage[h] = "newSession" THEN "200" ELSE "502")
    /\ UNCHANGED <<lapsed, cookie, request, late>>

\* A store call fails, or the pod dies: the caller gets a 502.
StoreCallFails(h) ==
    /\ StoreFails /\ InStore(h)
    /\ Written(h) \/ UNCHANGED tables
    /\ Answer(h, "502")
    /\ UNCHANGED <<lapsed, cookie, request, late>>

-----------------------------------------------------------------------------
(* The answer's way back through the storefront.                           *)

\* The storefront passes it on; but a verification that did not succeed, for
\* whatever reason, reads "not signed in".
Passed(h) == IF Kind(h) = "verify" /\ answer[h] # "200" THEN "401" ELSE answer[h]
Finish(h, code) ==
    /\ stage' = [stage EXCEPT ![h] = "done"]
    /\ answer' = [answer EXCEPT ![h] = code]

\* A signup or login that succeeded sets the cookie; a logout clears it whatever
\* the accounts service answered.
Deliver(h) ==
    /\ stage[h] = "answered"
    /\ Finish(h, Passed(h))
    /\ cookie' = CASE Kind(h) \in {"signup", "login"} /\ answer[h] = "200" ->
                        [cookie EXCEPT ![request[h].browser] = h]
                   [] Kind(h) = "logout" ->
                        [cookie EXCEPT ![request[h].browser] = NoSession]
                   [] OTHER -> cookie
    /\ UNCHANGED <<tables, lapsed, request, late>>

\* The browser is gone, or a hop was cut off: for the storefront that is a
\* verification that did not succeed.
Lose(h) ==
    /\ stage[h] = "answered"
    /\ Finish(h, answer[h]) \/ (Kind(h) = "verify" /\ Finish(h, "401"))
    /\ UNCHANGED <<tables, lapsed, cookie, request, late>>

\* Seven days pass.
Expire(t) ==
    /\ sessions[t] # NoSession /\ t \notin lapsed
    /\ lapsed' = lapsed \cup {t}
    /\ UNCHANGED <<tables, cookie, stage, request, answer, late>>

-----------------------------------------------------------------------------

Handle(h) ==
    \/ Refuse(h) \/ CheckUser(h) \/ SaveUser(h) \/ NewSession(h)
    \/ ReadSession(h) \/ ReadOwner(h) \/ Delete(h) \/ StoreCallFails(h)
    \/ Deliver(h) \/ Lose(h)

\* Every call of the instance has been served: the service waits for more.
Quiescent == (\A h \in Calls : stage[h] = "done") /\ UNCHANGED vars

Next ==
    \/ \E h \in Calls : EnterPassword(h) \/ PresentCookie(h) \/ Handle(h) \/ Expire(h)
    \/ Quiescent

Spec == Init /\ [][Next]_vars
-----------------------------------------------------------------------------
(* Properties.                                                             *)

\* Nobody is let in on a wrong password: whatever races, fails or is read late, a
\* session of a user, in any version of the table, was minted by a sign-up or login
\* for that user, with a password that user's document has or had.
SessionsEarned ==
    \A t \in Calls : \A e \in SessionVersions(t) \ {NoSession} :
        /\ Kind(t) \in {"signup", "login"} /\ Email(t) = e
        /\ request[t].password \in UserVersions(e)

\* On consistent tables, what is received too late never succeeds: a sign-up of an
\* address that has an account, a verification of a token that has expired or whose
\* logout was answered.  Calls that overlapped cannot bring an ended session back.
LateIsRefused == \A h \in late : answer[h] # "200"

\* On consistent tables, a browser whose sign-up or login succeeded stays signed in:
\* the accounts service refuses its token only once it has expired or somebody has
\* logged out with it.  (What the storefront tells the browser is 401 also when the
\* service failed or was not reached, auth.go:94-100: that ends no session.)
SignedInLasts ==
    \A h \in Calls : Kind(h) = "verify" /\ stage[h] = "answered" /\ answer[h] = "401" =>
        \/ Token(h) \in lapsed
        \/ \E g \in Calls : stage[g] # "idle" /\ Kind(g) = "logout" /\ Token(g) = Token(h)

\* The comment at model.go:67-68: a sign-up is refused if the address is already
\* registered, so an address is signed up once.
OneSignupPerAddress ==
    \A g, h \in Calls :
        /\ Kind(g) = "signup" /\ answer[g] = "200"
        /\ Kind(h) = "signup" /\ answer[h] = "200"
        /\ Email(g) = Email(h)
        => g = h
====
