---- MODULE AccountsProofs ----
(***************************************************************************)
(* Theorems about the accounts service, for any sets of browsers,          *)
(* addresses, passwords and calls, stale reads and failing stores          *)
(* included.                                                               *)
(***************************************************************************)
EXTENDS Accounts, TLAPS

-----------------------------------------------------------------------------
(* The inductive invariant.                                                *)

\* What a handler in a stage knows of the request it serves.  A handler that is
\* about to mint a session holds a password the user's document has or had.
StageInv(h) ==
    /\ stage[h] = "idle" => Kind(h) = "none"
    /\ stage[h] \in {"checkUser", "saveUser", "newSession"} =>
         Kind(h) \in {"signup", "login"} /\ Email(h) \in Emails
         /\ request[h].password \in Passwords
    /\ stage[h] = "newSession" => request[h].password \in UserVersions(Email(h))
    /\ stage[h] \in {"readSession", "readOwner"} => Kind(h) = "verify"
    /\ stage[h] = "readOwner" => Email(h) \in Emails
    /\ stage[h] \in {"readSession", "delete"} => Token(h) \in Calls

IInv == TypeOK /\ SessionsEarned /\ \A h \in Calls : StageInv(h)

\* It holds initially.
LEMMA InitInv == Init => IInv
BY DEF Init, IInv, TypeOK, SessionsEarned, SessionVersions, StageInv, Blank, Stages,
       Answers, Request, Kinds, Kind

-----------------------------------------------------------------------------
(* The two kinds of write.                                                 *)

\* A put of a user document keeps what was true of its versions.
LEMMA PutUserGrows ==
  ASSUME TypeOK, NEW h \in Calls, PutUser(h),
         Email(h) \in Emails, request[h].password \in Passwords
  PROVE  /\ users' \in [Emails -> Passwords \cup {NoUser}]
         /\ oldUsers' \in [Emails -> SUBSET (Passwords \cup {NoUser})]
         /\ \A e \in Emails : UserVersions(e) \subseteq UserVersions(e)'
         /\ request[h].password = users'[Email(h)]
         /\ UNCHANGED <<sessions, oldSessions>>
<1> USE DEF TypeOK, PutUser
<1>1. users' \in [Emails -> Passwords \cup {NoUser}]
  OBVIOUS
<1>2. oldUsers' \in [Emails -> SUBSET (Passwords \cup {NoUser})]
  <2>1. users[Email(h)] \in Passwords \cup {NoUser}
    OBVIOUS
  <2> QED BY <2>1
<1>3. \A e \in Emails : UserVersions(e) \subseteq UserVersions(e)'
  BY DEF UserVersions
<1> QED BY <1>1, <1>2, <1>3

\* A put of a session document adds one version, of that token.
LEMMA PutSessionAdds ==
  ASSUME TypeOK, NEW t \in Calls, NEW u \in Emails \cup {NoSession}, PutSession(t, u)
  PROVE  /\ sessions' \in [Calls -> Emails \cup {NoSession}]
         /\ oldSessions' \in [Calls -> SUBSET (Emails \cup {NoSession})]
         /\ SessionVersions(t)' \subseteq SessionVersions(t) \cup {u}
         /\ \A s \in Calls \ {t} : SessionVersions(s)' = SessionVersions(s)
         /\ UNCHANGED <<users, oldUsers>>
<1> USE DEF TypeOK, PutSession
<1>1. sessions' \in [Calls -> Emails \cup {NoSession}]
  OBVIOUS
<1>2. oldSessions' \in [Calls -> SUBSET (Emails \cup {NoSession})]
  <2>1. sessions[t] \in Emails \cup {NoSession}
    OBVIOUS
  <2> QED BY <2>1
<1>3. SessionVersions(t)' \subseteq SessionVersions(t) \cup {u}
  BY DEF SessionVersions
<1>4. \A s \in Calls \ {t} : SessionVersions(s)' = SessionVersions(s)
  BY DEF SessionVersions
<1> QED BY <1>1, <1>2, <1>3, <1>4

\* What one store call writes, and what it leaves alone of the invariant: user
\* documents only gain versions, a new session belongs to the writer.
WriteOK(h) ==
    /\ users' \in [Emails -> Passwords \cup {NoUser}]
    /\ oldUsers' \in [Emails -> SUBSET (Passwords \cup {NoUser})]
    /\ sessions' \in [Calls -> Emails \cup {NoSession}]
    /\ oldSessions' \in [Calls -> SUBSET (Emails \cup {NoSession})]
    /\ \A e \in Emails : UserVersions(e) \subseteq UserVersions(e)'
    /\ \A t \in Calls : \A e \in SessionVersions(t)' \ {NoSession} :
         e \in SessionVersions(t) \/ (t = h /\ stage[h] = "newSession" /\ e = Email(h))

\* A store call that answers or fails writes soundly.
LEMMA WrittenOK ==
  ASSUME IInv, NEW h \in Calls, Written(h) \/ UNCHANGED tables
  PROVE  WriteOK(h)
<1> USE DEF IInv
<1>1. CASE UNCHANGED tables
  BY <1>1 DEF WriteOK, TypeOK, tables, UserVersions, SessionVersions
<1>2. CASE stage[h] = "saveUser" /\ PutUser(h)
  <2>1. Email(h) \in Emails /\ request[h].password \in Passwords
    BY <1>2 DEF StageInv
  <2>2. \A t \in Calls : SessionVersions(t)' = SessionVersions(t)
    BY <1>2 DEF PutUser, SessionVersions
  <2> QED BY <1>2, <2>1, <2>2, PutUserGrows DEF WriteOK, TypeOK
<1>3. CASE stage[h] = "newSession" /\ PutSession(h, Email(h))
  <2>1. Email(h) \in Emails
    BY <1>3 DEF StageInv
  <2>2. \A e \in Emails : UserVersions(e)' = UserVersions(e)
    BY <1>3 DEF PutSession, UserVersions
  <2> QED BY <1>3, <2>1, <2>2, PutSessionAdds DEF WriteOK, TypeOK
<1>4. CASE stage[h] = "delete" /\ PutSession(Token(h), NoSession)
  <2>1. Token(h) \in Calls
    BY <1>4 DEF StageInv
  <2>2. \A e \in Emails : UserVersions(e)' = UserVersions(e)
    BY <1>4 DEF PutSession, UserVersions
  <2> QED BY <1>4, <2>1, <2>2, PutSessionAdds DEF WriteOK, TypeOK
<1> QED BY <1>1, <1>2, <1>3, <1>4 DEF Written

\* A sound write keeps every earned session, and earns the new one.
LEMMA WriteKeepsEarned ==
  ASSUME IInv, NEW h \in Calls, WriteOK(h), UNCHANGED request
  PROVE  SessionsEarned'
<1> SUFFICES ASSUME NEW t \in Calls, NEW e \in SessionVersions(t)' \ {NoSession}
             PROVE  /\ Kind(t)' \in {"signup", "login"} /\ Email(t)' = e
                    /\ request'[t].password \in UserVersions(e)'
  BY DEF SessionsEarned
<1> USE DEF Kind, Email
<1>1. CASE e \in SessionVersions(t)
  <2>1. Kind(t) \in {"signup", "login"} /\ Email(t) = e /\ request[t].password \in UserVersions(e)
    BY <1>1 DEF IInv, SessionsEarned
  <2>2. e \in Emails
    BY <1>1 DEF IInv, TypeOK, SessionVersions
  <2> QED BY <2>1, <2>2 DEF WriteOK
<1>2. CASE t = h /\ stage[h] = "newSession" /\ e = Email(h)
  <2>1. StageInv(h)
    BY DEF IInv
  <2> QED BY <1>2, <2>1 DEF StageInv, WriteOK
<1> QED BY <1>1, <1>2 DEF WriteOK

\* And so does a step that changes no table and only requests without sessions.
LEMMA NoWriteKeepsEarned ==
  ASSUME IInv, UNCHANGED tables,
         \A t \in Calls : request'[t] = request[t] \/ Kind(t) \notin {"signup", "login"}
  PROVE  SessionsEarned'
BY DEF IInv, SessionsEarned, SessionVersions, UserVersions, tables, Kind, Email

-----------------------------------------------------------------------------
(* Steps.                                                                  *)

\* Whoever does not take the step keeps its stage's knowledge.
LEMMA OthersKeepStage ==
  ASSUME NEW h \in Calls, StageInv(h), stage'[h] = stage[h], request'[h] = request[h],
         \A e \in Emails : UserVersions(e) \subseteq UserVersions(e)'
  PROVE  StageInv(h)'
<1>1. Kind(h)' = Kind(h) /\ Email(h)' = Email(h) /\ Token(h)' = Token(h)
  BY DEF Kind, Email, Token
<1>2. Email(h) \in Emails => UserVersions(Email(h)) \subseteq UserVersions(Email(h))'
  BY <1>1 DEF UserVersions
<1> QED BY <1>1, <1>2 DEF StageInv

\* Every step of a handler that leaves requests alone and moves the handler to a stage
\* that asks nothing of it keeps the invariant, if what it writes is sound.
LEMMA WritingStep ==
  ASSUME IInv, NEW h \in Calls, WriteOK(h), UNCHANGED <<request, late, lapsed>>,
         cookie' \in [Browsers -> Calls \cup {NoSession}],
         answer' \in [Calls -> Answers],
         NEW s \in {"answered", "done"}, stage' = [stage EXCEPT ![h] = s]
  PROVE  IInv'
<1>1. TypeOK'
  BY DEF IInv, TypeOK, WriteOK, Stages
<1>2. SessionsEarned'
  BY WriteKeepsEarned
<1>3. ASSUME NEW g \in Calls PROVE StageInv(g)'
  <2>1. CASE g = h
    BY <2>1 DEF IInv, TypeOK, StageInv
  <2>2. CASE g # h
    <3>1. stage'[g] = stage[g] /\ request'[g] = request[g] /\ StageInv(g)
      BY <2>2 DEF IInv, TypeOK
    <3> QED BY <3>1, OthersKeepStage DEF WriteOK
  <2> QED BY <2>1, <2>2
<1> QED BY <1>1, <1>2, <1>3 DEF IInv

\* An answer ends the handler's work.
LEMMA AnswerType ==
  ASSUME IInv, NEW h \in Calls, NEW code \in Answers, Answer(h, code)
  PROVE  answer' \in [Calls -> Answers] /\ stage' = [stage EXCEPT ![h] = "answered"]
BY DEF IInv, TypeOK, Answer

\* Writing nothing is a sound write.
LEMMA TablesKept ==
  ASSUME IInv, NEW h \in Calls, UNCHANGED tables
  PROVE  WriteOK(h)
BY WrittenOK

\* A well-formed request that arrives keeps the invariant.
LEMMA ReceiveInv ==
  ASSUME IInv, NEW h \in Calls, NEW r \in Request, Receive(h, r), r.kind \in Kinds,
         r.kind \in {"signup", "login"} => r.email \in Emails /\ r.password \in Passwords,
         r.kind \in {"verify", "logout"} => r.token \in Calls
  PROVE  IInv'
<1> USE DEF Receive, Goto
<1>1. FirstStage(r.kind) =
        IF r.kind \in {"signup", "login"} THEN "checkUser"
        ELSE IF r.kind = "verify" THEN "readSession" ELSE "delete"
  BY DEF FirstStage, Kinds
<1>2. TypeOK'
  BY <1>1 DEF IInv, TypeOK, tables, Stages
<1>3. Kind(h) = "none"
  BY DEF IInv, StageInv
<1>4. SessionsEarned'
  BY <1>3, NoWriteKeepsEarned DEF IInv, TypeOK
<1>5. ASSUME NEW g \in Calls PROVE StageInv(g)'
  <2>1. CASE g = h
    <3>1. stage'[h] = FirstStage(r.kind) /\ request'[h] = r
      BY DEF IInv, TypeOK
    <3> QED BY <2>1, <3>1, <1>1 DEF StageInv, Kind, Email, Token, Kinds
  <2>2. CASE g # h
    <3>1. stage'[g] = stage[g] /\ request'[g] = request[g] /\ StageInv(g)
      BY <2>2 DEF IInv, TypeOK
    <3> QED BY <3>1, OthersKeepStage, TablesKept DEF WriteOK
  <2> QED BY <2>1, <2>2
<1> QED BY <1>2, <1>4, <1>5 DEF IInv

\* The requests a browser sends are well-formed.
LEMMA AskInv ==
  ASSUME IInv, NEW h \in Calls, EnterPassword(h) \/ PresentCookie(h)
  PROVE  IInv'
<1>1. request[h] \in Request /\ request[h].browser \in Browsers
  BY DEF IInv, TypeOK, Request
<1>2. CASE EnterPassword(h)
  <2>1. PICK k \in {"signup", "login"}, e \in Emails, p \in Passwords :
          Receive(h, [request[h] EXCEPT !.kind = k, !.email = e, !.password = p])
    BY <1>2 DEF EnterPassword
  <2> DEFINE r == [request[h] EXCEPT !.kind = k, !.email = e, !.password = p]
  <2>2. r \in Request /\ r.kind = k /\ r.email = e /\ r.password = p
    BY <1>1 DEF Request, Kinds
  <2>3. Receive(h, r)
    BY <2>1
  <2> HIDE DEF r
  <2> QED BY <2>2, <2>3, ReceiveInv DEF Kinds
<1>3. CASE PresentCookie(h)
  <2>1. PICK k \in {"verify", "logout"}, t \in {cookie[request[h].browser]} \ {NoSession} :
          Receive(h, [request[h] EXCEPT !.kind = k, !.token = t])
    BY <1>3 DEF PresentCookie
  <2> DEFINE r == [request[h] EXCEPT !.kind = k, !.token = t]
  <2>2. t \in Calls
    BY <1>1 DEF IInv, TypeOK
  <2>3. r \in Request /\ r.kind = k /\ r.token = t
    BY <1>1, <2>2 DEF Request, Kinds
  <2>4. Receive(h, r)
    BY <2>1
  <2> HIDE DEF r
  <2> QED BY <2>2, <2>3, <2>4, ReceiveInv DEF Kinds
<1> QED BY <1>2, <1>3

\* A login passes only on a password the document has or had; a sign-up has yet to save.
LEMMA CheckUserInv ==
  ASSUME IInv, NEW h \in Calls, CheckUser(h)
  PROVE  IInv'
<1> USE DEF CheckUser
<1>1. WriteOK(h) /\ StageInv(h) /\ Email(h) \in Emails
  BY TablesKept DEF IInv, StageInv
<1>2. CASE Answer(h, "401") \/ Answer(h, "409")
  BY <1>1, <1>2, AnswerType, WritingStep DEF Answers, IInv, TypeOK
<1>3. CASE Goto(h, "saveUser") \/ (Goto(h, "newSession")
             /\ request[h].password \in ReadableUser(Email(h)))
  <2>1. PICK s \in {"saveUser", "newSession"} : Goto(h, s) /\
          (s = "newSession" => request[h].password \in ReadableUser(Email(h)))
    BY <1>3
  <2>2. TypeOK'
    BY <2>1 DEF IInv, TypeOK, Goto, Stages, tables
  <2>3. SessionsEarned'
    BY NoWriteKeepsEarned
  <2>4. ASSUME NEW g \in Calls PROVE StageInv(g)'
    <3>1. CASE g = h
      <4>1. stage'[h] = s
        BY <2>1 DEF Goto, IInv, TypeOK
      <4>2. UserVersions(Email(h))' = UserVersions(Email(h)) /\ request' = request
        BY DEF tables, UserVersions, Email
      <4> QED BY <3>1, <4>1, <4>2, <2>1, <1>1 DEF StageInv, ReadableUser, UserVersions, Kind, Email, Token
    <3>2. CASE g # h
      <4>1. stage'[g] = stage[g] /\ request'[g] = request[g] /\ StageInv(g)
        BY <3>2, <2>1 DEF Goto, IInv, TypeOK
      <4> QED BY <4>1, OthersKeepStage, <1>1 DEF WriteOK
    <3> QED BY <3>1, <3>2
  <2> QED BY <2>2, <2>3, <2>4 DEF IInv
<1> QED BY <1>2, <1>3

\* The sign-up has put its password into the document before it mints a session.
LEMMA SaveUserInv ==
  ASSUME IInv, NEW h \in Calls, SaveUser(h)
  PROVE  IInv'
<1> USE DEF SaveUser
<1>1. WriteOK(h)
  BY WrittenOK DEF Written
<1>2. StageInv(h) /\ Email(h) \in Emails /\ request[h].password \in Passwords
  BY DEF IInv, StageInv
<1>3. request[h].password \in UserVersions(Email(h))'
  BY <1>2, PutUserGrows DEF IInv, UserVersions, Email
<1>4. TypeOK'
  BY <1>1 DEF IInv, TypeOK, WriteOK, Goto, Stages
<1>5. SessionsEarned'
  BY <1>1, WriteKeepsEarned
<1>6. ASSUME NEW g \in Calls PROVE StageInv(g)'
  <2>1. CASE g = h
    <3>1. stage'[h] = "newSession"
      BY DEF Goto, IInv, TypeOK
    <3> QED BY <2>1, <3>1, <1>2, <1>3 DEF StageInv, Kind, Email, Token
  <2>2. CASE g # h
    <3>1. stage'[g] = stage[g] /\ request'[g] = request[g] /\ StageInv(g)
      BY <2>2 DEF Goto, IInv, TypeOK
    <3> QED BY <3>1, OthersKeepStage, <1>1 DEF WriteOK
  <2> QED BY <2>1, <2>2
<1> QED BY <1>4, <1>5, <1>6 DEF IInv

\* A verification finds the address of a user, and no session is its own.
LEMMA ReadSessionInv ==
  ASSUME IInv, NEW h \in Calls, ReadSession(h)
  PROVE  IInv'
<1> USE DEF ReadSession
<1>1. WriteOK(h) /\ StageInv(h) /\ Token(h) \in Calls /\ Kind(h) = "verify"
  BY TablesKept DEF IInv, StageInv
<1>2. CASE Answer(h, "401") /\ UNCHANGED request
  BY <1>1, <1>2, AnswerType, WritingStep DEF Answers, IInv, TypeOK
<1>3. ASSUME NEW s \in ReadableSession(Token(h)), s # NoSession,
             request' = [request EXCEPT ![h].email = s], Goto(h, "readOwner")
      PROVE  IInv'
  <2>1. s \in Emails
    BY <1>1, <1>3 DEF IInv, TypeOK, ReadableSession, SessionVersions
  <2>2. request' \in [Calls -> Request]
    BY <1>3, <2>1 DEF IInv, TypeOK, Request
  <2>3. TypeOK'
    BY <1>3, <2>2 DEF IInv, TypeOK, Goto, Stages, tables
  <2>4. SessionsEarned'
    BY <1>1, <1>3, NoWriteKeepsEarned DEF IInv, TypeOK
  <2>5. ASSUME NEW g \in Calls PROVE StageInv(g)'
    <3>1. CASE g = h
      <4>1. stage'[h] = "readOwner"
        BY <1>3 DEF Goto, IInv, TypeOK
      <4>2. Kind(h)' = "verify" /\ Email(h)' = s
        BY <1>1, <1>3 DEF IInv, TypeOK, Request, Kind, Email
      <4> QED BY <3>1, <4>1, <4>2, <2>1 DEF StageInv
    <3>2. CASE g # h
      <4>1. stage'[g] = stage[g] /\ request'[g] = request[g] /\ StageInv(g)
        BY <3>2, <1>3 DEF Goto, IInv, TypeOK
      <4> QED BY <4>1, OthersKeepStage, <1>1 DEF WriteOK
    <3> QED BY <3>1, <3>2
  <2> QED BY <2>3, <2>4, <2>5 DEF IInv
<1> QED BY <1>2, <1>3

\* The other steps of a handler end in an answer, or past it.
LEMMA HandleInv ==
  ASSUME IInv, NEW h \in Calls, Handle(h)
  PROVE  IInv'
<1> USE DEF Answers
<1>0. answer \in [Calls -> Answers] /\ cookie \in [Browsers -> Calls \cup {NoSession}]
      /\ request[h] \in Request
  BY DEF IInv, TypeOK
<1>1. CASE Refuse(h)
  BY <1>0, <1>1, TablesKept, AnswerType, WritingStep DEF Refuse
<1>2. CASE CheckUser(h)
  BY <1>2, CheckUserInv
<1>3. CASE SaveUser(h)
  BY <1>3, SaveUserInv
<1>4. CASE NewSession(h)
  <2>1. WriteOK(h)
    BY <1>4, WrittenOK DEF NewSession, Written
  <2> QED BY <1>0, <1>4, <2>1, AnswerType, WritingStep DEF NewSession
<1>5. CASE ReadSession(h)
  BY <1>5, ReadSessionInv
<1>6. CASE ReadOwner(h)
  BY <1>0, <1>6, TablesKept, AnswerType, WritingStep DEF ReadOwner
<1>7. CASE Delete(h)
  <2>1. WriteOK(h)
    BY <1>7, WrittenOK DEF Delete, Written
  <2> QED BY <1>0, <1>7, <2>1, AnswerType, WritingStep DEF Delete
<1>8. CASE StoreCallFails(h)
  <2>1. WriteOK(h)
    BY <1>8, WrittenOK DEF StoreCallFails
  <2> QED BY <1>0, <1>8, <2>1, AnswerType, WritingStep DEF StoreCallFails
<1>9. CASE Deliver(h)
  <2>1. cookie' \in [Browsers -> Calls \cup {NoSession}]
    BY <1>0, <1>9 DEF Deliver, Request
  <2>2. Passed(h) \in Answers
    BY <1>0 DEF Passed, Answers
  <2> QED BY <1>0, <1>9, <2>1, <2>2, TablesKept, WritingStep DEF Deliver, Finish
<1>10. CASE Lose(h)
  BY <1>0, <1>10, TablesKept, WritingStep DEF Lose, Finish, Answers
<1> QED BY <1>1, <1>2, <1>3, <1>4, <1>5, <1>6, <1>7, <1>8, <1>9, <1>10 DEF Handle

\* Every step keeps the invariant.
LEMMA NextInv == IInv /\ [Next]_vars => IInv'
<1> SUFFICES ASSUME IInv, [Next]_vars PROVE IInv'
  OBVIOUS
<1>1. ASSUME NEW h \in Calls, Handle(h) PROVE IInv'
  BY <1>1, HandleInv
<1>2. ASSUME NEW h \in Calls, Expire(h) PROVE IInv'
  BY <1>2 DEF Expire, IInv, TypeOK, SessionsEarned, StageInv, SessionVersions, UserVersions,
              tables, Kind, Email, Token
<1>3. ASSUME NEW h \in Calls, EnterPassword(h) \/ PresentCookie(h) PROVE IInv'
  BY <1>3, AskInv
<1>4. CASE UNCHANGED vars
  BY <1>4 DEF vars, IInv, TypeOK, SessionsEarned, StageInv, SessionVersions, UserVersions,
              Kind, Email, Token
<1> QED BY <1>1, <1>2, <1>3, <1>4 DEF Next, Quiescent

\* So it always holds.
LEMMA Invariance == Spec => []IInv
BY InitInv, NextInv, PTL DEF Spec

-----------------------------------------------------------------------------

\* Every variable keeps its type: in particular the sessions table only ever maps a
\* token to an address, and a browser's cookie is a token or nothing.
THEOREM AccountsTypeCorrect == Spec => []TypeOK
BY Invariance, PTL DEF IInv

\* Nobody gets a session of a user without a password that user's document has or
\* had, however sign-ups of an address race, reads are stale and stores fail.
THEOREM SessionsAreEarned == Spec => []SessionsEarned
BY Invariance, PTL DEF IInv

-----------------------------------------------------------------------------
(* When sessions end, on consistent tables: an ended one lets nobody in,   *)
(* and no other is refused.                                                *)

(* The strengthening.                                                      *)

\* An answer ends a handler's work, and only logouts delete.
CourseInv ==
    \A h \in Calls :
        /\ answer[h] # "none" => stage[h] \in {"answered", "done"}
        /\ stage[h] = "delete" => Kind(h) = "logout"
        /\ Kind(h) \in {"verify", "logout"} => Token(h) \in Calls
        /\ Kind(h) \in {"signup", "login"} => Email(h) \in Emails /\ request[h].password \in Passwords

\* A token leaves the service with the answer of the call that minted it, so
\* whoever presents it, that call is over.
Issued(t) == t \in Calls /\ Kind(t) \in {"signup", "login"} /\ answer[t] = "200"

TokenInv ==
    /\ \A b \in Browsers : cookie[b] # NoSession => Issued(cookie[b])
    /\ \A h \in Calls : Token(h) # NoSession => Issued(Token(h))

\* A registered address stays registered, and a session's user is.
OwnerInv ==
    /\ \A e \in Emails : users[e] = NoUser => oldUsers[e] \subseteq {NoUser}
    /\ \A h \in Calls : stage[h] = "readOwner" => users[Email(h)] # NoUser

LoggedOut(t) == \E g \in Calls : stage[g] # "idle" /\ Kind(g) = "logout" /\ Token(g) = t

\* A token has its session from its answer to a logout, and never after.
SessionInv ==
    /\ \A t \in Calls : Issued(t) => sessions[t] # NoSession \/ LoggedOut(t)
    /\ \A g \in Calls : Kind(g) = "logout" /\ answer[g] = "200" => sessions[Token(g)] = NoSession

\* What came too late cannot succeed any more.
Hopeless(h) ==
    /\ answer[h] # "200"
    /\ \/ /\ Kind(h) = "signup" /\ users[Email(h)] # NoUser
          /\ stage[h] \in {"checkUser", "answered", "done"}
       \/ /\ Kind(h) = "verify" /\ Ended(Token(h))
          /\ stage[h] \in {"readSession", "answered", "done"}
LateInv == \A h \in late : Hopeless(h)

EndInv == IInv /\ CourseInv /\ TokenInv /\ OwnerInv /\ SessionInv /\ LateInv /\ SignedInLasts

LEMMA InitEnd == Init => EndInv
<1> SUFFICES ASSUME Init PROVE EndInv
  OBVIOUS
<1>1. \A h \in Calls : Kind(h) = "none" /\ Token(h) = NoSession
  BY DEF Init, Blank, Kind, Token
<1>2. IInv
  BY InitInv
<1>3. CourseInv /\ TokenInv /\ OwnerInv /\ SessionInv /\ LateInv /\ SignedInLasts
  BY <1>1 DEF Init, CourseInv, TokenInv, OwnerInv, SessionInv, LateInv, SignedInLasts, Issued
<1> QED BY <1>2, <1>3 DEF EndInv

-----------------------------------------------------------------------------
(* What a step may do, whichever it is.                                    *)

\* The others stand still.
Alone(h) ==
    \A g \in Calls \ {h} : stage'[g] = stage[g] /\ request'[g] = request[g] /\ answer'[g] = answer[g]

\* Addresses stay registered, tokens stay lapsed, and a session is made by its
\* own call and removed by a logout with it.
Onward(h) ==
    /\ \A e \in Emails : users[e] # NoUser => users'[e] # NoUser
    /\ \A e \in Emails : oldUsers'[e] = oldUsers[e] \/ users'[e] # NoUser
    /\ \A e \in Emails : users'[e] = users[e] \/ users'[e] # NoUser
    /\ lapsed \subseteq lapsed'
    /\ \A t \in Calls :
         \/ sessions'[t] = sessions[t]
         \/ t = h /\ stage[h] = "newSession" /\ sessions'[t] # NoSession
         \/ t = Token(h) /\ stage[h] = "delete" /\ sessions'[t] = NoSession

LEMMA TablesOnward ==
  ASSUME EndInv, NEW h \in Calls, Written(h) \/ UNCHANGED tables, UNCHANGED lapsed
  PROVE  Onward(h)
<1> USE DEF EndInv, IInv, TypeOK
<1>1. CASE UNCHANGED tables
  BY <1>1 DEF Onward, tables
<1>2. CASE stage[h] = "saveUser" /\ PutUser(h)
  <2>1. Email(h) \in Emails /\ request[h].password # NoUser
    BY <1>2, AccountsConstants DEF StageInv
  <2> QED BY <1>2, <2>1 DEF PutUser, Onward
<1>3. CASE stage[h] = "newSession" /\ PutSession(h, Email(h))
  <2>1. Email(h) # NoSession
    BY <1>3, AccountsConstants DEF StageInv
  <2> QED BY <1>3, <2>1 DEF PutSession, Onward
<1>4. CASE stage[h] = "delete" /\ PutSession(Token(h), NoSession)
  BY <1>4 DEF PutSession, Onward, StageInv
<1> QED BY <1>1, <1>2, <1>3, <1>4 DEF Written

\* The handler goes on, having read what lets it.
GoesOn(h) ==
    /\ \/ answer'[h] = answer[h]
       \/ stage[h] = "answered" /\ Kind(h) = "verify" /\ answer'[h] = "401"
    /\ \/ /\ stage[h] = "checkUser" /\ stage'[h] = "saveUser"
          /\ Kind(h) = "signup" /\ users[Email(h)] = NoUser
       \/ stage[h] = "checkUser" /\ stage'[h] = "newSession" /\ Kind(h) = "login"
       \/ stage[h] = "saveUser" /\ stage'[h] = "newSession"
       \/ /\ stage[h] = "readSession" /\ stage'[h] = "readOwner"
          /\ Token(h) \notin lapsed /\ sessions[Token(h)] # NoSession
          /\ Email(h)' = sessions[Token(h)]
       \/ stage[h] = "answered" /\ stage'[h] = "done"

\* The handler answers.
Answers401(h) ==
    /\ answer'[h] = "401"
    /\ \/ stage[h] = "checkUser"
       \/ stage[h] = "readSession" /\ (sessions[Token(h)] = NoSession \/ Token(h) \in lapsed)
Answers200(h) ==
    /\ answer'[h] = "200"
    /\ \/ stage[h] = "newSession" /\ sessions'[h] # NoSession
       \/ stage[h] = "readOwner"
       \/ stage[h] = "delete" /\ sessions'[Token(h)] = NoSession
Answered(h) ==
    /\ stage'[h] = "answered"
    /\ InStore(h)
    /\ answer'[h] \in {"400", "409", "502"} \/ Answers401(h) \/ Answers200(h)

Cookies(h) ==
    \A b \in Browsers : \/ cookie'[b] \in {cookie[b], NoSession}
                        \/ cookie'[b] = h /\ Issued(h) /\ stage[h] = "answered"

Shape(h) ==
    /\ Alone(h) /\ Onward(h)
    /\ GoesOn(h) \/ Answered(h)
    /\ Kind(h)' = Kind(h) /\ Token(h)' = Token(h)
    /\ Email(h)' = Email(h) \/ stage[h] = "readSession"
    /\ request'[h].password = request[h].password
    /\ Cookies(h)
    /\ late' = late /\ lapsed' = lapsed

LEMMA HandleShape ==
  ASSUME StaleReads = FALSE, EndInv, NEW h \in Calls, Handle(h)
  PROVE  Shape(h)
<1>0. /\ TypeOK /\ StageInv(h)
      /\ UNCHANGED lapsed /\ UNCHANGED late
  BY DEF EndInv, IInv, Handle, Refuse, CheckUser, SaveUser, NewSession, ReadSession, ReadOwner,
         Delete, StoreCallFails, Deliver, Lose
<1>1. Written(h) \/ UNCHANGED tables
  BY DEF Handle, Refuse, CheckUser, SaveUser, NewSession, ReadSession, ReadOwner,
         Delete, StoreCallFails, Deliver, Lose, Written
<1>2. Onward(h)
  BY <1>0, <1>1, TablesOnward
<1> USE DEF Shape, Alone, Answered, InStore, Stages, TypeOK, Answer, Goto, Cookies, Kind, Email, Token
<1>3. CASE Refuse(h)
  BY <1>0, <1>2, <1>3 DEF Refuse
<1>4. CASE CheckUser(h)
  BY <1>0, <1>2, <1>4 DEF CheckUser, ReadableUser, GoesOn, Answers401, StageInv
<1>5. CASE SaveUser(h)
  BY <1>0, <1>2, <1>5 DEF SaveUser, GoesOn
<1>6. CASE NewSession(h)
  <2>1. sessions'[h] # NoSession
    BY <1>0, <1>6, AccountsConstants DEF NewSession, PutSession, StageInv
  <2> QED BY <1>0, <1>2, <1>6, <2>1 DEF NewSession, Answers200
<1>7. CASE ReadSession(h)
  BY <1>0, <1>2, <1>7 DEF ReadSession, ReadableSession, GoesOn, Answers401, Request
<1>8. CASE ReadOwner(h)
  <2>1. users[Email(h)] # NoUser
    BY <1>8 DEF ReadOwner, EndInv, OwnerInv
  <2> QED BY <1>0, <1>2, <1>8, <2>1 DEF ReadOwner, ReadableUser, Answers200
<1>9. CASE Delete(h)
  <2>1. sessions'[Token(h)] = NoSession
    BY <1>0, <1>9 DEF Delete, PutSession, StageInv
  <2> QED BY <1>0, <1>2, <1>9, <2>1 DEF Delete, Answers200
<1>10. CASE StoreCallFails(h)
  BY <1>0, <1>2, <1>10 DEF StoreCallFails
<1>11. CASE Deliver(h)
  BY <1>0, <1>2, <1>11 DEF Deliver, Finish, Passed, GoesOn, Issued
<1>12. CASE Lose(h)
  BY <1>0, <1>2, <1>12 DEF Lose, Finish, GoesOn
<1> QED BY <1>3, <1>4, <1>5, <1>6, <1>7, <1>8, <1>9, <1>10, <1>11, <1>12 DEF Handle

-----------------------------------------------------------------------------
(* The steps of handlers.                                                  *)

\* What a step does to the calls it is not of.
LEMMA OthersStill ==
  ASSUME NEW h \in Calls, Alone(h), NEW g \in Calls, g # h
  PROVE  /\ stage'[g] = stage[g] /\ answer'[g] = answer[g]
         /\ Kind(g)' = Kind(g) /\ Token(g)' = Token(g) /\ Email(g)' = Email(g)
         /\ request'[g].password = request[g].password
  BY DEF Alone, Kind, Token, Email

\* An answer is not taken back, but for what the storefront makes of a verification.
LEMMA SettledStays ==
  ASSUME CourseInv, NEW h \in Calls, Shape(h)
  PROVE  /\ \A g \in Calls : answer[g] # "none" /\ Kind(g) # "verify" => answer'[g] = answer[g]
         /\ \A g \in Calls : Kind(g)' = Kind(g) /\ Token(g)' = Token(g)
         /\ \A g \in Calls : stage[g] # "idle" => stage'[g] # "idle"
<1>1. answer[h] # "none" /\ Kind(h) # "verify" => answer'[h] = answer[h]
  BY DEF CourseInv, Shape, GoesOn, Answered, InStore
<1>2. stage'[h] # "idle"
  BY DEF Shape, GoesOn, Answered
<1> QED BY <1>1, <1>2, OthersStill DEF Shape

LEMMA CourseStep ==
  ASSUME EndInv, NEW h \in Calls, Shape(h)
  PROVE  CourseInv'
<1>1. \A g \in Calls \ {h} : /\ answer'[g] # "none" => stage'[g] \in {"answered", "done"}
                             /\ stage'[g] = "delete" => Kind(g)' = "logout"
  BY OthersStill DEF Shape, EndInv, CourseInv
<1>2. /\ answer'[h] # "none" => stage'[h] \in {"answered", "done"}
      /\ stage'[h] # "delete"
  BY DEF Shape, GoesOn, Answered, EndInv, CourseInv
<1>3. \A g \in Calls : Kind(g)' \in {"verify", "logout"} => Token(g)' \in Calls
  BY OthersStill DEF Shape, EndInv, CourseInv
<1>4. \A g \in Calls : Kind(g)' \in {"signup", "login"} =>
        Email(g)' \in Emails /\ request'[g].password \in Passwords
  <2>1. stage[h] = "readSession" => Kind(h) = "verify"
    BY DEF EndInv, IInv, StageInv
  <2> QED BY <2>1, OthersStill DEF Shape, EndInv, CourseInv
<1> QED BY <1>1, <1>2, <1>3, <1>4 DEF CourseInv

LEMMA IssuedStays ==
  ASSUME CourseInv, NEW h \in Calls, Shape(h)
  PROVE  \A t \in Calls : Issued(t) => Issued(t)'
  BY SettledStays DEF Issued

LEMMA TokenStep ==
  ASSUME EndInv, NEW h \in Calls, Shape(h)
  PROVE  TokenInv'
<1>0. CourseInv /\ TokenInv
  BY DEF EndInv
<1>1. ASSUME NEW b \in Browsers, cookie'[b] # NoSession PROVE Issued(cookie[b])'
  <2>1. \/ cookie'[b] \in Calls /\ Issued(cookie'[b])
        \/ cookie'[b] = h /\ Issued(h)
    BY <1>0, <1>1 DEF Shape, Cookies, TokenInv, Issued
  <2>2. PICK t \in Calls : t = cookie'[b] /\ Issued(t)
    BY <2>1
  <2>3. Issued(t)'
    BY <1>0, <2>2, IssuedStays
  <2> QED BY <2>2, <2>3 DEF Issued, Kind
<1>2. ASSUME NEW g \in Calls, Token(g)' # NoSession PROVE Issued(Token(g))'
  <2>1. Token(g)' = Token(g)
    BY <1>0, SettledStays
  <2>2. PICK t \in Calls : t = Token(g) /\ Issued(t)
    BY <1>0, <1>2, <2>1 DEF TokenInv, Issued
  <2>3. Issued(t)'
    BY <1>0, <2>2, IssuedStays
  <2> QED BY <2>1, <2>2, <2>3 DEF Issued, Kind
<1> QED BY <1>1, <1>2 DEF TokenInv

\* The user of a session is registered.
LEMMA OwnerKnown ==
  ASSUME EndInv, NEW t \in Calls, sessions[t] # NoSession
  PROVE  sessions[t] \in Emails /\ users[sessions[t]] # NoUser
<1>1. sessions[t] \in Emails
  BY DEF EndInv, IInv, TypeOK
<1>2. Kind(t) \in {"signup", "login"} /\ request[t].password \in UserVersions(sessions[t])
  BY DEF EndInv, IInv, SessionsEarned, SessionVersions
<1>3. request[t].password # NoUser
  BY <1>2, AccountsConstants DEF EndInv, CourseInv
<1> QED BY <1>1, <1>2, <1>3 DEF EndInv, OwnerInv, UserVersions

LEMMA OwnerStep ==
  ASSUME EndInv, NEW h \in Calls, Shape(h)
  PROVE  OwnerInv'
<1>1. \A e \in Emails : users'[e] = NoUser => oldUsers'[e] \subseteq {NoUser}
  BY DEF Shape, Onward, EndInv, OwnerInv
<1>2. ASSUME NEW g \in Calls, g # h, stage'[g] = "readOwner" PROVE users'[Email(g)'] # NoUser
  BY <1>2, OthersStill DEF Shape, Onward, EndInv, IInv, StageInv, OwnerInv
<1>3. ASSUME stage'[h] = "readOwner" PROVE users'[Email(h)'] # NoUser
  <2>1. /\ stage[h] = "readSession"
        /\ sessions[Token(h)] # NoSession /\ Email(h)' = sessions[Token(h)]
    BY <1>3 DEF Shape, GoesOn, Answered
  <2>2. Token(h) \in Calls
    BY <2>1 DEF EndInv, IInv, StageInv
  <2> QED BY <2>1, <2>2, OwnerKnown DEF Shape, Onward
<1> QED BY <1>1, <1>2, <1>3 DEF OwnerInv

LEMMA SessionStep ==
  ASSUME EndInv, NEW h \in Calls, Shape(h)
  PROVE  SessionInv'
<1>0. CourseInv /\ TokenInv /\ SessionInv
  BY DEF EndInv
<1>1. \A t \in Calls : LoggedOut(t) => LoggedOut(t)'
  BY <1>0, SettledStays DEF LoggedOut
<1>2. ASSUME NEW t \in Calls, Issued(t)' PROVE sessions'[t] # NoSession \/ LoggedOut(t)'
  <2>1. CASE Issued(t)
    <3>1. CASE stage[h] = "delete" /\ t = Token(h)
      BY <1>0, <1>1, <3>1, SettledStays DEF CourseInv, LoggedOut
    <3>2. CASE ~(stage[h] = "delete" /\ t = Token(h))
      BY <1>0, <1>1, <2>1, <3>2 DEF Shape, Onward, SessionInv
    <3> QED BY <3>1, <3>2
  <2>2. CASE ~Issued(t)
    <3>1. Kind(t) \in {"signup", "login"} /\ answer[t] # "200" /\ answer'[t] = "200"
      BY <1>0, <1>2, <2>2, SettledStays DEF Issued
    <3>2. t = h
      BY <3>1, OthersStill DEF Shape
    <3>3. stage[h] = "newSession" /\ sessions'[h] # NoSession
      BY <3>1, <3>2 DEF Shape, GoesOn, Answered, Answers401, Answers200, EndInv, CourseInv, IInv, StageInv
    <3> QED BY <3>2, <3>3
  <2> QED BY <2>1, <2>2
<1>3. ASSUME NEW g \in Calls, Kind(g)' = "logout", answer'[g] = "200" PROVE sessions'[Token(g)'] = NoSession
  <2>1. Kind(g) = "logout" /\ Token(g)' = Token(g) /\ Token(g) \in Calls
    BY <1>0, <1>3, SettledStays DEF CourseInv
  <2>2. Issued(Token(g))
    BY <1>0, <2>1, AccountsConstants DEF TokenInv
  <2>3. CASE answer[g] = "200"
    <3>1. stage[Token(g)] # "newSession"
      BY <1>0, <2>2 DEF CourseInv, Issued
    <3>2. sessions[Token(g)] = NoSession
      BY <1>0, <2>1, <2>3 DEF SessionInv
    <3> QED BY <2>1, <3>1, <3>2 DEF Shape, Onward
  <2>4. CASE answer[g] # "200"
    <3>1. g = h
      BY <1>3, <2>4, OthersStill DEF Shape
    <3>2. stage[h] = "delete" /\ sessions'[Token(h)] = NoSession
      BY <1>3, <2>1, <2>4, <3>1 DEF Shape, GoesOn, Answered, Answers401, Answers200, EndInv, IInv, StageInv
    <3> QED BY <2>1, <3>1, <3>2
  <2> QED BY <2>3, <2>4
<1> QED BY <1>2, <1>3 DEF SessionInv

LEMMA EndedStays ==
  ASSUME CourseInv, NEW h \in Calls, Shape(h)
  PROVE  \A t \in Calls : Ended(t) => Ended(t)'
  BY SettledStays DEF Ended, Shape, Onward

\* What is asked too late is turned down where the handler reads.
LEMMA LateStep ==
  ASSUME EndInv, NEW h \in Calls, Shape(h)
  PROVE  LateInv'
<1> SUFFICES ASSUME NEW g \in late PROVE Hopeless(g)'
  BY DEF Shape, LateInv
<1>0. CourseInv /\ Hopeless(g) /\ g \in Calls
  BY DEF EndInv, IInv, TypeOK, LateInv
<1>1. Kind(g)' = Kind(g) /\ Token(g)' = Token(g)
  BY <1>0, SettledStays
<1>2. CASE Kind(g) = "signup" /\ users[Email(g)] # NoUser /\ stage[g] \in {"checkUser", "answered", "done"}
  <2>1. Email(g) \in Emails /\ Email(g)' = Email(g)
    BY <1>0, <1>2, OthersStill DEF Shape, CourseInv
  <2>2. users'[Email(g)] # NoUser
    BY <1>2, <2>1 DEF Shape, Onward
  <2>3. stage'[g] \in {"checkUser", "answered", "done"} /\ answer'[g] # "200"
    BY <1>0, <1>2, OthersStill DEF Shape, GoesOn, Answered, Answers401, Answers200, Hopeless
  <2> QED BY <1>1, <1>2, <2>1, <2>2, <2>3 DEF Hopeless
<1>3. CASE Kind(g) = "verify" /\ Ended(Token(g)) /\ stage[g] \in {"readSession", "answered", "done"}
  <2>1. PICK t \in Calls : t = Token(g) /\ Ended(t)
    BY <1>0, <1>3 DEF CourseInv
  <2>2. Ended(t)'
    BY <1>0, <2>1, EndedStays
  <2>3. t \in lapsed \/ sessions[t] = NoSession
    BY <2>1 DEF Ended, EndInv, SessionInv
  <2>4. stage'[g] \in {"readSession", "answered", "done"} /\ answer'[g] # "200"
    BY <1>0, <1>3, <2>1, <2>3, OthersStill DEF Shape, GoesOn, Answered, Answers401, Answers200, Hopeless
  <2> QED BY <1>1, <1>3, <2>1, <2>2, <2>4 DEF Hopeless, Ended, Kind, Token
<1> QED BY <1>0, <1>2, <1>3 DEF Hopeless

\* A verification is refused where it finds its session gone.
LEMMA RefusalStep ==
  ASSUME EndInv, NEW h \in Calls, Shape(h)
  PROVE  SignedInLasts'
<1> SUFFICES ASSUME NEW g \in Calls, Kind(g)' = "verify", stage'[g] = "answered", answer'[g] = "401"
             PROVE  (Token(g) \in lapsed)' \/ LoggedOut(Token(g))'
  BY DEF SignedInLasts, LoggedOut
<1>0. CourseInv
  BY DEF EndInv
<1>1. Kind(g) = "verify" /\ Token(g)' = Token(g)
  BY <1>0, SettledStays
<1>2. PICK t \in Calls : t = Token(g)
  BY <1>0, <1>1 DEF CourseInv
<1>3. t \in lapsed \/ LoggedOut(t)
  <2>1. CASE stage[g] = "answered" /\ answer[g] = "401"
    BY <1>1, <1>2, <2>1 DEF EndInv, SignedInLasts, LoggedOut
  <2>2. CASE ~(stage[g] = "answered" /\ answer[g] = "401")
    <3>1. g = h
      BY <2>2, OthersStill DEF Shape
    <3>a. Answered(h) /\ Answers401(h)
      BY <3>1 DEF Shape, GoesOn, Answered, Answers200, Answers401
    <3>2. stage[h] # "checkUser"
      BY <1>1, <3>1 DEF EndInv, IInv, StageInv
    <3>3. sessions[t] = NoSession \/ t \in lapsed
      BY <1>2, <3>1, <3>2, <3>a DEF Answers401
    <3>4. Issued(t)
      BY <1>2, AccountsConstants DEF EndInv, TokenInv
    <3> QED BY <3>3, <3>4 DEF EndInv, SessionInv
  <2> QED BY <2>1, <2>2
<1>4. LoggedOut(t) => LoggedOut(t)'
  BY <1>0, SettledStays DEF LoggedOut
<1>5. lapsed \subseteq lapsed'
  BY DEF Shape
<1> QED BY <1>1, <1>2, <1>3, <1>4, <1>5 DEF LoggedOut, Token

-----------------------------------------------------------------------------
(* Requests that come in, and sessions that lapse.                         *)

\* A request with an address and a password, or with the token of its cookie.
Asks(h, r) ==
    \/ /\ r.kind \in {"signup", "login"} /\ r.email \in Emails /\ r.password \in Passwords
       /\ r.token = Token(h)
    \/ r.kind \in {"verify", "logout"} /\ Issued(r.token)

LEMMA ReceiveEnd ==
  ASSUME EndInv, NEW h \in Calls, NEW r \in Request, Receive(h, r), Asks(h, r)
  PROVE  CourseInv' /\ TokenInv' /\ OwnerInv' /\ SessionInv' /\ LateInv' /\ SignedInLasts'
<1> USE DEF Kind, Token, Email
<1>0. /\ CourseInv /\ TokenInv /\ OwnerInv /\ SessionInv /\ LateInv /\ SignedInLasts
      /\ TypeOK /\ StageInv(h)
  BY DEF EndInv, IInv
<1>1. /\ stage[h] = "idle" /\ Kind(h) = "none" /\ answer[h] = "none"
      /\ request'[h] = r /\ stage'[h] = FirstStage(r.kind)
      /\ \A g \in Calls \ {h} : request'[g] = request[g] /\ stage'[g] = stage[g]
      /\ UNCHANGED <<tables, lapsed, cookie, answer>>
      /\ late' = IF TooLate(r) THEN late \cup {h} ELSE late
  BY <1>0 DEF TypeOK, StageInv, CourseInv, Receive, Goto
<1>2. stage'[h] = IF r.kind \in {"signup", "login"} THEN "checkUser"
                  ELSE IF r.kind = "verify" THEN "readSession" ELSE "delete"
  BY <1>1 DEF Asks, FirstStage
<1>3. CourseInv'
  BY <1>0, <1>1, <1>2 DEF CourseInv, Asks, Issued
<1>4. \A t \in Calls : Issued(t) <=> Issued(t)'
  BY <1>1 DEF Issued
<1>5. TokenInv'
  <2>1. \A b \in Browsers : cookie'[b] # NoSession => Issued(cookie[b])'
    BY <1>0, <1>1, <1>4 DEF TokenInv, Issued
  <2>2. \A g \in Calls : Token(g)' # NoSession => Token(g)' \in Calls /\ Issued(Token(g)')
    BY <1>0, <1>1 DEF TokenInv, Issued, Asks
  <2>3. \A g \in Calls : Token(g)' # NoSession => Issued(Token(g))'
    <3> SUFFICES ASSUME NEW g \in Calls, Token(g)' # NoSession PROVE Issued(Token(g))'
      OBVIOUS
    <3>1. PICK t \in Calls : t = Token(g)' /\ Issued(t)'
      BY <1>4, <2>2
    <3> QED BY <3>1 DEF Issued
  <2> QED BY <2>1, <2>3 DEF TokenInv
<1>6. OwnerInv'
  BY <1>0, <1>1, <1>2 DEF OwnerInv, tables
<1>7. \A t : LoggedOut(t) => LoggedOut(t)'
  BY <1>1 DEF LoggedOut
<1>8. SessionInv'
  BY <1>0, <1>1, <1>4, <1>7 DEF SessionInv, tables
<1>9. LateInv'
  <2>1. \A t : Ended(t) => Ended(t)'
    BY <1>1 DEF Ended
  <2>2. \A g \in late : g # h
    BY <1>0, <1>1 DEF LateInv, Hopeless
  <2>3. \A g \in late : Hopeless(g)'
    BY <1>0, <1>1, <2>1, <2>2 DEF LateInv, Hopeless, Ended, TypeOK, tables
  <2>4. TooLate(r) => Hopeless(h)'
    BY <1>1, <1>2, <2>1 DEF TooLate, Hopeless, Ended, tables
  <2> QED BY <1>1, <2>3, <2>4 DEF LateInv
<1>10. SignedInLasts'
  BY <1>0, <1>1 DEF SignedInLasts
<1> QED BY <1>3, <1>5, <1>6, <1>8, <1>9, <1>10

LEMMA AskEnd ==
  ASSUME EndInv, NEW h \in Calls, EnterPassword(h) \/ PresentCookie(h)
  PROVE  CourseInv' /\ TokenInv' /\ OwnerInv' /\ SessionInv' /\ LateInv' /\ SignedInLasts'
<1>1. request[h] \in Request /\ request[h].browser \in Browsers
  BY DEF EndInv, IInv, TypeOK, Request
<1>2. CASE EnterPassword(h)
  <2>1. PICK k \in {"signup", "login"}, e \in Emails, p \in Passwords :
          Receive(h, [request[h] EXCEPT !.kind = k, !.email = e, !.password = p])
    BY <1>2 DEF EnterPassword
  <2> DEFINE r == [request[h] EXCEPT !.kind = k, !.email = e, !.password = p]
  <2>2. r \in Request /\ Asks(h, r)
    BY <1>1 DEF Request, Kinds, Asks, Token
  <2>3. Receive(h, r)
    BY <2>1
  <2> HIDE DEF r
  <2> QED BY <2>2, <2>3, ReceiveEnd
<1>3. CASE PresentCookie(h)
  <2>1. PICK k \in {"verify", "logout"}, t \in {cookie[request[h].browser]} \ {NoSession} :
          Receive(h, [request[h] EXCEPT !.kind = k, !.token = t])
    BY <1>3 DEF PresentCookie
  <2> DEFINE r == [request[h] EXCEPT !.kind = k, !.token = t]
  <2>2. Issued(t)
    BY <1>1 DEF EndInv, TokenInv
  <2>3. r \in Request /\ Asks(h, r)
    BY <1>1, <2>2 DEF Request, Kinds, Asks, Issued
  <2>4. Receive(h, r)
    BY <2>1
  <2> HIDE DEF r
  <2> QED BY <2>3, <2>4, ReceiveEnd
<1> QED BY <1>2, <1>3

LEMMA LapseEnd ==
  ASSUME EndInv, NEW t \in Calls, Expire(t)
  PROVE  CourseInv' /\ TokenInv' /\ OwnerInv' /\ SessionInv' /\ LateInv' /\ SignedInLasts'
  BY DEF EndInv, Expire, tables, CourseInv, TokenInv, OwnerInv, SessionInv, LateInv, SignedInLasts,
         Issued, LoggedOut, Hopeless, Ended, Kind, Token, Email

LEMMA NextEnd == StaleReads = FALSE /\ EndInv /\ [Next]_vars => EndInv'
<1> SUFFICES ASSUME StaleReads = FALSE, EndInv, [Next]_vars PROVE EndInv'
  OBVIOUS
<1>0. IInv'
  BY NextInv DEF EndInv
<1>1. ASSUME NEW h \in Calls, Handle(h) PROVE EndInv'
  <2>1. Shape(h)
    BY <1>1, HandleShape
  <2> QED BY <1>0, <2>1, CourseStep, TokenStep, OwnerStep, SessionStep, LateStep, RefusalStep DEF EndInv
<1>2. ASSUME NEW h \in Calls, EnterPassword(h) \/ PresentCookie(h) PROVE EndInv'
  BY <1>0, <1>2, AskEnd DEF EndInv
<1>3. ASSUME NEW t \in Calls, Expire(t) PROVE EndInv'
  BY <1>0, <1>3, LapseEnd DEF EndInv
<1>4. CASE UNCHANGED vars
  <2>1. CourseInv' /\ TokenInv' /\ OwnerInv'
    BY <1>4 DEF EndInv, vars, CourseInv, TokenInv, OwnerInv, Issued, Kind, Token, Email
  <2>2. SessionInv' /\ SignedInLasts'
    BY <1>4 DEF EndInv, vars, SessionInv, SignedInLasts, Issued, LoggedOut, Kind, Token
  <2>3. LateInv'
    BY <1>4 DEF EndInv, vars, LateInv, Hopeless, Ended, Kind, Token, Email
  <2> QED BY <1>0, <2>1, <2>2, <2>3 DEF EndInv
<1> QED BY <1>1, <1>2, <1>3, <1>4 DEF Next, Quiescent

-----------------------------------------------------------------------------

LEMMA EndHolds == StaleReads = FALSE => (Spec => []EndInv)
<1> SUFFICES ASSUME StaleReads = FALSE PROVE Spec => []EndInv
  OBVIOUS
<1>1. EndInv /\ [Next]_vars => EndInv'
  BY NextEnd
<1> QED BY <1>1, InitEnd, PTL DEF Spec

\* On consistent tables, a sign-up of an address that has an account and a
\* verification of a token that has lapsed or whose logout was answered never
\* succeed, whatever overlaps and fails (model.go:67-75, 113-128).
THEOREM TooLateIsRefused == StaleReads = FALSE => (Spec => []LateIsRefused)
<1> SUFFICES ASSUME StaleReads = FALSE PROVE Spec => []LateIsRefused
  OBVIOUS
<1>1. EndInv => LateIsRefused
  BY DEF EndInv, LateInv, Hopeless, LateIsRefused
<1>2. Spec => []EndInv
  BY EndHolds
<1> QED BY <1>1, <1>2, PTL

\* On consistent tables, a token is refused only if it has lapsed or somebody has
\* asked to log out with it (model.go:113-128).
THEOREM SignInLasts == StaleReads = FALSE => (Spec => []SignedInLasts)
<1> SUFFICES ASSUME StaleReads = FALSE PROVE Spec => []SignedInLasts
  OBVIOUS
<1>1. EndInv => SignedInLasts
  BY DEF EndInv
<1>2. Spec => []EndInv
  BY EndHolds
<1> QED BY <1>1, <1>2, PTL
====
