-------------------------- MODULE PythonPage_proofs --------------------------
(***************************************************************************)
(* Proofs about the Python IDE page.  Its sessions (PythonSessions):       *)
(* signing out is final, and the session store and the browser's cookies   *)
(* agree, for any number of tokens and overlapping requests and any        *)
(* lifetime of sessions.  Its output (PythonOutput): the pane shows what a *)
(* script wrote, for any texts, any limit, any cuts by buffer and network, *)
(* and any number of runs, as long as they do not overlap.                 *)
(*                                                                         *)
(* The invariant of the output follows the bytes of a run: the pane has    *)
(* the first ones, the decoder at most one more, each block that is under  *)
(* way those that follow, and together they are the bytes of the buffer.   *)
(***************************************************************************)
EXTENDS PythonSessions, PythonOutput, SequenceTheorems, TLAPS

-----------------------------------------------------------------------------
(* Sessions: the inductive invariant *)

Sent == [at     : {"sent", "clock", "revoke", "response"},
         kind   : {"page", "login", "logout"},
         cookie : Tokens \cup {None},
         out    : BOOLEAN,
         basic  : BOOLEAN,
         late   : BOOLEAN,
         time   : Nat \cup {None},
         result : Tokens \cup {None, "session", "basic"}]

TypeOK ==
    /\ now \in Nat
    /\ sessions \in [Tokens -> Nat \cup {None}]
    /\ request \in [Requests -> {Idle} \cup Sent]
    /\ cookie \in Tokens \cup {None}
    /\ loggedOut \in BOOLEAN /\ basic \in BOOLEAN
    /\ born \in [Tokens -> Nat \cup {None}]
    /\ abandoned \in SUBSET Tokens
    /\ serial \in BOOLEAN /\ signedOut \in BOOLEAN

\* What a request has found out, by where its handler is.
Progress(r) ==
    /\ r.at = "sent" => r.result = None
    /\ r.at = "clock" =>
           r.kind # "logout" /\ r.result = None /\ r.time \in Nat /\ r.time <= now
    /\ r.at = "revoke" => r.kind = "login" /\ r.result \in Tokens
    /\ r.at = "response" =>
           /\ r.kind = "login" => r.result \in Tokens \cup {None}
           /\ r.kind = "page" => r.time \in Nat
Progresses == \A q \in Busy : Progress(request[q])

\* A user who has signed out has no session cookie, and Basic credentials only
\* beside the logout cookie; so has every request sent since.
Out ==
    /\ signedOut => cookie = None /\ (loggedOut \/ ~basic)
    /\ \A q \in Busy :
           request[q].late => /\ request[q].kind = "page"
                              /\ request[q].cookie = None
                              /\ request[q].out \/ ~request[q].basic

\* An entry of the store says when the session was created.
Stored == \A k \in Tokens : sessions[k] # None =>
              born[k] # None /\ sessions[k] = born[k] + Lifetime

Expired(k) == now >= born[k] + Lifetime

\* The token of a login that is on its way to the browser.
Carries(q, k) == q \in Busy /\ request[q].kind = "login" /\ request[q].result = k

\* Such a token is known to nobody else and works until it expires.
Fresh ==
    \A q \in Requests, k \in Tokens : Carries(q, k) =>
        /\ born[k] # None
        /\ sessions[k] # None \/ Expired(k)
        /\ cookie # k
        /\ \A p \in Busy : request[p].cookie # k /\ (Carries(p, k) => p = q)

\* A response that tells the browser to forget the session it had.
Replaces(q, k) ==
    /\ q \in Busy
    /\ request[q].at = "response" /\ request[q].cookie = k
    /\ \/ request[q].kind = "logout"
       \/ request[q].kind = "login" /\ request[q].result # None

\* The session in the jar is in the store until it expires, unless such a
\* response is under way or was lost.
Jar ==
    cookie # None =>
        /\ ~loggedOut
        /\ born[cookie] # None
        /\ \/ sessions[cookie] # None \/ Expired(cookie)
           \/ cookie \in abandoned
           \/ \E q \in Requests : Replaces(q, cookie)

\* Requests carry tokens that were drawn.
Drawn == \A q \in Busy : request[q].cookie # None => born[request[q].cookie] # None

\* While requests wait for each other, the sessions that live are the one in
\* the jar and the one on its way there, and the former not once the latter
\* comes back.
OneByOne ==
    serial =>
        /\ \A p, q \in Busy : p = q
        /\ Busy = {} => \A k \in Tokens : Alive(k, now) => k = cookie
        /\ \A q \in Busy :
               /\ cookie \in {None, request[q].cookie}
               /\ \A k \in Tokens : Alive(k, now) => k = cookie \/ Carries(q, k)
               /\ \A k \in Tokens : Alive(k, now) => ~Replaces(q, cookie)
                                     \/ Carries(q, k)

\* What a page request was told.
Verdicts ==
    \A q \in Busy :
        request[q].at = "response" /\ request[q].kind = "page" =>
            /\ request[q].late => request[q].result = None
            /\ request[q].result = "session" =>
                   /\ request[q].cookie # None
                   /\ request[q].time < born[request[q].cookie] + Lifetime

IInv == /\ TypeOK /\ Progresses /\ Out /\ Stored /\ Fresh /\ Jar
        /\ Drawn /\ OneByOne /\ Verdicts

-----------------------------------------------------------------------------
(* Sessions: facts that the steps rest on *)

\* What the type says of a request that is under way.
LEMMA BusyType ==
    ASSUME TypeOK, NEW q \in Requests
    PROVE  /\ q \in Busy => request[q] \in Sent
           /\ q \in Busy <=> request[q].at # "idle"
BY DEF TypeOK, Busy, Idle, Sent

-----------------------------------------------------------------------------
(* Sessions: the steps *)

\* Every step keeps the types.
LEMMA StepTyped ==
    TypeOK /\ Progresses /\ [Next]_vars => TypeOK'
<1> SUFFICES ASSUME TypeOK /\ Progresses, [Next]_vars
             PROVE  TypeOK'
  OBVIOUS
<1> USE SessionConstants, BusyType DEF TypeOK, Progresses, Progress, Sent,
     Idle, browser, history
<1>1. CASE Tick
  BY <1>1 DEF Tick
<1>2. CASE EnterBasic
  BY <1>2 DEF EnterBasic
<1>3. CASE Restart
  BY <1>3 DEF Restart
<1>4. CASE CookieExpires
  BY <1>4 DEF CookieExpires
<1>5. ASSUME NEW q \in Requests, NEW kind \in {"page", "login", "logout"},
             Send(q, kind)
      PROVE  TypeOK'
  BY <1>5 DEF Send
<1>6. ASSUME NEW q \in Requests, Receive(q)
      PROVE  TypeOK'
  BY <1>6 DEF Receive, SignedOut
<1>7. ASSUME NEW q \in Requests, Lose(q)
      PROVE  TypeOK'
  <2>1. request[q].cookie \in Tokens \cup {None}
    <3>1. request[q].at # "idle"
      BY <1>7 DEF Lose
    <3>2. request[q] \in Sent
      BY ONLY <3>1, q \in Requests, TypeOK, BusyType
    <3>3. QED
      BY ONLY <3>2 DEF Sent
  <2>2. request' \in [Requests -> {Idle} \cup Sent]
    BY <1>7 DEF Lose
  <2>3. abandoned' \in SUBSET Tokens
    BY <1>7, <2>1 DEF Lose
  <2>4. QED
    BY <1>7, <2>2, <2>3 DEF Lose
<1>8. ASSUME NEW q \in Requests, ReadClock(q)
      PROVE  TypeOK'
  <2>1. q \in Busy /\ request[q] \in Sent
    <3>1. request[q].at # "idle"
      BY <1>8 DEF ReadClock
    <3>2. QED
      BY ONLY <3>1, q \in Requests, TypeOK, BusyType
  <2>2. request'[q] \in Sent
    <3>1. request'[q] = [request[q] EXCEPT !.at = "clock", !.time = now]
      BY <1>8 DEF ReadClock
    <3>2. now \in Nat
      OBVIOUS
    <3>3. QED
      BY ONLY <2>1, <3>1, <3>2 DEF Sent
  <2>3. QED
    BY <1>8, <2>2 DEF ReadClock
<1>9. ASSUME NEW q \in Requests, LoginRefused(q)
      PROVE  TypeOK'
  BY <1>9 DEF LoginRefused, To
<1>10. ASSUME NEW q \in Requests, NEW k \in Tokens, Create(q, k)
      PROVE  TypeOK'
  BY <1>10 DEF Create, Swept, Alive
<1>11. ASSUME NEW q \in Requests, Rotate(q)
      PROVE  TypeOK'
  BY <1>11 DEF Rotate, To, Revoked
<1>12. ASSUME NEW q \in Requests, Logout(q)
      PROVE  TypeOK'
  BY <1>12 DEF Logout, To, Revoked
<1>13. ASSUME NEW q \in Requests, Authenticate(q)
      PROVE  TypeOK'
  <2>1. Accepts(request[q]) \in {None, "session", "basic"}
    BY DEF Accepts
  <2>2. request[q] \in Sent /\ request'[q] \in Sent
    <3>1. q \in Busy /\ request[q] \in Sent
      <4>1. request[q].at # "idle"
        BY <1>13 DEF Authenticate
      <4>2. QED
        BY ONLY <4>1, q \in Requests, TypeOK, BusyType
    <3>2. request'[q] = [request[q] EXCEPT !.at = "response",
                                          !.result = Accepts(request[q])]
      BY <1>13 DEF Authenticate
    <3>3. QED
      BY ONLY <2>1, <3>1, <3>2 DEF Sent
  <2>3. sessions' \in [Tokens -> Nat \cup {None}]
    BY <1>13, <2>2 DEF Authenticate, Revoked
  <2>4. QED
    BY <1>13, <2>2, <2>3 DEF Authenticate
<1>14. CASE UNCHANGED vars
  BY <1>14 DEF vars
<1> HIDE DEF TypeOK, Progresses, Progress, Sent, Idle
<1>15. QED
  BY <1>1, <1>2, <1>3, <1>4, <1>5, <1>6, <1>7, <1>8, <1>9, <1>10, <1>11,
     <1>12, <1>13, <1>14 DEF Next

\* A handler has the clock and the token it needs at each of its steps
\* (ReadClock, Create, Rotate).
LEMMA StepProgress ==
    TypeOK /\ Progresses /\ [Next]_vars => Progresses'
<1> SUFFICES ASSUME TypeOK /\ Progresses, [Next]_vars
             PROVE  Progresses'
  OBVIOUS
<1> USE SessionConstants, BusyType DEF TypeOK, Progresses, Progress, Sent,
     Idle, Busy, browser, history
<1>1. CASE Tick
  BY <1>1 DEF Tick
<1>2. CASE EnterBasic
  BY <1>2 DEF EnterBasic
<1>3. CASE Restart
  BY <1>3 DEF Restart
<1>4. CASE CookieExpires
  BY <1>4 DEF CookieExpires
<1>5. ASSUME NEW q \in Requests, NEW kind \in {"page", "login", "logout"},
             Send(q, kind)
      PROVE  Progresses'
  BY <1>5 DEF Send
<1>6. ASSUME NEW q \in Requests, Receive(q)
      PROVE  Progresses'
  BY <1>6 DEF Receive, SignedOut
<1>7. ASSUME NEW q \in Requests, Lose(q)
      PROVE  Progresses'
  BY <1>7 DEF Lose
<1>8. ASSUME NEW q \in Requests, ReadClock(q)
      PROVE  Progresses'
  BY <1>8 DEF ReadClock
<1>9. ASSUME NEW q \in Requests, LoginRefused(q)
      PROVE  Progresses'
  BY <1>9 DEF LoginRefused, To
<1>10. ASSUME NEW q \in Requests, NEW k \in Tokens, Create(q, k)
      PROVE  Progresses'
  BY <1>10 DEF Create, Swept, Alive
<1>11. ASSUME NEW q \in Requests, Rotate(q)
      PROVE  Progresses'
  BY <1>11 DEF Rotate, To, Revoked
<1>12. ASSUME NEW q \in Requests, Logout(q)
      PROVE  Progresses'
  BY <1>12 DEF Logout, To, Revoked
<1>13. ASSUME NEW q \in Requests, Authenticate(q)
      PROVE  Progresses'
  BY <1>13 DEF Authenticate, To, Accepts, Revoked, Alive
<1>14. CASE UNCHANGED vars
  BY <1>14 DEF vars
<1> HIDE DEF TypeOK, Progresses, Progress, Sent, Idle, Busy
<1>15. QED
  BY <1>1, <1>2, <1>3, <1>4, <1>5, <1>6, <1>7, <1>8, <1>9, <1>10, <1>11,
     <1>12, <1>13, <1>14 DEF Next

\* Only signing in or entering credentials takes the signed-out browser out
\* of the state in which no request of its can be let in.
LEMMA StepOut ==
    TypeOK /\ Out /\ [Next]_vars => Out'
<1> SUFFICES ASSUME TypeOK /\ Out, [Next]_vars
             PROVE  Out'
  OBVIOUS
<1> USE SessionConstants, BusyType DEF TypeOK, Out, Sent, Idle, Busy, browser,
     history
<1>1. CASE Tick
  BY <1>1 DEF Tick
<1>2. CASE EnterBasic
  BY <1>2 DEF EnterBasic
<1>3. CASE Restart
  BY <1>3 DEF Restart
<1>4. CASE CookieExpires
  BY <1>4 DEF CookieExpires
<1>5. ASSUME NEW q \in Requests, NEW kind \in {"page", "login", "logout"},
             Send(q, kind)
      PROVE  Out'
  <2>1. /\ request'[q].late = (kind = "page" /\ signedOut)
        /\ request'[q].kind = kind /\ request'[q].cookie = cookie
        /\ request'[q].out = (kind = "page" /\ loggedOut)
        /\ request'[q].basic = (kind = "page" /\ basic)
    BY <1>5 DEF Send
  <2>2. /\ \A p \in Requests : p # q => request'[p] = request[p]
        /\ UNCHANGED <<browser, signedOut>>
    BY <1>5 DEF Send
  <2>3. ASSUME NEW p \in Busy'
        PROVE  request'[p].late => /\ request'[p].kind = "page"
                                   /\ request'[p].cookie = None
                                   /\ request'[p].out \/ ~request'[p].basic
    <3>1. CASE p = q
      BY <2>1, <3>1
    <3>2. CASE p # q
      BY <2>2, <3>2
    <3>3. QED
      BY <3>1, <3>2
  <2>4. QED
    BY <2>2, <2>3
<1>6. ASSUME NEW q \in Requests, Receive(q)
      PROVE  Out'
  BY <1>6 DEF Receive, SignedOut
<1>7. ASSUME NEW q \in Requests, Lose(q)
      PROVE  Out'
  BY <1>7 DEF Lose
<1>8. ASSUME NEW q \in Requests, ReadClock(q)
      PROVE  Out'
  BY <1>8 DEF ReadClock
<1>9. ASSUME NEW q \in Requests, LoginRefused(q)
      PROVE  Out'
  BY <1>9 DEF LoginRefused, To
<1>10. ASSUME NEW q \in Requests, NEW k \in Tokens, Create(q, k)
      PROVE  Out'
  BY <1>10 DEF Create, Swept, Alive
<1>11. ASSUME NEW q \in Requests, Rotate(q)
      PROVE  Out'
  BY <1>11 DEF Rotate, To, Revoked
<1>12. ASSUME NEW q \in Requests, Logout(q)
      PROVE  Out'
  BY <1>12 DEF Logout, To, Revoked
<1>13. ASSUME NEW q \in Requests, Authenticate(q)
      PROVE  Out'
  BY <1>13 DEF Authenticate, To, Accepts, Revoked, Alive
<1>14. CASE UNCHANGED vars
  BY <1>14 DEF vars
<1> HIDE DEF TypeOK, Out, Sent, Idle, Busy
<1>15. QED
  BY <1>1, <1>2, <1>3, <1>4, <1>5, <1>6, <1>7, <1>8, <1>9, <1>10, <1>11,
     <1>12, <1>13, <1>14 DEF Next

\* create is the only one to store an expiry, and stores the time of creation
\* plus the lifetime; everybody else deletes.
LEMMA StepStored ==
    TypeOK /\ Progresses /\ Stored /\ [Next]_vars => Stored'
<1> SUFFICES ASSUME TypeOK /\ Progresses /\ Stored, [Next]_vars
             PROVE  Stored'
  OBVIOUS
<1> USE SessionConstants, BusyType DEF TypeOK, Progresses, Progress, Stored,
     browser, history
<1>1. CASE Tick
  BY <1>1 DEF Tick
<1>2. CASE EnterBasic
  BY <1>2 DEF EnterBasic
<1>3. CASE Restart
  BY <1>3 DEF Restart
<1>4. CASE CookieExpires
  BY <1>4 DEF CookieExpires
<1>5. ASSUME NEW q \in Requests, NEW kind \in {"page", "login", "logout"},
             Send(q, kind)
      PROVE  Stored'
  BY <1>5 DEF Send
<1>6. ASSUME NEW q \in Requests, Receive(q)
      PROVE  Stored'
  BY <1>6 DEF Receive, SignedOut
<1>7. ASSUME NEW q \in Requests, Lose(q)
      PROVE  Stored'
  BY <1>7 DEF Lose
<1>8. ASSUME NEW q \in Requests, ReadClock(q)
      PROVE  Stored'
  BY <1>8 DEF ReadClock
<1>9. ASSUME NEW q \in Requests, LoginRefused(q)
      PROVE  Stored'
  BY <1>9 DEF LoginRefused, To
<1>10. ASSUME NEW q \in Requests, NEW k \in Tokens, Create(q, k)
      PROVE  Stored'
  BY <1>10 DEF Create, Swept, Alive
<1>11. ASSUME NEW q \in Requests, Rotate(q)
      PROVE  Stored'
  BY <1>11 DEF Rotate, To, Revoked
<1>12. ASSUME NEW q \in Requests, Logout(q)
      PROVE  Stored'
  BY <1>12 DEF Logout, To, Revoked
<1>13. ASSUME NEW q \in Requests, Authenticate(q)
      PROVE  Stored'
  BY <1>13 DEF Authenticate, To, Accepts, Revoked, Alive
<1>14. CASE UNCHANGED vars
  BY <1>14 DEF vars
<1> HIDE DEF TypeOK, Progresses, Progress, Stored
<1>15. QED
  BY <1>1, <1>2, <1>3, <1>4, <1>5, <1>6, <1>7, <1>8, <1>9, <1>10, <1>11,
     <1>12, <1>13, <1>14 DEF Next

\* A request can only carry a token that create has drawn.
LEMMA StepDrawn ==
    TypeOK /\ Jar /\ Drawn /\ [Next]_vars => Drawn'
<1> SUFFICES ASSUME TypeOK /\ Jar /\ Drawn, [Next]_vars
             PROVE  Drawn'
  OBVIOUS
<1> USE SessionConstants, BusyType DEF TypeOK, Jar, Drawn, Busy, Idle,
     browser, history
<1>1. CASE Tick
  BY <1>1 DEF Tick
<1>2. CASE EnterBasic
  BY <1>2 DEF EnterBasic
<1>3. CASE Restart
  BY <1>3 DEF Restart
<1>4. CASE CookieExpires
  BY <1>4 DEF CookieExpires
<1>5. ASSUME NEW q \in Requests, NEW kind \in {"page", "login", "logout"},
             Send(q, kind)
      PROVE  Drawn'
  BY <1>5 DEF Send
<1>6. ASSUME NEW q \in Requests, Receive(q)
      PROVE  Drawn'
  BY <1>6 DEF Receive, SignedOut
<1>7. ASSUME NEW q \in Requests, Lose(q)
      PROVE  Drawn'
  BY <1>7 DEF Lose
<1>8. ASSUME NEW q \in Requests, ReadClock(q)
      PROVE  Drawn'
  BY <1>8 DEF ReadClock
<1>9. ASSUME NEW q \in Requests, LoginRefused(q)
      PROVE  Drawn'
  BY <1>9 DEF LoginRefused, To
<1>10. ASSUME NEW q \in Requests, NEW k \in Tokens, Create(q, k)
      PROVE  Drawn'
  BY <1>10 DEF Create, Swept, Alive
<1>11. ASSUME NEW q \in Requests, Rotate(q)
      PROVE  Drawn'
  BY <1>11 DEF Rotate, To, Revoked
<1>12. ASSUME NEW q \in Requests, Logout(q)
      PROVE  Drawn'
  BY <1>12 DEF Logout, To, Revoked
<1>13. ASSUME NEW q \in Requests, Authenticate(q)
      PROVE  Drawn'
  BY <1>13 DEF Authenticate, To, Accepts, Revoked, Alive
<1>14. CASE UNCHANGED vars
  BY <1>14 DEF vars
<1> HIDE DEF TypeOK, Jar, Drawn, Busy, Idle
<1>15. QED
  BY <1>1, <1>2, <1>3, <1>4, <1>5, <1>6, <1>7, <1>8, <1>9, <1>10, <1>11,
     <1>12, <1>13, <1>14 DEF Next

\* A token that was drawn for a login stays its own, and its session lives,
\* until the response arrives: nobody can revoke it before.
LEMMA StepFresh ==
    TypeOK /\ Progresses /\ Stored /\ Fresh /\ Jar /\ Drawn /\ [Next]_vars => Fresh'
<1> SUFFICES ASSUME TypeOK /\ Progresses /\ Stored /\ Fresh /\ Jar /\ Drawn, [Next]_vars
             PROVE  Fresh'
  OBVIOUS
<1> USE SessionConstants, BusyType DEF TypeOK, Progresses, Progress, Stored,
     Fresh, Jar, Drawn, Busy, Idle, Carries, Expired, browser, history
<1>1. CASE Tick
  BY <1>1 DEF Tick
<1>2. CASE EnterBasic
  BY <1>2 DEF EnterBasic
<1>3. CASE Restart
  BY <1>3 DEF Restart
<1>4. CASE CookieExpires
  BY <1>4 DEF CookieExpires
<1>5. ASSUME NEW q \in Requests, NEW kind \in {"page", "login", "logout"},
             Send(q, kind)
      PROVE  Fresh'
  BY <1>5 DEF Send
<1>6. ASSUME NEW q \in Requests, Receive(q)
      PROVE  Fresh'
  BY <1>6 DEF Receive, SignedOut
<1>7. ASSUME NEW q \in Requests, Lose(q)
      PROVE  Fresh'
  BY <1>7 DEF Lose
<1>8. ASSUME NEW q \in Requests, ReadClock(q)
      PROVE  Fresh'
  BY <1>8 DEF ReadClock
<1>9. ASSUME NEW q \in Requests, LoginRefused(q)
      PROVE  Fresh'
  BY <1>9 DEF LoginRefused, To
<1>10. ASSUME NEW q \in Requests, NEW k \in Tokens, Create(q, k)
      PROVE  Fresh'
  BY <1>10 DEF Create, Swept, Alive
<1>11. ASSUME NEW q \in Requests, Rotate(q)
      PROVE  Fresh'
  BY <1>11 DEF Rotate, To, Revoked
<1>12. ASSUME NEW q \in Requests, Logout(q)
      PROVE  Fresh'
  BY <1>12 DEF Logout, To, Revoked
<1>13. ASSUME NEW q \in Requests, Authenticate(q)
      PROVE  Fresh'
  <2>1. \A p \in Requests : /\ p \in Busy' <=> p \in Busy
                            /\ request'[p].cookie = request[p].cookie
                            /\ request'[p].kind = request[p].kind
                            /\ request[p].kind # "page" => request'[p] = request[p]
    <3>1. request[q].at # "idle" /\ request[q].kind = "page"
      BY <1>13 DEF Authenticate
    <3>2. request[q] \in Sent
      BY ONLY <3>1, q \in Requests, TypeOK, BusyType
    <3>3. /\ request'[q] = [request[q] EXCEPT !.at = "response",
                                             !.result = Accepts(request[q])]
          /\ \A p \in Requests \ {q} : request'[p] = request[p]
      BY <1>13 DEF Authenticate
    <3>4. /\ request'[q].cookie = request[q].cookie
          /\ request'[q].kind = request[q].kind
          /\ request[q].at # "idle" /\ request'[q].at # "idle"
      BY ONLY <3>1, <3>2, <3>3 DEF Sent
    <3>5. \A p \in Requests : request'[p] = request[p] => (p \in Busy' <=> p \in Busy)
      BY ONLY DEF Busy
    <3>6. q \in Busy' /\ q \in Busy
      BY ONLY <3>4, q \in Requests DEF Busy, Idle
    <3>7. QED
      BY ONLY <3>1, <3>3, <3>4, <3>5, <3>6
  <2>2. request[q].kind = "page" /\ q \in Busy
    <3>1. request[q].at = "clock" /\ request[q].kind = "page"
      BY <1>13 DEF Authenticate
    <3>2. QED
      BY ONLY <3>1, q \in Requests DEF Busy, Idle
  <2>3. \A p \in Requests, k \in Tokens : Carries(p, k)' => Carries(p, k)
    BY <2>1, <2>2
  <2>4. \A k \in Tokens : request[q].cookie # k => sessions'[k] = sessions[k]
    BY <1>13 DEF Authenticate, Revoked
  <2>5. UNCHANGED <<now, cookie, born>>
    BY <1>13 DEF Authenticate
  <2>6. QED
    BY <2>1, <2>2, <2>3, <2>4, <2>5
<1>14. CASE UNCHANGED vars
  BY <1>14 DEF vars
<1> HIDE DEF TypeOK, Progresses, Progress, Stored, Fresh, Jar, Drawn, Busy,
     Idle, Carries, Expired
<1>15. QED
  BY <1>1, <1>2, <1>3, <1>4, <1>5, <1>6, <1>7, <1>8, <1>9, <1>10, <1>11,
     <1>12, <1>13, <1>14 DEF Next

\* The session in the jar ends only by a request that carried its cookie, and
\* the response to that one is under way or was lost.
LEMMA StepJar ==
    TypeOK /\ Progresses /\ Stored /\ Fresh /\ Jar /\ [Next]_vars => Jar'
<1> SUFFICES ASSUME TypeOK /\ Progresses /\ Stored /\ Fresh /\ Jar, [Next]_vars
             PROVE  Jar'
  OBVIOUS
<1> USE SessionConstants, BusyType DEF TypeOK, Progresses, Progress, Stored,
     Fresh, Jar, Busy, Idle, Carries, Expired, Replaces, browser, history
<1>1. CASE Tick
  BY <1>1 DEF Tick
<1>2. CASE EnterBasic
  BY <1>2 DEF EnterBasic
<1>3. CASE Restart
  BY <1>3 DEF Restart
<1>4. CASE CookieExpires
  BY <1>4 DEF CookieExpires
<1>5. ASSUME NEW q \in Requests, NEW kind \in {"page", "login", "logout"},
             Send(q, kind)
      PROVE  Jar'
  BY <1>5 DEF Send
<1>6. ASSUME NEW q \in Requests, Receive(q)
      PROVE  Jar'
  BY <1>6 DEF Receive, SignedOut
<1>7. ASSUME NEW q \in Requests, Lose(q)
      PROVE  Jar'
  BY <1>7 DEF Lose
<1>8. ASSUME NEW q \in Requests, ReadClock(q)
      PROVE  Jar'
  BY <1>8 DEF ReadClock
<1>9. ASSUME NEW q \in Requests, LoginRefused(q)
      PROVE  Jar'
  BY <1>9 DEF LoginRefused, To
<1>10. ASSUME NEW q \in Requests, NEW k \in Tokens, Create(q, k)
      PROVE  Jar'
  BY <1>10 DEF Create, Swept, Alive
<1>11. ASSUME NEW q \in Requests, Rotate(q)
      PROVE  Jar'
  BY <1>11 DEF Rotate, To, Revoked
<1>12. ASSUME NEW q \in Requests, Logout(q)
      PROVE  Jar'
  BY <1>12 DEF Logout, To, Revoked
<1>13. ASSUME NEW q \in Requests, Authenticate(q)
      PROVE  Jar'
  <2>1. /\ UNCHANGED <<now, cookie, loggedOut, born, abandoned>>
        /\ \A k \in Tokens : sessions'[k] # None => sessions[k] # None
        /\ \A p \in Requests : p # q => request'[p] = request[p]
        /\ request[q].kind = "page"
    BY <1>13 DEF Authenticate, Revoked
  <2>2. \A k \in Tokens : sessions[k] # None => sessions'[k] # None \/ Expired(k)
    BY <1>13 DEF Authenticate, Accepts, Revoked, Alive
  <2>3. \A p \in Requests : Replaces(p, cookie) => Replaces(p, cookie)'
    BY <2>1
  <2>4. QED
    BY <2>1, <2>2, <2>3
<1>14. CASE UNCHANGED vars
  BY <1>14 DEF vars
<1> HIDE DEF TypeOK, Progresses, Progress, Stored, Fresh, Jar, Busy, Idle,
     Carries, Expired, Replaces
<1>15. QED
  BY <1>1, <1>2, <1>3, <1>4, <1>5, <1>6, <1>7, <1>8, <1>9, <1>10, <1>11,
     <1>12, <1>13, <1>14 DEF Next

\* With one request at a time, a login leaves one session alive: the sweep,
\* the rotation and the new cookie end the others.
LEMMA StepOneByOne ==
    TypeOK /\ Progresses /\ Stored /\ OneByOne /\ [Next]_vars => OneByOne'
<1> SUFFICES ASSUME TypeOK /\ Progresses /\ Stored /\ OneByOne, [Next]_vars
             PROVE  OneByOne'
  OBVIOUS
<1> USE SessionConstants, BusyType DEF TypeOK, Progresses, Progress, Stored,
     OneByOne, Busy, Idle, Carries, Replaces, Alive, browser, history
<1>1. CASE Tick
  BY <1>1 DEF Tick
<1>2. CASE EnterBasic
  BY <1>2 DEF EnterBasic
<1>3. CASE Restart
  BY <1>3 DEF Restart
<1>4. CASE CookieExpires
  BY <1>4 DEF CookieExpires
<1>5. ASSUME NEW q \in Requests, NEW kind \in {"page", "login", "logout"},
             Send(q, kind)
      PROVE  OneByOne'
  <2>1. /\ request'[q].at = "sent" /\ request'[q].cookie = cookie
        /\ request'[q].result = None
        /\ \A p \in Requests : p # q => request'[p] = request[p]
    BY <1>5 DEF Send
  <2>2. /\ now' = now /\ cookie' = cookie /\ sessions' = sessions
        /\ serial' = (serial /\ Busy = {})
    BY <1>5 DEF Send
  <2>3. serial' => Busy' = {q}
    <3>1. request'[q] # Idle
      BY <2>1
    <3>2. serial' => \A p \in Requests : p # q => request'[p] = Idle
      <4>1. Busy = {} => \A p \in Requests : request[p] = Idle
        BY ONLY DEF Busy
      <4>2. QED
        BY ONLY <2>1, <2>2, <4>1
    <3>3. QED
      BY ONLY q \in Requests, <3>1, <3>2 DEF Busy
  <2>4. serial' => \A k \in Tokens : Alive(k, now)' => k = cookie
    <3>1. \A k \in Tokens : Alive(k, now)' <=> Alive(k, now)
      BY <2>2
    <3>2. serial /\ Busy = {} => \A k \in Tokens : Alive(k, now) => k = cookie
      BY ONLY OneByOne DEF OneByOne
    <3>3. QED
      BY ONLY <2>2, <3>1, <3>2
  <2>5. QED
    BY <2>1, <2>2, <2>3, <2>4
<1>6. ASSUME NEW q \in Requests, Receive(q)
      PROVE  OneByOne'
  BY <1>6 DEF Receive, SignedOut
<1>7. ASSUME NEW q \in Requests, Lose(q)
      PROVE  OneByOne'
  BY <1>7 DEF Lose
<1>8. ASSUME NEW q \in Requests, ReadClock(q)
      PROVE  OneByOne'
  BY <1>8 DEF ReadClock
<1>9. ASSUME NEW q \in Requests, LoginRefused(q)
      PROVE  OneByOne'
  BY <1>9 DEF LoginRefused, To
<1>10. ASSUME NEW q \in Requests, NEW k \in Tokens, Create(q, k)
      PROVE  OneByOne'
  <2>1. /\ q \in Busy /\ request[q] \in Sent /\ request[q].result = None
        /\ request[q].kind = "login" /\ request[q].time \in Nat
    BY <1>10 DEF Create
  <2>2. /\ request'[q].kind = "login" /\ request'[q].result = k
        /\ request'[q].at = "revoke" /\ request'[q].cookie = request[q].cookie
        /\ \A p \in Requests : p # q => request'[p] = request[p]
    BY <1>10, <2>1 DEF Create, Sent
  <2>3. /\ now' = now /\ cookie' = cookie /\ serial' = serial
        /\ \A j \in Tokens : Alive(j, now)' => Alive(j, now) \/ j = k
    BY <1>10, <2>1 DEF Create, Swept
  <2>4. Busy' = Busy
    <3>1. request[q] # Idle /\ request'[q] # Idle
      BY <2>1, <2>2
    <3>2. QED
      BY <2>2, <3>1
  <2>5. QED
    BY <2>1, <2>2, <2>3, <2>4
<1>11. ASSUME NEW q \in Requests, Rotate(q)
      PROVE  OneByOne'
  BY <1>11 DEF Rotate, To, Revoked
<1>12. ASSUME NEW q \in Requests, Logout(q)
      PROVE  OneByOne'
  BY <1>12 DEF Logout, To, Revoked
<1>13. ASSUME NEW q \in Requests, Authenticate(q)
      PROVE  OneByOne'
  <2>1. /\ q \in Busy /\ request[q] \in Sent /\ request[q].kind = "page"
    BY <1>13 DEF Authenticate
  <2>2. /\ request'[q].kind = "page" /\ request'[q].at = "response"
        /\ request'[q].cookie = request[q].cookie
        /\ \A p \in Requests : p # q => request'[p] = request[p]
    BY <1>13, <2>1 DEF Authenticate, Sent
  <2>3. /\ now' = now /\ cookie' = cookie /\ serial' = serial
        /\ \A j \in Tokens : Alive(j, now)' => Alive(j, now)
    BY <1>13 DEF Authenticate, Revoked
  <2>4. Busy' = Busy
    <3>1. request[q] # Idle /\ request'[q] # Idle
      BY <2>1, <2>2
    <3>2. QED
      BY <2>2, <3>1
  <2>5. QED
    BY <2>1, <2>2, <2>3, <2>4
<1>14. CASE UNCHANGED vars
  BY <1>14 DEF vars
<1> HIDE DEF TypeOK, Progresses, Progress, Stored, OneByOne, Busy, Idle,
     Carries, Replaces, Alive
<1>15. QED
  BY <1>1, <1>2, <1>3, <1>4, <1>5, <1>6, <1>7, <1>8, <1>9, <1>10, <1>11,
     <1>12, <1>13, <1>14 DEF Next

\* pythonAuthenticated lets in neither a request sent after signing out nor
\* one whose session had expired when it read the clock.
LEMMA StepVerdicts ==
    TypeOK /\ Progresses /\ Out /\ Stored /\ Drawn /\ Verdicts /\ [Next]_vars => Verdicts'
<1> SUFFICES ASSUME TypeOK /\ Progresses /\ Out /\ Stored /\ Drawn /\ Verdicts, [Next]_vars
             PROVE  Verdicts'
  OBVIOUS
<1> USE SessionConstants, BusyType DEF TypeOK, Progresses, Progress, Out,
     Stored, Drawn, Verdicts, Busy, Idle, Sent, browser, history
<1>1. CASE Tick
  BY <1>1 DEF Tick
<1>2. CASE EnterBasic
  BY <1>2 DEF EnterBasic
<1>3. CASE Restart
  BY <1>3 DEF Restart
<1>4. CASE CookieExpires
  BY <1>4 DEF CookieExpires
<1>5. ASSUME NEW q \in Requests, NEW kind \in {"page", "login", "logout"},
             Send(q, kind)
      PROVE  Verdicts'
  BY <1>5 DEF Send
<1>6. ASSUME NEW q \in Requests, Receive(q)
      PROVE  Verdicts'
  BY <1>6 DEF Receive, SignedOut
<1>7. ASSUME NEW q \in Requests, Lose(q)
      PROVE  Verdicts'
  BY <1>7 DEF Lose
<1>8. ASSUME NEW q \in Requests, ReadClock(q)
      PROVE  Verdicts'
  BY <1>8 DEF ReadClock
<1>9. ASSUME NEW q \in Requests, LoginRefused(q)
      PROVE  Verdicts'
  BY <1>9 DEF LoginRefused, To
<1>10. ASSUME NEW q \in Requests, NEW k \in Tokens, Create(q, k)
      PROVE  Verdicts'
  BY <1>10 DEF Create, Swept, Alive
<1>11. ASSUME NEW q \in Requests, Rotate(q)
      PROVE  Verdicts'
  BY <1>11 DEF Rotate, To, Revoked
<1>12. ASSUME NEW q \in Requests, Logout(q)
      PROVE  Verdicts'
  BY <1>12 DEF Logout, To, Revoked
<1>13. ASSUME NEW q \in Requests, Authenticate(q)
      PROVE  Verdicts'
  <2>1. /\ q \in Busy /\ request[q] \in Sent /\ request[q].time \in Nat
    BY <1>13 DEF Authenticate
  <2>2. request[q].late => Accepts(request[q]) = None
    BY <1>13, <2>1 DEF Authenticate, Accepts
  <2>3. Accepts(request[q]) = "session" =>
            /\ request[q].cookie # None
            /\ request[q].time < born[request[q].cookie] + Lifetime
    <3>1. Accepts(request[q]) = "session" =>
              request[q].cookie # None /\ Alive(request[q].cookie, request[q].time)
      <4>1. None # "session"
        BY DEF SessionConstants
      <4>2. CASE request[q].out
        BY <4>1, <4>2 DEF Accepts
      <4>3. CASE ~request[q].out /\ request[q].cookie # None
        BY <4>1, <4>3 DEF Accepts
      <4>4. CASE ~request[q].out /\ request[q].cookie = None
        BY <4>1, <4>4 DEF Accepts
      <4>5. QED
        BY <4>2, <4>3, <4>4
    <3>2. request[q].cookie \in Tokens \cup {None}
      BY <2>1
    <3>3. QED
      BY <2>1, <3>1, <3>2 DEF Alive
  <2>4. /\ request'[q].result = Accepts(request[q])
        /\ request'[q].late = request[q].late
        /\ request'[q].cookie = request[q].cookie
        /\ request'[q].time = request[q].time
        /\ \A p \in Requests : p # q => request'[p] = request[p]
    BY <1>13, <2>1 DEF Authenticate
  <2>5. born' = born
    BY <1>13 DEF Authenticate
  <2>6. QED
    BY <2>2, <2>3, <2>4, <2>5
<1>14. CASE UNCHANGED vars
  BY <1>14 DEF vars
<1> HIDE DEF TypeOK, Progresses, Progress, Out, Stored, Drawn, Verdicts, Busy,
     Idle, Sent
<1>15. QED
  BY <1>1, <1>2, <1>3, <1>4, <1>5, <1>6, <1>7, <1>8, <1>9, <1>10, <1>11,
     <1>12, <1>13, <1>14 DEF Next

\* The program starts with no session and a browser without cookies.
LEMMA InitIInv == Init => IInv
<1>1. Init => Busy = {}
  BY DEF Init, Busy
<1>2. Init => TypeOK
  <2>1. Init => request \in [Requests -> {Idle} \cup Sent]
    BY DEF Init
  <2>2. Init => sessions \in [Tokens -> Nat \cup {None}] /\ born \in [Tokens -> Nat \cup {None}]
    BY DEF Init
  <2>3. Init => /\ loggedOut \in BOOLEAN /\ basic \in BOOLEAN
                /\ serial \in BOOLEAN /\ signedOut \in BOOLEAN
    BY DEF Init
  <2>4. Init => now \in Nat /\ cookie \in Tokens \cup {None} /\ abandoned \in SUBSET Tokens
    BY DEF Init
  <2>5. QED
    BY <2>1, <2>2, <2>3, <2>4, Zenon DEF TypeOK
<1>3. Init => Progresses /\ Out /\ Stored /\ Jar /\ Fresh /\ Drawn /\ Verdicts
  BY <1>1 DEF Init, Progresses, Out, Stored, Jar, Fresh, Carries, Drawn,
       Verdicts
<1>4. Init => OneByOne
  BY <1>1 DEF Init, OneByOne, Alive
<1>5. QED
  BY <1>2, <1>3, <1>4 DEF IInv

\* The inductive invariant holds in every state.
LEMMA Invariance == Spec => []IInv
<1>1. IInv /\ [Next]_vars => IInv'
  BY StepTyped, StepProgress, StepOut, StepStored, StepDrawn, StepFresh,
       StepJar,
     StepOneByOne, StepVerdicts DEF IInv
<1>2. QED
  BY InitIInv, <1>1, PTL DEF Spec

-----------------------------------------------------------------------------
(* Sessions: the theorems *)

\* After signing out no request is let in until the user signs in or enters
\* credentials again (pythonLogout, pythonAuthenticated).
THEOREM SignOutIsFinal == Spec => []SignedOutStaysOut
<1>1. IInv => SignedOutStaysOut
  BY BusyType DEF IInv, Verdicts, SignedOutStaysOut
<1>2. QED
  BY Invariance, <1>1, PTL

\* A request that was let in for its session read the clock before that
\* session had expired (pythonSessionStore.valid).
THEOREM SessionsEnd == Spec => []DeadSessionsRefused
<1>1. IInv => DeadSessionsRefused
  BY BusyType DEF IInv, Verdicts, DeadSessionsRefused
<1>2. QED
  BY Invariance, <1>1, PTL

\* The store and the browser agree: a session ends on time, the cookie in the
\* jar works unless a request that ends it is about, and requests one by one
\* leave no session but that one (pythonLogin, pythonLogout, create, revoke).
THEOREM StoreAgreesWithBrowser == Spec => []SessionsAgree
<1>1. IInv => CookieWorks
  <2>1. SUFFICES ASSUME IInv, cookie \notin abandoned \cup {None}, ~Expired(cookie)
                 PROVE  \/ Alive(cookie, now)
                        \/ \E q \in Busy : /\ request[q].kind # "page"
                                           /\ request[q].cookie = cookie
    BY DEF CookieWorks, IInv, Jar, Expired
  <2>2. CASE sessions[cookie] # None
    BY <2>1, <2>2 DEF IInv, TypeOK, Stored, Alive, Expired
  <2>3. CASE \E q \in Requests : Replaces(q, cookie)
    BY <2>1, <2>3 DEF Replaces
  <2>4. QED
    BY <2>1, <2>2, <2>3 DEF IInv, Jar
<1>2. IInv => NoStraySession
  BY DEF IInv, OneByOne, NoStraySession
<1>3. QED
  BY Invariance, SessionsEnd, <1>1, <1>2, PTL DEF SessionsAgree

-----------------------------------------------------------------------------
(* Output: the stream: the lines of pending, then those of wire *)

Kinds == {"blank", "lead", "trail"}
Bytes == Runs \X Nat \X Kinds
EventLines == [line : {"event"}, event : {"start", "output", "error", "done"},
               bytes : Seq(Bytes), flags : SUBSET {"ok", "truncated"}]
StreamLines == EventLines \cup {EndOfLine}

LineAt(p, w, i) == IF i <= Len(p) THEN p[i] ELSE w[i - Len(p)]

\* Lines that go from wire to pending stay where they are in the stream.
LEMMA LinesMoved ==
  ASSUME NEW p \in Seq(StreamLines), NEW w \in Seq(StreamLines), NEW n \in 1..Len(w)
  PROVE  LET p2 == p \o SubSeq(w, 1, n)
             w2 == SubSeq(w, n + 1, Len(w))
         IN /\ p2 \in Seq(StreamLines) /\ w2 \in Seq(StreamLines)
            /\ Len(p2) + Len(w2) = Len(p) + Len(w)
            /\ \A i \in 1..Len(p) + Len(w) : LineAt(p2, w2, i) = LineAt(p, w, i)
<1>0. PICK p2, w2 : p2 = p \o SubSeq(w, 1, n) /\ w2 = SubSeq(w, n + 1, Len(w))
  OBVIOUS
<1>1. PICK front : front = SubSeq(w, 1, n)
  OBVIOUS
<1>2. /\ front \in Seq(StreamLines) /\ Len(front) = n
      /\ \A i \in 1..n : front[i] = w[i]
  BY <1>1, SubSeqProperties
<1>3. /\ w2 \in Seq(StreamLines) /\ Len(w2) = Len(w) - n
      /\ \A i \in 1..Len(w) - n : w2[i] = w[i + n]
  <2>1. w2 = SubSeq(w, n + 1, Len(w)) /\ n + 1 \in 1..Len(w) + 1 /\ Len(w) \in 0..Len(w)
    BY <1>0
  <2>2. /\ w2 \in Seq(StreamLines)
        /\ Len(w2) = IF n + 1 <= Len(w) THEN Len(w) - (n + 1) + 1 ELSE 0
        /\ \A i \in 1..Len(w) - (n + 1) + 1 : w2[i] = w[(n + 1) + i - 1]
    BY <2>1, SubSeqProperties
  <2>3. Len(w2) = Len(w) - n /\ Len(w) - (n + 1) + 1 = Len(w) - n
    BY <2>2
  <2>4. \A i \in 1..Len(w) - n : (n + 1) + i - 1 = i + n
    OBVIOUS
  <2>5. QED
    BY <2>2, <2>3, <2>4
<1>4. /\ p2 \in Seq(StreamLines) /\ Len(p2) = Len(p) + n
      /\ \A i \in 1..Len(p) : p2[i] = p[i]
      /\ \A i \in Len(p) + 1..Len(p) + n : p2[i] = front[i - Len(p)]
  BY <1>0, <1>1, <1>2, ConcatProperties
<1>5. ASSUME NEW i \in 1..Len(p) + Len(w)
      PROVE  LineAt(p2, w2, i) = LineAt(p, w, i)
  <2>1. CASE i \in 1..Len(p)
    BY <1>4, <2>1 DEF LineAt
  <2>2. CASE i \in Len(p) + 1..Len(p) + n
    BY <1>2, <1>4, <2>2 DEF LineAt
  <2>3. CASE i \in Len(p) + n + 1..Len(p) + Len(w)
    <3>1. PICK a, b \in Nat : a = Len(p) /\ b = Len(w)
      OBVIOUS
    <3>2. i - (a + n) \in 1..b - n /\ (i - (a + n)) + n = i - a /\ ~(i <= a + n) /\ ~(i <= a)
      BY ONLY <2>3, <3>1, n \in 1..Len(w), a \in Nat, b \in Nat
    <3>3. LineAt(p2, w2, i) = w2[i - (a + n)] /\ LineAt(p, w, i) = w[i - a]
      BY <1>4, <3>1, <3>2 DEF LineAt
    <3>4. w2[i - (a + n)] = w[(i - (a + n)) + n]
      BY <1>3, <3>1, <3>2
    <3>5. QED
      BY <3>2, <3>3, <3>4
  <2>4. QED
    BY <2>1, <2>2, <2>3
<1>6. Len(p2) + Len(w2) = Len(p) + Len(w)
  <2>1. Len(p) \in Nat /\ Len(w) \in Nat /\ n \in Nat
    OBVIOUS
  <2>2. Len(p2) = Len(p) + n /\ Len(w2) = Len(w) - n
    BY <1>3, <1>4
  <2>3. QED
    BY ONLY <2>1, <2>2
<1>7. QED
  BY <1>0, <1>3, <1>4, <1>5, <1>6

\* Lines that are sent follow those that are there.
LEMMA LinesAppended ==
  ASSUME NEW p \in Seq(StreamLines), NEW w \in Seq(StreamLines), NEW e \in Seq(StreamLines)
  PROVE  /\ w \o e \in Seq(StreamLines) /\ Len(w \o e) = Len(w) + Len(e)
         /\ \A i \in 1..Len(p) + Len(w) : LineAt(p, w \o e, i) = LineAt(p, w, i)
         /\ \A j \in 1..Len(e) : LineAt(p, w \o e, Len(p) + Len(w) + j) = e[j]
<1>0. PICK w2 : w2 = w \o e
  OBVIOUS
<1>1. /\ w2 \in Seq(StreamLines) /\ Len(w2) = Len(w) + Len(e)
      /\ \A i \in 1..Len(w) : w2[i] = w[i]
      /\ \A i \in Len(w) + 1..Len(w) + Len(e) : w2[i] = e[i - Len(w)]
  BY <1>0, ConcatProperties
<1>2. ASSUME NEW i \in 1..Len(p) + Len(w)
      PROVE  LineAt(p, w2, i) = LineAt(p, w, i)
  BY <1>1 DEF LineAt
<1>3. ASSUME NEW j \in 1..Len(e)
      PROVE  LineAt(p, w2, Len(p) + Len(w) + j) = e[j]
  BY <1>1 DEF LineAt
<1>4. QED
  BY <1>0, <1>1, <1>2, <1>3

\* Without its first k lines, a stream has the lines that follow.
LEMMA LinesDropped ==
  ASSUME NEW p \in Seq(StreamLines), NEW w \in Seq(StreamLines), NEW k \in 0..Len(p)
  PROVE  LET p2 == SubSeq(p, k + 1, Len(p))
         IN /\ p2 \in Seq(StreamLines) /\ Len(p2) = Len(p) - k
            /\ \A i \in 1..Len(p) + Len(w) - k : LineAt(p2, w, i) = LineAt(p, w, i + k)
<1>0. PICK p2 : p2 = SubSeq(p, k + 1, Len(p))
  OBVIOUS
<1>1. /\ p2 \in Seq(StreamLines) /\ Len(p2) = Len(p) - k
      /\ \A i \in 1..Len(p) - k : p2[i] = p[i + k]
  <2>1. k + 1 \in 1..Len(p) + 1 /\ Len(p) \in 0..Len(p)
    OBVIOUS
  <2>2. /\ p2 \in Seq(StreamLines)
        /\ Len(p2) = IF k + 1 <= Len(p) THEN Len(p) - (k + 1) + 1 ELSE 0
        /\ \A i \in 1..Len(p) - (k + 1) + 1 : p2[i] = p[(k + 1) + i - 1]
    BY <1>0, <2>1, SubSeqProperties
  <2>3. Len(p2) = Len(p) - k /\ Len(p) - (k + 1) + 1 = Len(p) - k
    BY <2>2
  <2>4. \A i \in 1..Len(p) - k : (k + 1) + i - 1 = i + k
    OBVIOUS
  <2>5. QED
    BY <2>2, <2>3, <2>4
<1>2. ASSUME NEW i \in 1..Len(p) + Len(w) - k
      PROVE  LineAt(p2, w, i) = LineAt(p, w, i + k)
  BY <1>1 DEF LineAt
<1>3. QED
  BY <1>0, <1>1, <1>2

\* An event of writePythonSSE is three lines, the last two being line ends.
LEMMA EventIs ==
  ASSUME NEW name \in {"start", "output", "error", "done"}, NEW bytes \in Seq(Bytes),
         NEW flags \in SUBSET {"ok", "truncated"}
  PROVE  /\ Event(name, bytes, flags) \in Seq(StreamLines)
         /\ Len(Event(name, bytes, flags)) = 3
         /\ Event(name, bytes, flags)[1] \in EventLines
         /\ Event(name, bytes, flags)[1].event = name
         /\ Event(name, bytes, flags)[1].bytes = bytes
         /\ Event(name, bytes, flags)[1].flags = flags
         /\ Event(name, bytes, flags)[2] = EndOfLine
         /\ Event(name, bytes, flags)[3] = EndOfLine
<1>1. PICK b : b = [line |-> "event", event |-> name, bytes |-> bytes, flags |-> flags]
  OBVIOUS
<1>2. b \in EventLines /\ b.event = name /\ b.bytes = bytes /\ b.flags = flags
  BY <1>1 DEF EventLines
<1>3. Event(name, bytes, flags) = <<b, EndOfLine, EndOfLine>>
  BY <1>1 DEF Event
<1>4. QED
  BY <1>2, <1>3 DEF StreamLines

\* The first line of an event is no line end.
LEMMA EventIsNoEnd ==
  ASSUME NEW b \in EventLines
  PROVE  b # EndOfLine
BY DEF EventLines, EndOfLine

-----------------------------------------------------------------------------
(* Output: the decoder *)

Characters(t) == \A i \in DOMAIN t :
    /\ t[i] = "lead" /\ i < Len(t) => t[i + 1] = "trail"
    /\ t[i] = "trail" => i > 1 /\ t[i - 1] = "lead"

\* Bytes m + 1 to m + n of a script, where a character begins: all come out, but
\* for a lead at the end.
Follows(r, s, m, n, d) ==
    /\ m \in Nat /\ n \in Nat /\ m + n <= Len(text[r])
    /\ m > 0 => text[r][m] # "lead"
    /\ s \in Seq(Bytes) /\ Len(s) = n /\ \A i \in 1..n : s[i] = Byte(r, m + i)
    /\ d = IF n > 0 /\ text[r][m + n] = "lead" THEN 1 ELSE 0

\* The n bytes after the first m.
BytesAfter(r, m, n) == [i \in 1..n |-> Byte(r, m + i)]

\* Of whole characters the decoder replaces nothing: it holds back a lead at
\* the end, and the rest begins and ends with whole characters.
LEMMA DecodedIs ==
  ASSUME NEW r \in Runs, text[r] \in Seq(Kinds), Characters(text[r]),
         NEW s, NEW m, NEW n, NEW d, Follows(r, s, m, n, d)
  PROVE  /\ Decoded(s, FALSE) = BytesAfter(r, m, n - d)
         /\ HeldBack(s) = IF d = 1 THEN <<Byte(r, m + n)>> ELSE <<>>
         /\ m + (n - d) > 0 => text[r][m + (n - d)] # "lead"
<1> USE DEF Follows
<1>1. \A i \in 1..n : Kind(s[i]) = text[r][m + i]
  BY DEF Kind, Byte
<1>2. DOMAIN s = 1..n /\ DOMAIN text[r] = 1..Len(text[r])
  OBVIOUS
<1>3. ASSUME NEW i \in 1..n - d
      PROVE  /\ ~(text[r][m + i] = "lead" /\ ~(i + 1 \in 1..n /\ text[r][m + (i + 1)] = "trail"))
             /\ ~(text[r][m + i] = "trail" /\ ~(i - 1 \in 1..n /\ text[r][m + (i - 1)] = "lead"))
  <2>1. i \in 1..n /\ m + i \in DOMAIN text[r]
    BY <1>2
  <2>2. ASSUME text[r][m + i] = "lead"
        PROVE  i + 1 \in 1..n /\ text[r][m + (i + 1)] = "trail"
    <3>1. i # n
      BY <2>1, <2>2
    <3>2. (m + i) + 1 = m + (i + 1) /\ m + i < Len(text[r]) /\ i + 1 \in 1..n
      BY <2>1, <3>1
    <3>3. QED
      BY <2>1, <2>2, <3>2 DEF Characters
  <2>3. ASSUME text[r][m + i] = "trail"
        PROVE  i - 1 \in 1..n /\ text[r][m + (i - 1)] = "lead"
    <3>1. m + i > 1 /\ text[r][(m + i) - 1] = "lead"
      BY <2>1, <2>3 DEF Characters
    <3>4. (m + i) - 1 = m + (i - 1)
      OBVIOUS
    <3>2. i # 1
      BY <3>1, <3>4
    <3>3. QED
      BY <2>1, <3>1, <3>2, <3>4
  <2>4. QED
    BY <2>2, <2>3
<1>4. d = IF n \in DOMAIN s /\ Kind(s[n]) = "lead" THEN 1 ELSE 0
  BY <1>1, <1>2
<1>5. \A i : i \in DOMAIN s => Kind(s[i]) = text[r][m + i]
  BY <1>1, <1>2
<1>6. Decoded(s, FALSE) = [i \in 1..n - d |-> s[i]]
  <2> DEFINE lead(i) == i \in DOMAIN s /\ Kind(s[i]) = "lead"
             trail(i) == i \in DOMAIN s /\ Kind(s[i]) = "trail"
  <2>1. Decoded(s, FALSE) = [i \in 1..n - d |->
            IF (lead(i) /\ ~trail(i + 1)) \/ (trail(i) /\ ~lead(i - 1))
            THEN Replacement ELSE s[i]]
    BY <1>4 DEF Decoded
  <2>2. ASSUME NEW i \in 1..n - d
        PROVE  ~((lead(i) /\ ~trail(i + 1)) \/ (trail(i) /\ ~lead(i - 1)))
    <3>1. i \in 1..n
      OBVIOUS
    <3>2. lead(i) => trail(i + 1)
      BY <1>2, <1>3, <1>5
    <3>3. trail(i) => lead(i - 1)
      BY <1>2, <1>3, <1>5
    <3>4. QED
      BY <3>2, <3>3
  <2>3. QED
    BY <2>1, <2>2
<1>7. \A i \in 1..n - d : s[i] = Byte(r, m + i)
  OBVIOUS
<1>8. HeldBack(s) = IF d = 1 THEN <<Byte(r, m + n)>> ELSE <<>>
  BY <1>1, <1>4 DEF HeldBack
<1>9. ASSUME m + (n - d) > 0
      PROVE  text[r][m + (n - d)] # "lead"
  <2>1. CASE n = 0
    BY <1>9, <2>1
  <2>2. CASE n > 0 /\ d = 0
    BY <2>2
  <2>3. CASE n > 0 /\ d = 1
    <3>1. text[r][m + n] = "lead" /\ m + (n - 1) \in DOMAIN text[r]
          /\ m + (n - 1) < Len(text[r]) /\ (m + (n - 1)) + 1 = m + n
      BY <1>2, <1>9, <2>3
    <3>2. QED
      BY <2>3, <3>1 DEF Characters
  <2>4. QED
    BY <2>1, <2>2, <2>3
<1>10. Decoded(s, FALSE) = BytesAfter(r, m, n - d)
  BY <1>6, <1>7 DEF BytesAfter
<1>11. QED
  BY <1>8, <1>9, <1>10

-----------------------------------------------------------------------------
(* Output: the inductive invariant *)

OutputTyped ==
    /\ server \in [Runs -> {"off", "running", "ended"}]
    /\ text \in [Runs -> Seq(Kinds)]
    /\ written \in [Runs -> Nat]
    /\ data \in [Runs -> Seq(Bytes)]
    /\ truncated \in [Runs -> BOOLEAN]
    /\ wire \in [Runs -> Seq(StreamLines)]
    /\ at \in [Runs -> {"idle", "connecting", "showing", "finished"}]
    /\ pending \in [Runs -> Seq(StreamLines)]
    /\ overlapped \in BOOLEAN

\* A run that the server does not know has left nothing.
Clean(r) ==
    /\ at[r] = "idle" => server[r] = "off"
    /\ at[r] \in {"showing", "finished"} => server[r] # "off"
    /\ server[r] = "off" => text[r] = <<>> /\ pending[r] = <<>> /\ wire[r] = <<>>

\* The buffer has the first bytes of what was written, up to the limit.
Buffer(r) ==
    /\ Characters(text[r]) /\ written[r] \in 0..Len(text[r])
    /\ Len(data[r]) = AsMany(written[r], Limit)
    /\ \A i \in 1..Len(data[r]) : data[r][i] = Byte(r, i)
    /\ truncated[r] <=> written[r] > Limit

\* What the page has not dispatched are n blocks of three lines.
BlockAt(p, w, k) == LineAt(p, w, 3 * k - 2)
Shaped(p, w, n) ==
    /\ Len(p) + Len(w) = 3 * n
    /\ \A k \in 1..n : /\ BlockAt(p, w, k) \in EventLines
                       /\ LineAt(p, w, 3 * k - 1) = EndOfLine
                       /\ LineAt(p, w, 3 * k) = EndOfLine
Block(r, k) == BlockAt(pending[r], wire[r], k)
Shape(r, n) == Shaped(pending[r], wire[r], n)

\* They bring the bytes of the buffer that follow the first P[0] ones.
Brings(r, b, from, to) ==
    IF b.event = "output"
    THEN /\ to = from + Len(b.bytes)
         /\ \A i \in 1..Len(b.bytes) : b.bytes[i] = Byte(r, from + i)
    ELSE to = from
Contents(r, n, P) ==
    /\ P \in [0..n -> 0..Len(data[r])] /\ P[n] = Len(data[r])
    /\ \A k \in 1..n : Brings(r, Block(r, k), P[k - 1], P[k])
    /\ at[r] = "connecting" => P[0] = 0

AllBlank(r) == \A i \in DOMAIN data[r] : IsBlank(data[r][i])

\* The first is "start", the last is "done", and an "error" before that is of a
\* script that wrote blanks only.
Order(r, n) ==
    /\ \A k \in 1..n :
           /\ Block(r, k).event = "start" <=> k = 1 /\ at[r] = "connecting"
           /\ Block(r, k).event = "done" <=> k = n /\ server[r] = "ended"
           /\ Block(r, k).event = "error" =>
                  k = n - 1 /\ server[r] = "ended" /\ AllBlank(r)
           /\ Block(r, k).event = "done" =>
                  ("truncated" \in Block(r, k).flags <=> truncated[r])
    /\ at[r] = "connecting" /\ server[r] # "off" => n >= 1
    /\ server[r] = "ended" => n >= 1 \/ at[r] = "finished"
    /\ at[r] = "finished" => server[r] = "ended" /\ n = 0

\* The pane shows m bytes, and a message if the last block is to come; the
\* decoder holds back a lead that follows them.
Showing(r, n, c) == \E m \in Nat :
    /\ output \in Seq(Bytes \cup {Message}) /\ Len(output) \in m..m + 1
    /\ \A i \in 1..m : output[i] = Byte(r, i)
    /\ Len(output) = m + 1 =>
           output[m + 1] = Message /\ n = 1 /\ server[r] = "ended" /\ AllBlank(r)
    /\ m > 0 => text[r][m] # "lead"
    /\ \/ decoder = <<>> /\ c = m
       \/ decoder = <<Byte(r, m + 1)>> /\ text[r][m + 1] = "lead" /\ c = m + 1

\* The pane shows everything that was kept.
Finished(r) ==
    LET kept == AsMany(written[r], Limit)
    IN /\ Len(output) >= kept
       /\ \A i \in 1..kept : \/ output[i] = Byte(r, i)
                             \/ /\ i = kept /\ output[i] = Replacement
                                /\ text[r][i] = "lead"
       /\ (\E i \in DOMAIN output : output[i] = Marker) <=> written[r] > Limit
       /\ \A i \in DOMAIN output : output[i] = Message =>
              \A j \in DOMAIN output \ {i} :
                  output[j] = Marker \/ (j < i /\ Kind(output[j]) = "blank")

Pane(r, n, c) == /\ at[r] = "showing" => Showing(r, n, c)
                 /\ at[r] = "finished" => Finished(r)

RunInv(r) ==
    /\ Clean(r) /\ Buffer(r)
    /\ \E n \in Nat : \E P : /\ Shape(r, n) /\ Contents(r, n, P) /\ Order(r, n)
                             /\ ~overlapped => Pane(r, n, P[0])

\* Unless scripts overlapped, one of them runs.
OneAtATime ==
    ~overlapped => \A p, q \in Runs : at[p] # "idle" /\ at[q] # "idle" => p = q

OutputIInv == OutputTyped /\ OneAtATime /\ \A r \in Runs : RunInv(r)

-----------------------------------------------------------------------------
(* Output: runs that a step leaves alone *)

StateOf(r) == <<server[r], text[r], written[r], data[r], truncated[r], wire[r],
                at[r], pending[r]>>

\* What is said of a run depends on its own variables only.
LEMMA SameRun ==
  ASSUME NEW r, StateOf(r)' = StateOf(r)
  PROVE  /\ Clean(r)' <=> Clean(r)
         /\ Buffer(r)' <=> Buffer(r)
         /\ \A n : Shape(r, n)' <=> Shape(r, n)
         /\ \A n, P : Contents(r, n, P)' <=> Contents(r, n, P)
         /\ \A n : Order(r, n)' <=> Order(r, n)
         /\ \A i : Byte(r, i)' = Byte(r, i)
<1>1. /\ server'[r] = server[r] /\ text'[r] = text[r] /\ written'[r] = written[r]
      /\ data'[r] = data[r] /\ truncated'[r] = truncated[r] /\ wire'[r] = wire[r]
      /\ at'[r] = at[r] /\ pending'[r] = pending[r]
  BY DEF StateOf
<1>3. \A k : Block(r, k)' = Block(r, k)
  BY <1>1 DEF Block, BlockAt, LineAt
<1>4. \A i : Byte(r, i)' = Byte(r, i)
  BY <1>1 DEF Byte
<1>5. AllBlank(r)' <=> AllBlank(r)
  BY <1>1 DEF AllBlank, IsBlank, Kind
<1>6. Clean(r)' <=> Clean(r)
  BY <1>1 DEF Clean
<1>7. Buffer(r)' <=> Buffer(r)
  BY <1>1, <1>4 DEF Buffer, Characters, AsMany
<1>8. \A n : Shape(r, n)' <=> Shape(r, n)
  BY <1>1 DEF Shape, Shaped, BlockAt, LineAt
<1>9. \A b, from, to : Brings(r, b, from, to)' <=> Brings(r, b, from, to)
  BY <1>4 DEF Brings
<1>10. \A n, P : Contents(r, n, P)' <=> Contents(r, n, P)
  BY <1>1, <1>3, <1>9 DEF Contents
<1>11. \A n : Order(r, n)' <=> Order(r, n)
  BY <1>1, <1>3, <1>5 DEF Order
<1>12. QED
  BY <1>4, <1>6, <1>7, <1>8, <1>10, <1>11

\* A step of one run keeps what is said of the others, if it is alone or
\* scripts overlapped.
LEMMA OtherRuns ==
  ASSUME OutputIInv, NEW r \in Runs,
         \A q \in Runs \ {r} : StateOf(q)' = StateOf(q),
         ~overlapped' => \A q \in Runs \ {r} : at[q] = "idle"
  PROVE  OneAtATime' /\ \A q \in Runs \ {r} : RunInv(q)'
<1>1. \A q \in Runs \ {r} : at'[q] = at[q]
  BY DEF StateOf
<1>2. OneAtATime'
  BY <1>1 DEF OneAtATime
<1>3. ASSUME NEW q \in Runs \ {r}
      PROVE  RunInv(q)'
  <2>0. PICK n \in Nat : \E P : Shape(q, n) /\ Contents(q, n, P) /\ Order(q, n)
    BY DEF OutputIInv, RunInv
  <2>1. PICK P : Shape(q, n) /\ Contents(q, n, P) /\ Order(q, n)
    BY <2>0
  <2>2. Shape(q, n)' /\ Contents(q, n, P)' /\ Order(q, n)' /\ Clean(q)' /\ Buffer(q)'
    BY <2>1, SameRun DEF OutputIInv, RunInv
  <2>3. ~overlapped' => Pane(q, n, P[0])'
    BY <1>1 DEF Pane
  <2>4. QED
    BY <2>2, <2>3 DEF RunInv
<1>4. QED
  BY <1>2, <1>3

-----------------------------------------------------------------------------
(* Output: how the blocks of a stream come and go *)

AreBlocks(e, j) ==
    /\ Len(e) = 3 * j
    /\ \A k \in 1..j : /\ e[3 * k - 2] \in EventLines
                      /\ e[3 * k - 1] = EndOfLine /\ e[3 * k] = EndOfLine

\* Blocks that are sent follow those that are there.
LEMMA BlocksAppended ==
  ASSUME NEW p \in Seq(StreamLines), NEW w \in Seq(StreamLines), NEW e \in Seq(StreamLines),
         NEW n \in Nat, Shaped(p, w, n), NEW j \in Nat, AreBlocks(e, j)
  PROVE  /\ Shaped(p, w \o e, n + j)
         /\ \A k \in 1..n : BlockAt(p, w \o e, k) = BlockAt(p, w, k)
         /\ \A k \in 1..j : BlockAt(p, w \o e, n + k) = e[3 * k - 2]
<1>1. PICK w2 : w2 = w \o e
  OBVIOUS
<1>2. /\ Len(w2) = Len(w) + Len(e)
      /\ \A i \in 1..Len(p) + Len(w) : LineAt(p, w2, i) = LineAt(p, w, i)
      /\ \A i \in 1..Len(e) : LineAt(p, w2, Len(p) + Len(w) + i) = e[i]
  <2>1. p \in Seq(StreamLines) /\ w \in Seq(StreamLines) /\ e \in Seq(StreamLines)
    OBVIOUS
  <2>2. QED
    BY ONLY <1>1, <2>1, LinesAppended
<1>3. Len(p) + Len(w) = 3 * n /\ Len(p) + Len(w2) = 3 * (n + j)
  <2>1. Len(p) + Len(w) = 3 * n
    BY DEF Shaped
  <2>2. Len(p) \in Nat /\ Len(w) \in Nat
    OBVIOUS
  <2>3. PICK a, b, c \in Nat : a = Len(p) /\ b = Len(w) /\ c = Len(w2)
    BY <1>2, <2>2
  <2>4. a + b = 3 * n /\ c = b + 3 * j
    BY <1>2, <2>1, <2>3 DEF AreBlocks
  <2>5. a + b = 3 * n /\ a + c = 3 * (n + j)
    BY ONLY <2>4, a \in Nat, b \in Nat, c \in Nat, n \in Nat, j \in Nat
  <2>6. QED
    BY <2>3, <2>5
<1>4. ASSUME NEW k \in 1..n
      PROVE  /\ BlockAt(p, w2, k) = BlockAt(p, w, k)
             /\ LineAt(p, w2, 3 * k - 1) = LineAt(p, w, 3 * k - 1)
             /\ LineAt(p, w2, 3 * k) = LineAt(p, w, 3 * k)
  <2>1. 3 * k - 2 \in 1..3 * n /\ 3 * k - 1 \in 1..3 * n /\ 3 * k \in 1..3 * n
    OBVIOUS
  <2>2. QED
    BY <1>2, <1>3, <2>1 DEF BlockAt
<1>5. ASSUME NEW k \in 1..j
      PROVE  /\ BlockAt(p, w2, n + k) = e[3 * k - 2]
             /\ LineAt(p, w2, 3 * (n + k) - 1) = EndOfLine
             /\ LineAt(p, w2, 3 * (n + k)) = EndOfLine
  <2>1. 3 * k - 2 \in 1..3 * j /\ 3 * k - 1 \in 1..3 * j /\ 3 * k \in 1..3 * j
    OBVIOUS
  <2>2. /\ 3 * (n + k) - 2 = 3 * n + (3 * k - 2)
        /\ 3 * (n + k) - 1 = 3 * n + (3 * k - 1)
        /\ 3 * (n + k) = 3 * n + 3 * k
    OBVIOUS
  <2>3. \A i \in 1..3 * j : LineAt(p, w2, 3 * n + i) = e[i]
    BY <1>2, <1>3 DEF AreBlocks
  <2>4. QED
    BY <2>1, <2>2, <2>3 DEF BlockAt, AreBlocks
<1>6. ASSUME NEW k \in 1..n + j
      PROVE  /\ BlockAt(p, w2, k) \in EventLines
             /\ LineAt(p, w2, 3 * k - 1) = EndOfLine /\ LineAt(p, w2, 3 * k) = EndOfLine
  <2>1. CASE k \in 1..n
    BY <1>4, <2>1 DEF Shaped
  <2>2. CASE k \in n + 1..n + j
    <3>1. PICK i \in 1..j : k = n + i
      <4>1. k - n \in 1..j /\ k = n + (k - n)
        BY <2>2
      <4>2. QED
        BY <4>1
    <3>2. QED
      BY <1>5, <3>1 DEF AreBlocks
  <2>3. QED
    BY <2>1, <2>2
<1>7. Shaped(p, w2, n + j)
  BY <1>3, <1>6 DEF Shaped
<1>8. QED
  BY <1>1, <1>4, <1>5, <1>7

\* Wherever the network cuts the lines, the blocks are the same.
LEMMA BlocksMoved ==
  ASSUME NEW p \in Seq(StreamLines), NEW w \in Seq(StreamLines),
         NEW n \in Nat, Shaped(p, w, n), NEW i \in 1..Len(w)
  PROVE  LET p2 == p \o SubSeq(w, 1, i)
             w2 == SubSeq(w, i + 1, Len(w))
         IN Shaped(p2, w2, n) /\ \A k \in 1..n : BlockAt(p2, w2, k) = BlockAt(p, w, k)
<1>1. PICK p2, w2 : p2 = p \o SubSeq(w, 1, i) /\ w2 = SubSeq(w, i + 1, Len(w))
  OBVIOUS
<1>2. /\ Len(p2) + Len(w2) = Len(p) + Len(w)
      /\ \A l \in 1..Len(p) + Len(w) : LineAt(p2, w2, l) = LineAt(p, w, l)
  BY <1>1, LinesMoved
<1>3. Len(p) + Len(w) = 3 * n
  BY DEF Shaped
<1>4. ASSUME NEW k \in 1..n
      PROVE  /\ LineAt(p2, w2, 3 * k - 2) = LineAt(p, w, 3 * k - 2)
             /\ LineAt(p2, w2, 3 * k - 1) = LineAt(p, w, 3 * k - 1)
             /\ LineAt(p2, w2, 3 * k) = LineAt(p, w, 3 * k)
  <2>1. 3 * k - 2 \in 1..3 * n /\ 3 * k - 1 \in 1..3 * n /\ 3 * k \in 1..3 * n
    OBVIOUS
  <2>2. QED
    BY <1>2, <1>3, <2>1
<1>5. Shaped(p2, w2, n) /\ \A k \in 1..n : BlockAt(p2, w2, k) = BlockAt(p, w, k)
  BY <1>2, <1>3, <1>4 DEF Shaped, BlockAt
<1>6. QED
  BY <1>1, <1>5

\* Without its first block, a stream has the blocks that follow.
LEMMA BlockDropped ==
  ASSUME NEW p \in Seq(StreamLines), NEW w \in Seq(StreamLines),
         NEW n \in Nat \ {0}, Shaped(p, w, n), Len(p) >= 3
  PROVE  LET p2 == SubSeq(p, 4, Len(p))
         IN /\ Shaped(p2, w, n - 1)
            /\ \A k \in 1..n - 1 : BlockAt(p2, w, k) = BlockAt(p, w, k + 1)
<1>1. PICK p2 : p2 = SubSeq(p, 3 + 1, Len(p))
  OBVIOUS
<1>2. /\ Len(p2) = Len(p) - 3
      /\ \A l \in 1..Len(p) + Len(w) - 3 : LineAt(p2, w, l) = LineAt(p, w, l + 3)
  <2>1. 3 \in 0..Len(p) /\ p \in Seq(StreamLines) /\ w \in Seq(StreamLines)
    OBVIOUS
  <2>2. QED
    BY ONLY <1>1, <2>1, LinesDropped
<1>3. /\ Len(p) + Len(w) = 3 * n /\ Len(p2) + Len(w) = 3 * (n - 1)
      /\ Len(p) + Len(w) - 3 = 3 * (n - 1)
  <2>1. Len(p) + Len(w) = 3 * n
    BY DEF Shaped
  <2>2. Len(p) \in Nat /\ Len(w) \in Nat
    OBVIOUS
  <2>3. QED
    BY <1>2, <2>1, <2>2
<1>4. ASSUME NEW k \in 1..n - 1
      PROVE  /\ BlockAt(p2, w, k) = BlockAt(p, w, k + 1)
             /\ LineAt(p2, w, 3 * k - 1) = LineAt(p, w, 3 * (k + 1) - 1)
             /\ LineAt(p2, w, 3 * k) = LineAt(p, w, 3 * (k + 1))
  <2>1. /\ 3 * k - 2 \in 1..3 * (n - 1) /\ 3 * k - 1 \in 1..3 * (n - 1)
        /\ 3 * k \in 1..3 * (n - 1)
    OBVIOUS
  <2>2. /\ 3 * (k + 1) - 2 = (3 * k - 2) + 3
        /\ 3 * (k + 1) - 1 = (3 * k - 1) + 3
        /\ 3 * (k + 1) = 3 * k + 3
    OBVIOUS
  <2>3. \A l \in 1..3 * (n - 1) : LineAt(p2, w, l) = LineAt(p, w, l + 3)
    BY <1>2, <1>3
  <2>4. QED
    BY <2>1, <2>2, <2>3 DEF BlockAt
<1>5. \A k \in 1..n - 1 : k + 1 \in 1..n
  OBVIOUS
<1>6. Shaped(p2, w, n - 1)
  BY <1>3, <1>4, <1>5 DEF Shaped
<1>7. QED
  BY <1>1, <1>4, <1>6

-----------------------------------------------------------------------------
(* Output: the steps *)

\* What remains to be shown of a step of run r.
LEMMA StepOf ==
  ASSUME OutputIInv, NEW r \in Runs, OutputTyped', RunInv(r)',
         \A q \in Runs \ {r} : StateOf(q)' = StateOf(q),
         ~overlapped' => \A q \in Runs \ {r} : at[q] = "idle"
  PROVE  OutputIInv'
<1>1. OneAtATime' /\ \A q \in Runs \ {r} : RunInv(q)'
  BY OtherRuns
<1>2. QED
  BY <1>1 DEF OutputIInv

\* A run that goes on is the only one, or scripts overlapped.
LEMMA OthersIdle ==
  ASSUME OutputIInv, NEW r \in Runs, at[r] # "idle", overlapped' = overlapped
  PROVE  ~overlapped' => \A q \in Runs \ {r} : at[q] = "idle"
BY DEF OutputIInv, OneAtATime

\* The page goes on with a run that the server knows of, or that has left
\* lines.
LEMMA ActiveIsKnown ==
  ASSUME OutputIInv, NEW r \in Runs, server[r] # "off" \/ pending[r] # <<>>
  PROVE  at[r] # "idle" /\ server[r] # "off"
BY DEF OutputIInv, RunInv, Clean

\* Nothing is known of a run, or nothing yet.
Off(r) ==
    /\ server[r] = "off" /\ at[r] \in {"idle", "connecting"}
    /\ text[r] = <<>> /\ written[r] = 0 /\ data[r] = <<>> /\ truncated[r] = FALSE
    /\ wire[r] = <<>> /\ pending[r] = <<>>
OffIsFine == \A r \in Runs : Off(r) => RunInv(r)

\* Of a run that is not known there is nothing to say.
LEMMA OffRuns == OffIsFine
<1>1. ASSUME NEW r \in Runs, Off(r)
      PROVE  RunInv(r)
  <2>1. Clean(r)
    BY <1>1 DEF Clean, Off
  <2>2. Limit \in Nat
    BY OutputConstants
  <2>3. Buffer(r)
    <3>1. Len(text[r]) = 0 /\ Len(data[r]) = 0 /\ DOMAIN text[r] = {}
      BY <1>1 DEF Off
    <3>2. QED
      BY <1>1, <2>2, <3>1 DEF Off, Buffer, Characters, AsMany
  <2>4. PICK P : P = [i \in 0..0 |-> 0]
    OBVIOUS
  <2>5. Shape(r, 0)
    BY <1>1 DEF Off, Shape, Shaped
  <2>6. Contents(r, 0, P)
    <3>1. Len(data[r]) = 0
      BY <1>1 DEF Off
    <3>2. QED
      BY <2>4, <3>1 DEF Contents
  <2>7. Order(r, 0)
    BY <1>1 DEF Order, Off
  <2>8. Pane(r, 0, P[0])
    BY <1>1 DEF Pane, Off
  <2>9. 0 \in Nat
    OBVIOUS
  <2>10. QED
    BY <2>1, <2>3, <2>5, <2>6, <2>7, <2>8, <2>9 DEF RunInv
<1>2. QED
  BY <1>1 DEF OffIsFine

\* The same after a step.
LEMMA OffNext == OffIsFine'
BY OffRuns, PTL

\* At first no run is known.
LEMMA OutputInitially == OutputInit => OutputIInv
<1> SUFFICES ASSUME OutputInit PROVE OutputIInv
  OBVIOUS
<1>1. OutputTyped
  <2>1. <<>> \in Seq(Kinds) /\ <<>> \in Seq(Bytes) /\ <<>> \in Seq(StreamLines)
    OBVIOUS
  <2>2. QED
    BY <2>1 DEF OutputInit, OutputTyped
<1>2. OneAtATime
  BY DEF OutputInit, OneAtATime
<1>3. \A r \in Runs : Off(r)
  BY DEF OutputInit, Off
<1>4. QED
  BY <1>1, <1>2, <1>3, OffRuns DEF OutputIInv, OffIsFine

\* What the server does not know of.
LEMMA UnknownIsOff ==
  ASSUME OutputIInv, NEW r \in Runs, server[r] = "off", at[r] \in {"idle", "connecting"}
  PROVE  Off(r)
<1>1. text[r] = <<>> /\ pending[r] = <<>> /\ wire[r] = <<>>
  BY DEF OutputIInv, RunInv, Clean
<1>2. written[r] = 0
  <2>1. written[r] \in 0..0
    BY <1>1 DEF OutputIInv, RunInv, Buffer
  <2>2. QED
    BY <2>1
<1>3. data[r] = <<>> /\ truncated[r] = FALSE
  <2>1. Limit \in Nat /\ data[r] \in Seq(Bytes) /\ truncated[r] \in BOOLEAN
    BY OutputConstants DEF OutputIInv, OutputTyped
  <2>2. Len(data[r]) = 0 /\ ~truncated[r]
    BY <1>2, <2>1 DEF OutputIInv, RunInv, Buffer, AsMany
  <2>3. QED
    BY <2>1, <2>2, EmptySeq
<1>4. QED
  BY <1>1, <1>2, <1>3 DEF Off

\* execute() begins: the pane is that of the new run, and of no other one.
LEMMA OutputExecute ==
  ASSUME OutputIInv, NEW r \in Runs, Execute(r)
  PROVE  OutputIInv'
<1>1. OutputTyped'
  BY DEF OutputIInv, OutputTyped, Execute, buffer
<1>2. Off(r)
  <2>1. server[r] = "off"
    BY DEF Execute, OutputIInv, RunInv, Clean
  <2>2. QED
    BY <2>1, UnknownIsOff DEF Execute
<1>3. Off(r)'
  BY <1>2 DEF Off, Execute, buffer, OutputIInv, OutputTyped
<1>4. RunInv(r)'
  BY <1>3, OffNext DEF OffIsFine
<1>5. \A q \in Runs \ {r} : StateOf(q)' = StateOf(q)
  BY DEF Execute, StateOf, buffer, OutputIInv, OutputTyped
<1>6. ~overlapped' => \A q \in Runs \ {r} : at[q] = "idle"
  BY DEF Execute
<1>7. QED
  BY <1>1, <1>4, <1>5, <1>6, StepOf

\* A run is refused: the pane shows the message, and the run is over.
LEMMA OutputRefused ==
  ASSUME OutputIInv, NEW r \in Runs, RunRefused(r)
  PROVE  OutputIInv'
<1>1. OutputTyped'
  BY DEF OutputIInv, OutputTyped, RunRefused, buffer
<1>2. Off(r)
  BY UnknownIsOff DEF RunRefused
<1>3. Off(r)'
  BY <1>2 DEF Off, RunRefused, buffer, OutputIInv, OutputTyped
<1>4. RunInv(r)'
  BY <1>3, OffNext DEF OffIsFine
<1>5. \A q \in Runs \ {r} : StateOf(q)' = StateOf(q)
  BY DEF RunRefused, StateOf, buffer, OutputIInv, OutputTyped
<1>6. ~overlapped' => \A q \in Runs \ {r} : at[q] = "idle"
  BY OthersIdle DEF RunRefused
<1>7. QED
  BY <1>1, <1>4, <1>5, <1>6, StepOf

\* A run ends with its stream, or with the loss of it.
LEMMA OutputOver ==
  ASSUME OutputIInv, NEW r \in Runs, Over(r), at[r] # "idle", UNCHANGED overlapped
  PROVE  OutputIInv'
<1>1. OutputTyped'
  <2>1. <<>> \in Seq(Kinds) /\ <<>> \in Seq(Bytes) /\ <<>> \in Seq(StreamLines)
    OBVIOUS
  <2>2. QED
    BY <2>1 DEF OutputIInv, OutputTyped, Over
<1>3. Off(r)'
  BY DEF Off, Over, OutputIInv, OutputTyped
<1>4. RunInv(r)'
  BY <1>3, OffNext DEF OffIsFine
<1>5. \A q \in Runs \ {r} : StateOf(q)' = StateOf(q)
  BY DEF Over, StateOf, OutputIInv, OutputTyped
<1>6. ~overlapped' => \A q \in Runs \ {r} : at[q] = "idle"
  BY OthersIdle
<1>7. QED
  BY <1>1, <1>4, <1>5, <1>6, StepOf

\* Bytes are those of the text.
LEMMA BytesStay ==
  ASSUME text' = text, NEW r \in Runs
  PROVE  /\ \A i : Byte(r, i)' = Byte(r, i)
         /\ \A b, from, to : Brings(r, b, from, to)' <=> Brings(r, b, from, to)
<1>1. \A i : Byte(r, i)' = Byte(r, i)
  BY DEF Byte
<1>2. QED
  BY <1>1 DEF Brings

\* reader.read() leaves every block of the stream as it is.
LEMMA OutputRead ==
  ASSUME OutputIInv, NEW r \in Runs, NEW i \in 1..Len(wire[r]), Read(r, i)
  PROVE  OutputIInv'
<1>1. PICK n \in Nat : \E P : /\ Shape(r, n) /\ Contents(r, n, P) /\ Order(r, n)
                              /\ ~overlapped => Pane(r, n, P[0])
  BY DEF OutputIInv, RunInv
<1>2. PICK P : /\ Shape(r, n) /\ Contents(r, n, P) /\ Order(r, n)
               /\ ~overlapped => Pane(r, n, P[0])
  BY <1>1
<1>3. PICK p, w : p = pending[r] /\ w = wire[r]
  OBVIOUS
<1>4. p \in Seq(StreamLines) /\ w \in Seq(StreamLines) /\ i \in 1..Len(w)
  BY <1>3 DEF OutputIInv, OutputTyped
<1>5. PICK p2, w2 : p2 = p \o SubSeq(w, 1, i) /\ w2 = SubSeq(w, i + 1, Len(w))
  OBVIOUS
<1>6. p2 \in Seq(StreamLines) /\ w2 \in Seq(StreamLines)
  BY ONLY <1>4, <1>5, LinesMoved
<1>7. Shaped(p2, w2, n) /\ \A k \in 1..n : BlockAt(p2, w2, k) = BlockAt(p, w, k)
  <2>1. Shaped(p, w, n) /\ n \in Nat
    BY <1>2, <1>3 DEF Shape
  <2>2. QED
    BY ONLY <1>4, <1>5, <2>1, BlocksMoved
<1>8. pending' = [pending EXCEPT ![r] = p2] /\ wire' = [wire EXCEPT ![r] = w2]
  BY <1>3, <1>5 DEF Read
<1>9. pending'[r] = p2 /\ wire'[r] = w2
  BY <1>8 DEF OutputIInv, OutputTyped
<1>10. UNCHANGED <<server, text, written, data, truncated, at, output, decoder, overlapped>>
  BY DEF Read, buffer, pane
<1>11. OutputTyped'
  BY <1>6, <1>8, <1>10 DEF OutputIInv, OutputTyped
<1>12. Shape(r, n)' /\ \A k \in 1..n : Block(r, k)' = Block(r, k)
  BY <1>3, <1>7, <1>9 DEF Shape, Block
<1>13. Contents(r, n, P)'
  BY <1>2, <1>10, <1>12, BytesStay DEF Contents
<1>14. Order(r, n)'
  <2>1. AllBlank(r)' <=> AllBlank(r)
    BY <1>10 DEF AllBlank, IsBlank, Kind
  <2>2. QED
    BY <1>2, <1>10, <1>12, <2>1 DEF Order
<1>15. ~overlapped' => Pane(r, n, P[0])'
  <2>1. Finished(r)' <=> Finished(r)
    BY <1>10, BytesStay DEF Finished, AsMany, Kind
  <2>2. AllBlank(r)' <=> AllBlank(r)
    BY <1>10 DEF AllBlank, IsBlank, Kind
  <2>3. Showing(r, n, P[0])' <=> Showing(r, n, P[0])
    BY <1>10, <2>2, BytesStay DEF Showing
  <2>4. QED
    BY <1>2, <1>10, <2>1, <2>3 DEF Pane
<1>16. Clean(r)' /\ Buffer(r)'
  <2>1. at[r] # "idle" /\ server[r] # "off"
    BY <1>4, <1>3, EmptySeq DEF Read, OutputIInv, RunInv, Clean
  <2>2. Buffer(r)' <=> Buffer(r)
    BY <1>10, BytesStay DEF Buffer, Characters, AsMany
  <2>3. QED
    BY <1>10, <2>1, <2>2 DEF OutputIInv, RunInv, Clean
<1>17. RunInv(r)'
  BY <1>12, <1>13, <1>14, <1>15, <1>16 DEF RunInv
<1>18. \A q \in Runs \ {r} : StateOf(q)' = StateOf(q)
  BY <1>8, <1>10 DEF StateOf, OutputIInv, OutputTyped
<1>19. ~overlapped' => \A q \in Runs \ {r} : at[q] = "idle"
  BY <1>10, OthersIdle DEF Read
<1>20. QED
  BY <1>11, <1>17, <1>18, <1>19, StepOf

\* A stream starts with one event, before any byte.
LEMMA OutputStart ==
  ASSUME OutputIInv, NEW r \in Runs, StartStream(r)
  PROVE  OutputIInv'
<1>1. Off(r)
  BY UnknownIsOff DEF StartStream
<1>2. PICK t \in Texts : text' = [text EXCEPT ![r] = t]
  BY DEF StartStream
<1>3. t \in Seq(Kinds) /\ Characters(t)
  BY OutputConstants, TextsAreCharacters DEF Kinds, Characters
<1>4. PICK e : e = Event("start", <<>>, {})
  OBVIOUS
<1>5. /\ e \in Seq(StreamLines) /\ Len(e) = 3 /\ e[1] \in EventLines
      /\ e[1].event = "start" /\ e[2] = EndOfLine /\ e[3] = EndOfLine
  <2>1. <<>> \in Seq(Bytes) /\ {} \in SUBSET {"ok", "truncated"}
    OBVIOUS
  <2>2. PICK b \in Seq(Bytes) : b = <<>>
    BY <2>1
  <2>3. e = Event("start", b, {})
    BY <1>4, <2>2
  <2>4. QED
    BY <2>1, <2>3, EventIs
<1>6. wire' = [wire EXCEPT ![r] = e]
  BY <1>1, <1>4, <1>5 DEF StartStream, SendLines, Off
<1>7. /\ server' = [server EXCEPT ![r] = "running"]
      /\ UNCHANGED <<written, data, truncated, at, pending, output, decoder, overlapped>>
  BY DEF StartStream, pane
<1>8. OutputTyped'
  BY <1>2, <1>3, <1>5, <1>6, <1>7 DEF OutputIInv, OutputTyped
<1>9. /\ server'[r] = "running" /\ text'[r] = t /\ written'[r] = 0 /\ data'[r] = <<>>
      /\ truncated'[r] = FALSE /\ wire'[r] = e /\ at'[r] = "connecting" /\ pending'[r] = <<>>
  BY <1>1, <1>2, <1>6, <1>7 DEF Off, OutputIInv, OutputTyped, StartStream
<1>10. Clean(r)'
  BY <1>9 DEF Clean
<1>11. Buffer(r)'
  <2>1. Limit \in Nat /\ Len(data'[r]) = 0
    BY <1>9, OutputConstants
  <2>2. QED
    BY <1>3, <1>9, <2>1 DEF Buffer, AsMany
<1>12. Shape(r, 1)' /\ Block(r, 1)' = e[1]
  <2>1. /\ Len(<<>>) = 0 /\ LineAt(<<>>, e, 1) = e[1] /\ LineAt(<<>>, e, 2) = e[2]
        /\ LineAt(<<>>, e, 3) = e[3]
    BY <1>5 DEF LineAt
  <2>2. BlockAt(<<>>, e, 1) = e[1]
    BY <2>1 DEF BlockAt
  <2>3. Shaped(<<>>, e, 1)
    BY <1>5, <2>1, <2>2 DEF Shaped
  <2>4. QED
    BY <1>9, <2>2, <2>3 DEF Shape, Block
<1>13. PICK P : P = [i \in 0..1 |-> 0]
  OBVIOUS
<1>14. Contents(r, 1, P)'
  <2>1. Len(data'[r]) = 0
    BY <1>9
  <2>2. \A k \in 1..1 : Brings(r, Block(r, k), P[k - 1], P[k])'
    BY <1>5, <1>12, <1>13 DEF Brings
  <2>3. QED
    BY <1>13, <2>1, <2>2 DEF Contents
<1>15. Order(r, 1)'
  BY <1>5, <1>9, <1>12 DEF Order
<1>16. Pane(r, 1, P[0])'
  BY <1>9 DEF Pane
<1>17. RunInv(r)'
  <2>1. 1 \in Nat
    OBVIOUS
  <2>2. QED
    BY <1>10, <1>11, <1>12, <1>14, <1>15, <1>16, <2>1 DEF RunInv
<1>18. \A q \in Runs \ {r} : StateOf(q)' = StateOf(q)
  BY <1>2, <1>6, <1>7 DEF StateOf, OutputIInv, OutputTyped
<1>19. ~overlapped' => \A q \in Runs \ {r} : at[q] = "idle"
  BY <1>7, OthersIdle DEF StartStream
<1>20. QED
  BY <1>8, <1>17, <1>18, <1>19, StepOf

\* The buffer keeps what fits.
LEMMA KeptIs ==
  ASSUME OutputIInv, NEW r \in Runs, NEW n \in Nat \ {0}, written[r] + n <= Len(text[r])
  PROVE  /\ Kept(r, n) \in Seq(Bytes)
         /\ Len(data[r]) + Len(Kept(r, n)) = AsMany(written[r] + n, Limit)
         /\ \A i \in 1..Len(Kept(r, n)) : Kept(r, n)[i] = Byte(r, Len(data[r]) + i)
         /\ (truncated[r] \/ Cut(r, n)) <=> written[r] + n > Limit
<1>1. PICK m, l \in Nat : m = written[r] /\ l = Len(data[r])
  BY DEF OutputIInv, OutputTyped
<1>2. Limit \in Nat /\ l = AsMany(m, Limit) /\ (truncated[r] <=> m > Limit)
  BY <1>1, OutputConstants DEF OutputIInv, RunInv, Buffer
<1>3. PICK k \in Nat : k = IF Limit - l > n THEN n ELSE Limit - l
  <2>1. (IF Limit - l > n THEN n ELSE Limit - l) \in Nat
    BY ONLY <1>2, m \in Nat, l \in Nat, n \in Nat \ {0} DEF AsMany
  <2>2. QED
    BY <2>1
<1>4. k \in 0..n /\ l + k = AsMany(m + n, Limit) /\ (k > 0 => l = m)
      /\ (m > Limit \/ k < n <=> m + n > Limit)
  BY ONLY <1>2, <1>3, m \in Nat, l \in Nat, k \in Nat, n \in Nat \ {0} DEF
       AsMany
<1>5. PICK c : c = Chunk(r, n)
  OBVIOUS
<1>6. c \in Seq(Bytes) /\ Len(c) = n /\ \A i \in 1..n : c[i] = Byte(r, m + i)
  <2>1. text[r] \in Seq(Kinds) /\ m + n <= Len(text[r])
    BY <1>1 DEF OutputIInv, OutputTyped
  <2>2. \A i \in 1..n : m + i \in DOMAIN text[r] /\ m + i \in Nat
    BY <2>1
  <2>3. \A i \in 1..n : Byte(r, m + i) \in Bytes
    BY <2>1, <2>2 DEF Byte, Bytes
  <2>4. c = [i \in 1..n |-> Byte(r, m + i)]
    BY <1>1, <1>5 DEF Chunk
  <2>5. QED
    BY <2>3, <2>4
<1>7. PICK s : s = SubSeq(c, 1, k)
  OBVIOUS
<1>8. s \in Seq(Bytes) /\ Len(s) = k /\ \A i \in 1..k : s[i] = c[i]
  <2>1. 1 \in 1..Len(c) + 1 /\ k \in 0..Len(c)
    BY <1>4, <1>6
  <2>2. QED
    BY <1>4, <1>6, <1>7, <2>1, SubSeqProperties
<1>9. Kept(r, n) = s
  BY <1>1, <1>3, <1>5, <1>7 DEF Kept
<1>10. ASSUME NEW i \in 1..k
       PROVE  s[i] = Byte(r, l + i)
  <2>1. l = m /\ i \in 1..n
    BY <1>4
  <2>2. QED
    BY <1>6, <1>8, <2>1
<1>11. Cut(r, n) <=> k < n
  BY <1>8, <1>9 DEF Cut
<1>12. QED
  BY <1>1, <1>2, <1>4, <1>8, <1>9, <1>10, <1>11

\* While the script runs no message is shown, whatever is to come.
LEMMA RunningShows ==
  ASSUME NEW r \in Runs, NEW n, NEW c, NEW n2, Pane(r, n, c), Order(r, n),
         server[r] = "running", UNCHANGED <<text, at, output, decoder>>
  PROVE  Pane(r, n2, c)'
<1>1. at[r] # "finished"
  BY DEF Order
<1>2. ASSUME at[r] = "showing"
      PROVE  Showing(r, n2, c)'
  <2>1. PICK k \in Nat :
            /\ output \in Seq(Bytes \cup {Message}) /\ Len(output) \in k..k + 1
            /\ \A j \in 1..k : output[j] = Byte(r, j)
            /\ Len(output) # k + 1
            /\ k > 0 => text[r][k] # "lead"
            /\ \/ decoder = <<>> /\ c = k
               \/ decoder = <<Byte(r, k + 1)>> /\ text[r][k + 1] = "lead" /\ c = k + 1
    BY <1>2 DEF Pane, Showing
  <2>2. QED
    BY <2>1, BytesStay DEF Showing
<1>3. QED
  BY <1>1, <1>2 DEF Pane

\* limitedBuffer.Write keeps what fits and sends just that: either nothing,
\* or one block with the bytes that follow those of the last one.
LEMMA OutputWrite ==
  ASSUME OutputIInv, NEW r \in Runs, NEW i \in 1..Len(text[r]), Write(r, i)
  PROVE  OutputIInv'
<1>1. PICK n \in Nat : \E P : /\ Shape(r, n) /\ Contents(r, n, P) /\ Order(r, n)
                              /\ ~overlapped => Pane(r, n, P[0])
  BY DEF OutputIInv, RunInv
<1>2. PICK P : /\ Shape(r, n) /\ Contents(r, n, P) /\ Order(r, n)
               /\ ~overlapped => Pane(r, n, P[0])
  BY <1>1
<1>3. PICK s : s = Kept(r, i)
  OBVIOUS
<1>4. PICK d, m, l \in Nat : d = Len(data[r]) /\ m = written[r] /\ l = Len(text[r])
  BY DEF OutputIInv, OutputTyped
<1>5. i \in Nat \ {0} /\ m + i <= l /\ m + i \in 0..l
  BY <1>4 DEF Write
<1>6. /\ s \in Seq(Bytes) /\ d + Len(s) = AsMany(m + i, Limit)
      /\ \A j \in 1..Len(s) : s[j] = Byte(r, d + j)
      /\ (truncated[r] \/ Cut(r, i)) <=> m + i > Limit
  BY <1>3, <1>4, <1>5, KeptIs
<1>7. PICK z : z = data[r] \o s
  OBVIOUS
<1>8. /\ z \in Seq(Bytes) /\ Len(z) = d + Len(s)
      /\ \A j \in 1..d : z[j] = data[r][j]
      /\ \A j \in d + 1..d + Len(s) : z[j] = s[j - d]
  <2>1. data[r] \in Seq(Bytes)
    BY DEF OutputIInv, OutputTyped
  <2>2. QED
    BY ONLY <1>4, <1>6, <1>7, <2>1, ConcatProperties
<1>9. \A j \in 1..Len(z) : z[j] = Byte(r, j)
  <2>1. ASSUME NEW j \in 1..d
        PROVE  z[j] = Byte(r, j)
    BY <1>4, <1>8, <2>1 DEF OutputIInv, RunInv, Buffer
  <2>2. ASSUME NEW j \in d + 1..d + Len(s)
        PROVE  z[j] = Byte(r, j)
    <3>0. d \in Nat /\ Len(s) \in Nat
      BY <1>4, <1>6
    <3>1. j - d \in 1..Len(s) /\ d + (j - d) = j
      BY ONLY <2>2, <3>0
    <3>2. QED
      BY <1>6, <1>8, <3>1
  <2>3. QED
    BY <1>4, <1>6, <1>8, <2>1, <2>2
<1>10. /\ data' = [data EXCEPT ![r] = z] /\ written' = [written EXCEPT ![r] = m + i]
       /\ truncated' = [truncated EXCEPT ![r] = @ \/ Cut(r, i)]
       /\ UNCHANGED <<server, text, at, pending, output, decoder, overlapped>>
       /\ server[r] = "running"
  BY <1>3, <1>4, <1>7 DEF Write, pane
<1>11. data'[r] = z /\ written'[r] = m + i /\ (truncated'[r] <=> m + i > Limit)
  BY <1>6, <1>10 DEF OutputIInv, OutputTyped
<1>12. Clean(r)' /\ Buffer(r)'
  <2>1. Clean(r)'
    BY <1>10 DEF Clean, OutputIInv, RunInv
  <2>2. Characters(text[r])' /\ Len(text[r])' = l
    BY <1>4, <1>10 DEF OutputIInv, RunInv, Buffer, Characters
  <2>3. QED
    BY <1>5, <1>6, <1>8, <1>9, <1>10, <1>11, <2>1, <2>2, BytesStay DEF Buffer
<1>13. \A k \in 1..n : Block(r, k).event \notin {"error", "done"}
  BY <1>2, <1>10 DEF Order
<1>14. ASSUME NEW n2, ~overlapped'
       PROVE  Pane(r, n2, P[0])'
  BY <1>2, <1>10, <1>14, RunningShows
<1>15. CASE s = <<>>
  <2>1. wire' = wire /\ z = data[r]
    BY <1>3, <1>7, <1>15 DEF Write, OutputIInv, OutputTyped
  <2>2. OutputTyped'
    BY <1>5, <1>8, <1>10, <1>11, <2>1 DEF OutputIInv, OutputTyped
  <2>3. Shape(r, n)' /\ \A k : Block(r, k)' = Block(r, k)
    BY <1>2, <1>10, <2>1 DEF Shape, Block
  <2>4. Contents(r, n, P)'
    BY <1>2, <1>10, <1>11, <2>1, <2>3, BytesStay DEF Contents
  <2>5. Order(r, n)'
    BY <1>2, <1>10, <1>13, <2>3 DEF Order
  <2>6. RunInv(r)'
    BY <1>12, <1>14, <2>3, <2>4, <2>5 DEF RunInv
  <2>7. \A q \in Runs \ {r} : StateOf(q)' = StateOf(q)
    BY <1>10, <2>1 DEF StateOf, OutputIInv, OutputTyped
  <2>8. ~overlapped' => \A q \in Runs \ {r} : at[q] = "idle"
    BY <1>10, OthersIdle, ActiveIsKnown
  <2>9. QED
    BY <2>2, <2>6, <2>7, <2>8, StepOf
<1>16. CASE s # <<>>
  <2>1. PICK e : e = Event("output", s, {})
    OBVIOUS
  <2>2. /\ e \in Seq(StreamLines) /\ Len(e) = 3 /\ e[1] \in EventLines
        /\ e[1].event = "output" /\ e[1].bytes = s /\ e[2] = EndOfLine /\ e[3] = EndOfLine
    <3>1. {} \in SUBSET {"ok", "truncated"}
      OBVIOUS
    <3>2. QED
      BY <1>6, <2>1, <3>1, EventIs
  <2>3. PICK p, w, w2 : p = pending[r] /\ w = wire[r] /\ w2 = w \o e
    OBVIOUS
  <2>4. p \in Seq(StreamLines) /\ w \in Seq(StreamLines) /\ Shaped(p, w, n)
    BY <1>2, <2>3 DEF OutputIInv, OutputTyped, Shape
  <2>5. /\ Shaped(p, w2, n + 1)
        /\ \A k \in 1..n : BlockAt(p, w2, k) = BlockAt(p, w, k)
        /\ BlockAt(p, w2, n + 1) = e[1]
    <3>1. AreBlocks(e, 1) /\ n \in Nat /\ 1 \in Nat /\ e \in Seq(StreamLines)
      BY <2>2 DEF AreBlocks
    <3>2. /\ Shaped(p, w \o e, n + 1)
          /\ \A k \in 1..n : BlockAt(p, w \o e, k) = BlockAt(p, w, k)
          /\ \A k \in 1..1 : BlockAt(p, w \o e, n + k) = e[3 * k - 2]
      BY <2>4, <3>1, BlocksAppended
    <3>3. QED
      BY <2>3, <3>2
  <2>6. w2 \in Seq(StreamLines)
    BY <2>2, <2>3, <2>4
  <2>7. wire' = [wire EXCEPT ![r] = w2]
    BY <1>3, <1>16, <2>1, <2>3 DEF Write, SendLines
  <2>8. OutputTyped'
    BY <1>5, <1>8, <1>10, <1>11, <2>6, <2>7 DEF OutputIInv, OutputTyped
  <2>9. /\ Shape(r, n + 1)' /\ \A k \in 1..n : Block(r, k)' = Block(r, k)
        /\ Block(r, n + 1)' = e[1]
    <3>1. wire'[r] = w2 /\ pending'[r] = p
      BY <1>10, <2>3, <2>7 DEF OutputIInv, OutputTyped
    <3>2. QED
      BY <2>3, <2>5, <3>1 DEF Shape, Block
  <2>10. PICK Q : Q = [k \in 0..n + 1 |-> IF k = n + 1 THEN d + Len(s) ELSE P[k]]
    OBVIOUS
  <2>11. P \in [0..n -> 0..d] /\ P[n] = d
    BY <1>2, <1>4 DEF Contents
  <2>12. /\ Q \in [0..n + 1 -> 0..d + Len(s)] /\ Q[n + 1] = d + Len(s) /\ Q[n] = d
         /\ \A k \in 0..n : Q[k] = P[k]
    <3>1. \A k \in 0..n : k # n + 1 /\ k \in 0..n + 1
      OBVIOUS
    <3>2. Len(s) \in Nat
      BY <1>6
    <3>3. \A k \in 0..n + 1 : k # n + 1 => k \in 0..n
      OBVIOUS
    <3>4. \A k \in 0..n : P[k] \in 0..d + Len(s)
      BY <2>11, <3>2
    <3>5. \A k \in 0..n + 1 : Q[k] \in 0..d + Len(s)
      BY <2>10, <3>2, <3>3, <3>4
    <3>6. QED
      BY <2>10, <2>11, <3>1, <3>5
  <2>13. Contents(r, n + 1, Q)'
    <3>1. ASSUME NEW k \in 1..n
          PROVE  Brings(r, Block(r, k), Q[k - 1], Q[k])'
      <4>1. Brings(r, Block(r, k), P[k - 1], P[k])
        BY <1>2 DEF Contents
      <4>2. Q[k - 1] = P[k - 1] /\ Q[k] = P[k]
        BY <2>12
      <4>3. QED
        BY <1>10, <2>9, <4>1, <4>2, BytesStay
    <3>2. Brings(r, Block(r, n + 1), Q[n], Q[n + 1])'
      <4>1. Q[n] = d /\ Q[n + 1] = d + Len(s) /\ Block(r, n + 1)' = e[1]
        BY <2>9, <2>12
      <4>2. Brings(r, e[1], d, d + Len(s))
        BY <1>6, <2>2 DEF Brings
      <4>3. Brings(r, e[1], d, d + Len(s))'
        BY <1>10, <4>2, BytesStay
      <4>4. QED
        BY ONLY <4>1, <4>3 DEF Brings
    <3>3. \A k \in 1..n + 1 : Brings(r, Block(r, k), Q[k - 1], Q[k])'
      <4>1. \A k \in 1..n + 1 : k \in 1..n \/ k = n + 1
        OBVIOUS
      <4>2. (n + 1) - 1 = n
        OBVIOUS
      <4>3. QED
        BY <3>1, <3>2, <4>1, <4>2
    <3>4. at'[r] = "connecting" => Q[0] = 0
      BY <1>2, <1>10, <2>12 DEF Contents
    <3>5. QED
      BY <1>8, <1>11, <2>12, <3>3, <3>4 DEF Contents
  <2>14. Order(r, n + 1)'
    <3>1. at[r] = "connecting" => n >= 1
      BY <1>2, <1>10 DEF Order
    <3>2. at[r] # "finished"
      BY <1>2, <1>10 DEF Order
    <3>3. \A k \in 1..n + 1 : k \in 1..n \/ k = n + 1
      OBVIOUS
    <3>4. \A k \in 1..n : /\ Block(r, k)'.event = "start" <=> k = 1 /\ at'[r] = "connecting"
                          /\ Block(r, k)'.event \notin {"error", "done"}
      BY <1>2, <1>10, <1>13, <2>9 DEF Order
    <3>5. Block(r, n + 1)'.event = "output"
      BY <2>2, <2>9
    <3>6. \A k \in 1..n + 1 : /\ Block(r, k)'.event = "start" <=> k = 1 /\ at'[r] = "connecting"
                              /\ Block(r, k)'.event \notin {"error", "done"}
      BY <1>10, <3>1, <3>3, <3>4, <3>5
    <3>7. server'[r] = "running" /\ n + 1 >= 1
      BY <1>10
    <3>8. QED
      BY <1>10, <3>2, <3>6, <3>7 DEF Order
  <2>15. ~overlapped' => Pane(r, n + 1, Q[0])'
    BY <1>14, <2>12
  <2>16. RunInv(r)'
    <3>1. n + 1 \in Nat
      OBVIOUS
    <3>2. QED
      BY <1>12, <2>9, <2>13, <2>14, <2>15, <3>1 DEF RunInv
  <2>17. \A q \in Runs \ {r} : StateOf(q)' = StateOf(q)
    BY <1>10, <2>7 DEF StateOf, OutputIInv, OutputTyped
  <2>18. ~overlapped' => \A q \in Runs \ {r} : at[q] = "idle"
    BY <1>10, OthersIdle, ActiveIsKnown
  <2>19. QED
    BY <2>8, <2>16, <2>17, <2>18, StepOf
<1>17. QED
  BY <1>15, <1>16

\* The end of a stream: "done", and "error" before it if nothing but blanks came.
Ends(r, e, j) ==
    /\ e \in Seq(StreamLines) /\ AreBlocks(e, j)
    /\ e[3 * j - 2].event = "done" /\ ("truncated" \in e[3 * j - 2].flags <=> truncated[r])
    /\ \A k \in 1..j - 1 : e[3 * k - 2].event = "error" /\ AllBlank(r)

IsEvent(e, name) ==
    /\ e \in Seq(StreamLines) /\ Len(e) = 3 /\ e[1] \in EventLines
    /\ e[1].event = name /\ e[2] = EndOfLine /\ e[3] = EndOfLine

\* A stream may end with one block.
LEMMA OneEnds ==
  ASSUME NEW r, NEW e, IsEvent(e, "done"), "truncated" \in e[1].flags <=> truncated[r]
  PROVE  Ends(r, e, 1)
<1>1. \A k \in 1..1 : 3 * k - 2 = 1 /\ 3 * k - 1 = 2 /\ 3 * k = 3
  OBVIOUS
<1>2. Len(e) = 3 * 1
  BY DEF IsEvent
<1>3. AreBlocks(e, 1)
  BY <1>1, <1>2 DEF AreBlocks, IsEvent
<1>4. 3 * 1 - 2 = 1 /\ 1..1 - 1 = {}
  OBVIOUS
<1>5. QED
  BY <1>3, <1>4 DEF Ends, IsEvent

\* A stream may end with two blocks.
LEMMA TwoEnd ==
  ASSUME NEW r, NEW first, NEW last, IsEvent(first, "error"), IsEvent(last, "done"),
         "truncated" \in last[1].flags <=> truncated[r], AllBlank(r)
  PROVE  Ends(r, first \o last, 2)
<1>1. PICK e : e = first \o last
  OBVIOUS
<1>2. first \in Seq(StreamLines) /\ last \in Seq(StreamLines) /\ Len(first) = 3 /\ Len(last) = 3
  BY DEF IsEvent
<1>3. /\ e \in Seq(StreamLines) /\ Len(e) = 3 + 3
      /\ \A i \in 1..3 : e[i] = first[i]
      /\ \A i \in 3 + 1..3 + 3 : e[i] = last[i - 3]
  <2>0. first \in Seq(StreamLines) /\ last \in Seq(StreamLines)
    BY <1>2
  <2>1. /\ first \o last \in Seq(StreamLines)
        /\ Len(first \o last) = Len(first) + Len(last)
        /\ \A i \in 1..Len(first) : (first \o last)[i] = first[i]
        /\ \A i \in Len(first) + 1..Len(first) + Len(last) :
               (first \o last)[i] = last[i - Len(first)]
    BY ONLY <2>0, ConcatProperties
  <2>2. QED
    BY ONLY <1>1, <1>2, <2>1
<1>4. /\ e[1] = first[1] /\ e[2] = first[2] /\ e[3] = first[3]
      /\ e[4] = last[1] /\ e[5] = last[2] /\ e[6] = last[3]
  <2>1. 4 - 3 = 1 /\ 5 - 3 = 2 /\ 6 - 3 = 3 /\ 4 \in 3 + 1..3 + 3 /\ 5 \in 3 + 1..3 + 3
        /\ 6 \in 3 + 1..3 + 3 /\ 1 \in 1..3 /\ 2 \in 1..3 /\ 3 \in 1..3
    OBVIOUS
  <2>2. QED
    BY ONLY <1>3, <2>1
<1>5. \A k \in 1..2 : \/ k = 1 /\ 3 * k - 2 = 1 /\ 3 * k - 1 = 2 /\ 3 * k = 3
                      \/ k = 2 /\ 3 * k - 2 = 4 /\ 3 * k - 1 = 5 /\ 3 * k = 6
  OBVIOUS
<1>6. AreBlocks(e, 2)
  <2>1. Len(e) = 3 * 2
    BY ONLY <1>3
  <2>2. /\ first[1] \in EventLines /\ first[2] = EndOfLine /\ first[3] = EndOfLine
        /\ last[1] \in EventLines /\ last[2] = EndOfLine /\ last[3] = EndOfLine
    BY DEF IsEvent
  <2>3. QED
    BY ONLY <1>4, <1>5, <2>1, <2>2 DEF AreBlocks
<1>7. /\ \A k \in 1..2 - 1 : k = 1 /\ 3 * k - 2 = 1
      /\ 3 * 2 - 2 = 4
  OBVIOUS
<1>8. e[1].event = "error" /\ e[4].event = "done" /\ ("truncated" \in e[4].flags <=> truncated[r])
  BY <1>4 DEF IsEvent
<1>9. e \in Seq(StreamLines)
  BY <1>3
<1>10. Ends(r, e, 2)
  BY ONLY <1>6, <1>7, <1>8, <1>9, AllBlank(r) DEF Ends
<1>11. QED
  BY <1>1, <1>10

EndFlags(r, ok) ==
    (IF ok THEN {"ok"} ELSE {}) \cup (IF truncated[r] THEN {"truncated"} ELSE {})
Ending(r, ok) == Error(r, ok) \o Event("done", <<>>, EndFlags(r, ok))

LEMMA EndingIs ==
  ASSUME NEW r, NEW ok
  PROVE  \E j \in 1..2 : Ends(r, Ending(r, ok), j)
<1>1. PICK flags : flags = EndFlags(r, ok)
  OBVIOUS
<1>2. flags \in SUBSET {"ok", "truncated"} /\ ("truncated" \in flags <=> truncated[r])
  BY <1>1 DEF EndFlags
<1>3. PICK none \in SUBSET {"ok", "truncated"} : none = {}
  OBVIOUS
<1>4. PICK b \in Seq(Bytes) : b = <<>>
  <2>1. <<>> \in Seq(Bytes)
    OBVIOUS
  <2>2. QED
    BY <2>1
<1>5. PICK last : last = Event("done", b, flags)
  OBVIOUS
<1>6. IsEvent(last, "done") /\ last[1].flags = flags
  BY <1>2, <1>5, EventIs DEF IsEvent
<1>7. Ending(r, ok) = Error(r, ok) \o last
  BY <1>1, <1>4, <1>5 DEF Ending
<1>8. CASE Error(r, ok) = <<>>
  <2>1. <<>> \o last = last
    BY <1>6 DEF IsEvent
  <2>2. Ending(r, ok) = last
    BY <1>7, <1>8, <2>1
  <2>3. Ends(r, last, 1)
    BY <1>2, <1>6, OneEnds
  <2>4. QED
    BY <2>2, <2>3
<1>9. CASE Error(r, ok) # <<>>
  <2>1. PICK first : first = Event("error", b, none)
    OBVIOUS
  <2>2. IsEvent(first, "error")
    BY <2>1, EventIs DEF IsEvent
  <2>3. Error(r, ok) = first /\ AllBlank(r)
    BY <1>3, <1>4, <1>9, <2>1 DEF Error, AllBlank
  <2>4. Ends(r, first \o last, 2)
    BY <1>2, <1>6, <2>2, <2>3, TwoEnd
  <2>5. QED
    BY <1>7, <2>3, <2>4
<1>10. QED
  BY <1>8, <1>9

\* The end of a script appends its last blocks.
LEMMA OutputEnd ==
  ASSUME OutputIInv, NEW r \in Runs, NEW ok \in BOOLEAN, EndStream(r, ok)
  PROVE  OutputIInv'
<1>1. PICK n \in Nat : \E P : /\ Shape(r, n) /\ Contents(r, n, P) /\ Order(r, n)
                              /\ ~overlapped => Pane(r, n, P[0])
  BY DEF OutputIInv, RunInv
<1>2. PICK P : /\ Shape(r, n) /\ Contents(r, n, P) /\ Order(r, n)
               /\ ~overlapped => Pane(r, n, P[0])
  BY <1>1
<1>3. PICK e : e = Ending(r, ok)
  OBVIOUS
<1>4. PICK j \in 1..2 : Ends(r, e, j)
  BY <1>3, EndingIs
<1>5. /\ UNCHANGED <<text, written, data, truncated, at, pending, output, decoder, overlapped>>
      /\ server' = [server EXCEPT ![r] = "ended"] /\ server[r] = "running"
  BY DEF EndStream, buffer, pane
<1>6. PICK p, w, w2 : p = pending[r] /\ w = wire[r] /\ w2 = w \o e
  OBVIOUS
<1>7. p \in Seq(StreamLines) /\ w \in Seq(StreamLines) /\ Shaped(p, w, n)
  BY <1>2, <1>6 DEF OutputIInv, OutputTyped, Shape
<1>8. /\ Shaped(p, w2, n + j)
      /\ \A k \in 1..n : BlockAt(p, w2, k) = BlockAt(p, w, k)
      /\ \A k \in 1..j : BlockAt(p, w2, n + k) = e[3 * k - 2]
  <2>1. j \in Nat /\ e \in Seq(StreamLines) /\ AreBlocks(e, j)
    BY <1>4 DEF Ends
  <2>2. /\ Shaped(p, w \o e, n + j)
        /\ \A k \in 1..n : BlockAt(p, w \o e, k) = BlockAt(p, w, k)
        /\ \A k \in 1..j : BlockAt(p, w \o e, n + k) = e[3 * k - 2]
    BY <1>7, <2>1, BlocksAppended
  <2>3. QED
    BY <1>6, <2>2
<1>9. w2 \in Seq(StreamLines)
  BY <1>4, <1>6, <1>7 DEF Ends
<1>10. wire' = [wire EXCEPT ![r] = w2]
  BY <1>3, <1>6 DEF EndStream, SendLines, Ending, EndFlags
<1>11. OutputTyped'
  BY <1>5, <1>9, <1>10 DEF OutputIInv, OutputTyped
<1>12. /\ Shape(r, n + j)' /\ \A k \in 1..n : Block(r, k)' = Block(r, k)
       /\ \A k \in 1..j : Block(r, n + k)' = e[3 * k - 2]
  <2>1. wire'[r] = w2 /\ pending'[r] = p
    BY <1>5, <1>6, <1>10 DEF OutputIInv, OutputTyped
  <2>2. QED
    BY <1>6, <1>8, <2>1 DEF Shape, Block
<1>13. ASSUME NEW k \in 1..n + j
       PROVE  k \in 1..n \/ \E i \in 1..j : k = n + i
  <2>1. CASE k <= n
    BY <2>1
  <2>2. CASE k > n
    <3>1. k - n \in 1..j /\ k = n + (k - n)
      BY <2>2
    <3>2. QED
      BY <3>1
  <2>3. QED
    BY <2>1, <2>2
<1>14. PICK d \in Nat : d = Len(data[r])
  BY DEF OutputIInv, OutputTyped
<1>15. P \in [0..n -> 0..d] /\ P[n] = d
  BY <1>2, <1>14 DEF Contents
<1>16. PICK Q : Q = [k \in 0..n + j |-> IF k <= n THEN P[k] ELSE d]
  OBVIOUS
<1>17. /\ Q \in [0..n + j -> 0..d] /\ Q[n + j] = d
       /\ \A k \in 0..n : Q[k] = P[k]
       /\ \A i \in 0..j : Q[n + i] = d
  <2>1. \A k \in 0..n : Q[k] = P[k]
    BY <1>16
  <2>2. ASSUME NEW i \in 0..j
        PROVE  Q[n + i] = d
    <3>1. CASE i = 0
      BY <1>15, <2>1, <3>1
    <3>2. CASE i > 0
      <4>1. n + i \in 0..n + j /\ ~(n + i <= n)
        BY <3>2
      <4>2. QED
        BY <1>16, <4>1
    <3>3. QED
      BY <3>1, <3>2
  <2>3. \A k \in 0..n + j : Q[k] \in 0..d
    <3>1. \A k \in 0..n + j : k <= n => k \in 0..n
      OBVIOUS
    <3>2. QED
      BY <1>15, <1>16, <3>1
  <2>4. QED
    BY <1>16, <2>1, <2>2, <2>3
<1>18. Contents(r, n + j, Q)'
  <2>1. ASSUME NEW k \in 1..n
        PROVE  Brings(r, Block(r, k), Q[k - 1], Q[k])'
    <3>1. Brings(r, Block(r, k), P[k - 1], P[k])
      BY <1>2 DEF Contents
    <3>2. Q[k - 1] = P[k - 1] /\ Q[k] = P[k]
      BY <1>17
    <3>3. QED
      BY <1>5, <1>12, <3>1, <3>2, BytesStay
  <2>2. ASSUME NEW i \in 1..j
        PROVE  Brings(r, Block(r, n + i), Q[(n + i) - 1], Q[n + i])'
    <3>1. i - 1 \in 0..j /\ i \in 0..j /\ (n + i) - 1 = n + (i - 1)
      OBVIOUS
    <3>2. Q[n + (i - 1)] = d /\ Q[n + i] = d
      BY <1>17, <3>1
    <3>3. Block(r, n + i)'.event # "output"
      <4>1. Block(r, n + i)' = e[3 * i - 2]
        BY <1>12
      <4>2. i = j \/ i \in 1..j - 1
        OBVIOUS
      <4>3. QED
        BY <1>4, <4>1, <4>2 DEF Ends
    <3>4. QED
      BY <1>5, <3>1, <3>2, <3>3, BytesStay DEF Brings
  <2>3. \A k \in 1..n + j : Brings(r, Block(r, k), Q[k - 1], Q[k])'
    BY <1>13, <2>1, <2>2
  <2>4. at'[r] = "connecting" => Q[0] = 0
    BY <1>2, <1>5, <1>17 DEF Contents
  <2>5. QED
    BY <1>5, <1>14, <1>17, <2>3, <2>4 DEF Contents
<1>19. Order(r, n + j)'
  <2>1. (at[r] = "connecting" => n >= 1) /\ at[r] # "finished"
    BY <1>2, <1>5 DEF Order
  <2>2. server'[r] = "ended" /\ at'[r] = at[r] /\ (AllBlank(r)' <=> AllBlank(r))
        /\ truncated'[r] = truncated[r]
    BY <1>5 DEF AllBlank, IsBlank, Kind, OutputIInv, OutputTyped
  <2>3. ASSUME NEW k \in 1..n
        PROVE  /\ Block(r, k)'.event = "start" <=> k = 1 /\ at[r] = "connecting"
               /\ Block(r, k)'.event \notin {"error", "done"} /\ k # n + j
    BY <1>2, <1>5, <1>12 DEF Order
  <2>4. ASSUME NEW i \in 1..j
        PROVE  /\ Block(r, n + i)'.event # "start" /\ ~(n + i = 1 /\ at[r] = "connecting")
               /\ Block(r, n + i)'.event = "done" <=> n + i = n + j
               /\ Block(r, n + i)'.event = "error" => n + i = (n + j) - 1 /\ AllBlank(r)
               /\ Block(r, n + i)'.event = "done" =>
                      ("truncated" \in Block(r, n + i)'.flags <=> truncated[r])
    <3>1. Block(r, n + i)' = e[3 * i - 2]
      BY <1>12
    <3>2. i = j \/ (i = 1 /\ j = 2)
      OBVIOUS
    <3>3. CASE i = j
      <4>1. /\ Block(r, n + i)'.event = "done"
            /\ "truncated" \in Block(r, n + i)'.flags <=> truncated[r]
        BY <1>4, <3>1, <3>3 DEF Ends
      <4>2. n + i = n + j /\ ~(n + i = 1 /\ at[r] = "connecting")
        BY <2>1, <3>3
      <4>3. QED
        BY <4>1, <4>2
    <3>4. CASE i = 1 /\ j = 2
      <4>1. Block(r, n + i)'.event = "error" /\ AllBlank(r)
        BY <1>4, <3>1, <3>4 DEF Ends
      <4>2. /\ n + i # n + j /\ n + i = (n + j) - 1
            /\ ~(n + i = 1 /\ at[r] = "connecting")
        BY <2>1, <3>4
      <4>3. QED
        BY <4>1, <4>2
    <3>5. QED
      BY <3>2, <3>3, <3>4
  <2>5. \A k \in 1..n + j :
            /\ Block(r, k)'.event = "start" <=> k = 1 /\ at[r] = "connecting"
            /\ Block(r, k)'.event = "done" <=> k = n + j
            /\ Block(r, k)'.event = "error" => k = (n + j) - 1 /\ AllBlank(r)
            /\ Block(r, k)'.event = "done" =>
                   ("truncated" \in Block(r, k)'.flags <=> truncated[r])
    BY <1>13, <2>3, <2>4
  <2>6. n + j >= 1
    OBVIOUS
  <2>7. QED
    BY <2>1, <2>2, <2>5, <2>6 DEF Order
<1>20. ~overlapped' => Pane(r, n + j, Q[0])'
  <2>1. Q[0] = P[0]
    BY <1>17
  <2>2. QED
    BY <1>2, <1>5, <2>1, RunningShows
<1>21. Clean(r)' /\ Buffer(r)'
  <2>1. Buffer(r)' <=> Buffer(r)
    BY <1>5, BytesStay DEF Buffer, Characters, AsMany
  <2>2. Clean(r)'
    BY <1>5 DEF OutputIInv, OutputTyped, RunInv, Clean
  <2>3. QED
    BY <2>1, <2>2 DEF OutputIInv, RunInv
<1>22. RunInv(r)'
  <2>1. n + j \in Nat
    OBVIOUS
  <2>2. QED
    BY <1>12, <1>18, <1>19, <1>20, <1>21, <2>1 DEF RunInv
<1>23. \A q \in Runs \ {r} : StateOf(q)' = StateOf(q)
  BY <1>5, <1>10 DEF StateOf, OutputIInv, OutputTyped
<1>24. ~overlapped' => \A q \in Runs \ {r} : at[q] = "idle"
  BY <1>5, OthersIdle, ActiveIsKnown
<1>25. QED
  BY <1>11, <1>22, <1>23, <1>24, StepOf

-----------------------------------------------------------------------------
(* Output: what a block does to the pane *)

\* The first complete block is the first three lines.
LEMMA FirstBlock ==
  ASSUME NEW r \in Runs, pending[r] \in Seq(StreamLines), wire[r] \in Seq(StreamLines),
         NEW n \in Nat, Shape(r, n), Boundaries(r) # {}
  PROVE  /\ n >= 1 /\ Len(pending[r]) >= 3 /\ pending[r][1] = Block(r, 1)
         /\ Block(r, 1) \in EventLines
         /\ (CHOOSE i \in Boundaries(r) : \A j \in Boundaries(r) : i <= j) = 2
<1>1. PICK p, w : p = pending[r] /\ w = wire[r]
  OBVIOUS
<1>2. PICK a, b \in Nat : a = Len(p) /\ b = Len(w)
  BY <1>1
<1>3. a + b = 3 * n /\ Shaped(p, w, n)
  BY <1>1, <1>2 DEF Shape, Shaped
<1>4. PICK i \in 1..a - 1 : p[i] = EndOfLine /\ p[i + 1] = EndOfLine
  BY <1>1, <1>2 DEF Boundaries
<1>5. n >= 1 /\ a >= 2
  BY ONLY <1>3, <1>4, a \in Nat, b \in Nat, n \in Nat
<1>6. /\ p[1] = BlockAt(p, w, 1) /\ p[1] \in EventLines /\ p[2] = EndOfLine
      /\ a >= 3 => p[3] = EndOfLine
  <2>1. 3 * 1 - 2 = 1 /\ 3 * 1 - 1 = 2 /\ 3 * 1 = 3 /\ 1 \in 1..n
    BY <1>5
  <2>2. /\ BlockAt(p, w, 1) \in EventLines /\ LineAt(p, w, 2) = EndOfLine
        /\ LineAt(p, w, 3) = EndOfLine
    BY <1>3, <2>1 DEF Shaped
  <2>3. /\ LineAt(p, w, 1) = p[1] /\ LineAt(p, w, 2) = p[2]
        /\ a >= 3 => LineAt(p, w, 3) = p[3]
    BY <1>2, <1>5 DEF LineAt
  <2>4. BlockAt(p, w, 1) = LineAt(p, w, 1)
    BY <2>1 DEF BlockAt
  <2>5. QED
    BY <2>2, <2>3, <2>4
<1>7. p[1] # EndOfLine
  BY <1>6, EventIsNoEnd
<1>8. i # 1 /\ a >= 3
  BY <1>4, <1>7
<1>9. p[3] = EndOfLine
  BY <1>6, <1>8
<1>10. 2 \in Boundaries(r)
  BY <1>1, <1>2, <1>6, <1>8, <1>9 DEF Boundaries
<1>11. \A j \in Boundaries(r) : j \in Nat /\ 2 <= j
  BY <1>1, <1>2, <1>7 DEF Boundaries
<1>12. \A j \in Boundaries(r) : (\A l \in Boundaries(r) : j <= l) => j = 2
  BY <1>10, <1>11
<1>13. QED
  BY <1>1, <1>2, <1>5, <1>6, <1>8, <1>10, <1>11, <1>12 DEF Block

\* A run starts with an empty pane and nothing in the decoder.
LEMMA ShownStart ==
  ASSUME NEW r \in Runs, NEW n, output' = <<>>, decoder' = <<>>
  PROVE  Showing(r, n, 0)'
<1>1. 0 \in Nat /\ <<>> \in Seq(Bytes \cup {Message}) /\ Len(<<>>) = 0 /\ 1..0 = {}
  OBVIOUS
<1>2. QED
  BY <1>1 DEF Showing

\* The message follows the blanks of a script that has nothing more to send.
LEMMA ShownError ==
  ASSUME NEW r \in Runs, NEW c, Showing(r, 2, c), DispatchError, AllBlank(r),
         server[r] = "ended", UNCHANGED <<server, text, data>>
  PROVE  Showing(r, 1, c)'
<1>1. PICK m \in Nat :
          /\ output \in Seq(Bytes \cup {Message}) /\ Len(output) = m
          /\ \A i \in 1..m : output[i] = Byte(r, i)
          /\ m > 0 => text[r][m] # "lead"
          /\ \/ decoder = <<>> /\ c = m
             \/ decoder = <<Byte(r, m + 1)>> /\ text[r][m + 1] = "lead" /\ c = m + 1
  BY DEF Showing
<1>2. PICK o : o = Append(output, Message)
  OBVIOUS
<1>3. /\ o \in Seq(Bytes \cup {Message}) /\ Len(o) = m + 1
      /\ \A i \in 1..m : o[i] = output[i]
      /\ o[m + 1] = Message
  BY <1>1, <1>2
<1>4. AllBlank(r)'
  BY DEF AllBlank, IsBlank, Kind
<1>5. output' = o /\ decoder' = decoder
  BY <1>2 DEF DispatchError
<1>6. QED
  BY <1>1, <1>3, <1>4, <1>5, BytesStay DEF Showing

\* Bytes that follow those of the pane and the decoder follow on the pane, up
\* to a lead at the end, which the decoder holds back.
LEMMA ShownOutput ==
  ASSUME OutputIInv, NEW r \in Runs, NEW n, NEW c, Showing(r, n, c), n # 1 \/ server[r] # "ended",
         NEW bytes \in Seq(Bytes), \A i \in 1..Len(bytes) : bytes[i] = Byte(r, c + i),
         c + Len(bytes) <= Len(data[r]), DispatchOutput(bytes), text' = text, NEW n2
  PROVE  Showing(r, n2, c + Len(bytes))'
<1>1. PICK m \in Nat :
          /\ output \in Seq(Bytes \cup {Message}) /\ Len(output) = m
          /\ \A i \in 1..m : output[i] = Byte(r, i)
          /\ m > 0 => text[r][m] # "lead"
          /\ \/ decoder = <<>> /\ c = m
             \/ decoder = <<Byte(r, m + 1)>> /\ text[r][m + 1] = "lead" /\ c = m + 1
  BY DEF Showing
<1>2. PICK l \in Nat : l = Len(bytes)
  OBVIOUS
<1>3. PICK t \in Nat : t = Len(text[r])
  BY DEF OutputIInv, OutputTyped
<1>4. c + l <= t
  <2>1. PICK d \in Nat : d = Len(data[r]) /\ d <= t
    <3>1. Limit \in Nat /\ written[r] \in 0..t
      BY <1>3, OutputConstants DEF OutputIInv, RunInv, Buffer
    <3>2. Len(data[r]) = AsMany(written[r], Limit)
      BY DEF OutputIInv, RunInv, Buffer
    <3>3. AsMany(written[r], Limit) \in Nat /\ AsMany(written[r], Limit) <= t
      BY <3>1 DEF AsMany
    <3>4. QED
      BY <3>2, <3>3
  <2>2. c \in Nat
    BY <1>1
  <2>3. c + l <= d
    BY <1>2, <2>1
  <2>4. QED
    BY <2>1, <2>2, <2>3
<1>5. PICK s : s = decoder \o bytes
  OBVIOUS
<1>6. PICK k \in Nat : /\ m + k = c + l /\ s \in Seq(Bytes) /\ Len(s) = k
                       /\ \A i \in 1..k : s[i] = Byte(r, m + i)
  <2>1. CASE decoder = <<>> /\ c = m
    <3>1. <<>> \o bytes = bytes
      OBVIOUS
    <3>2. s = bytes
      BY <1>5, <2>1, <3>1
    <3>3. QED
      BY <1>2, <2>1, <3>2
  <2>2. CASE decoder = <<Byte(r, m + 1)>> /\ text[r][m + 1] = "lead" /\ c = m + 1
    <3>1. Byte(r, m + 1) \in Bytes
      <4>1. m + 1 \in 1..t /\ m + 1 \in Nat /\ text[r] \in Seq(Kinds)
        BY <1>3, <1>4, <2>2 DEF OutputIInv, OutputTyped
      <4>2. text[r][m + 1] \in Kinds
        BY <1>3, <4>1
      <4>3. QED
        BY <4>1, <4>2 DEF Byte, Bytes
    <3>2. PICK one : one = <<Byte(r, m + 1)>>
      OBVIOUS
    <3>3. one \in Seq(Bytes) /\ Len(one) = 1 /\ one[1] = Byte(r, m + 1)
      BY <3>1, <3>2
    <3>4. /\ one \o bytes \in Seq(Bytes) /\ Len(one \o bytes) = Len(one) + Len(bytes)
          /\ \A i \in 1..Len(one) : (one \o bytes)[i] = one[i]
          /\ \A i \in Len(one) + 1..Len(one) + Len(bytes) : (one \o bytes)[i] = bytes[i - Len(one)]
      <4>1. one \in Seq(Bytes) /\ bytes \in Seq(Bytes)
        BY <3>3
      <4>2. QED
        BY ONLY <4>1, ConcatProperties
    <3>5. s = one \o bytes
      BY <1>5, <2>2, <3>2
    <3>6. /\ s \in Seq(Bytes) /\ Len(s) = 1 + l /\ s[1] = Byte(r, m + 1)
          /\ \A i \in 1 + 1..1 + l : s[i] = bytes[i - 1]
      <4>1. 1 \in 1..1
        OBVIOUS
      <4>2. QED
        BY ONLY <1>2, <3>3, <3>4, <3>5, <4>1
    <3>7. ASSUME NEW i \in 1 + 1..1 + l
          PROVE  s[i] = Byte(r, m + i)
      <4>1. i - 1 \in 1..l /\ c + (i - 1) = m + i
        BY <2>2
      <4>2. QED
        BY <1>2, <3>6, <4>1
    <3>8. \A i \in 1..1 + l : s[i] = Byte(r, m + i)
      <4>1. \A i \in 1..1 + l : i = 1 \/ i \in 1 + 1..1 + l
        OBVIOUS
      <4>2. QED
        BY <3>6, <3>7, <4>1
    <3>9. 1 + l \in Nat /\ m + (1 + l) = c + l
      BY <2>2
    <3>10. QED
      BY <3>6, <3>8, <3>9
  <2>3. QED
    BY <1>1, <2>1, <2>2
<1>7. PICK d : d = IF k > 0 /\ text[r][m + k] = "lead" THEN 1 ELSE 0
  OBVIOUS
<1>8. d \in 0..1 /\ k - d \in Nat /\ m + (k - d) \in Nat /\ m + (k - d) + d = c + l
  BY <1>4, <1>6, <1>7
<1>9. /\ Decoded(s, FALSE) = BytesAfter(r, m, k - d)
      /\ HeldBack(s) = IF d = 1 THEN <<Byte(r, m + k)>> ELSE <<>>
      /\ m + (k - d) > 0 => text[r][m + (k - d)] # "lead"
  <2>1. text[r] \in Seq(Kinds) /\ Characters(text[r])
    BY DEF OutputIInv, OutputTyped, RunInv, Buffer
  <2>2. m + k <= Len(text[r])
    BY <1>3, <1>4, <1>6
  <2>3. m > 0 => text[r][m] # "lead"
    BY <1>1
  <2>4. Follows(r, s, m, k, d)
    BY <1>6, <1>7, <2>2, <2>3 DEF Follows
  <2>5. QED
    BY <2>1, <2>4, DecodedIs
<1>10. PICK new : new = BytesAfter(r, m, k - d)
  OBVIOUS
<1>11. new \in Seq(Bytes \cup {Message}) /\ Len(new) = k - d
  <2>1. \A i \in 1..k - d : Byte(r, m + i) \in Bytes
    <3>1. \A i \in 1..k - d : s[i] \in Bytes /\ s[i] = Byte(r, m + i)
      BY <1>6, <1>8
    <3>2. QED
      BY <3>1
  <2>2. PICK q \in Nat : q = k - d
    BY <1>8
  <2>3. new = [i \in 1..q |-> Byte(r, m + i)]
    BY <1>10, <2>2 DEF BytesAfter
  <2>4. \A i \in 1..q : Byte(r, m + i) \in Bytes \cup {Message}
    BY <2>1, <2>2
  <2>5. new \in Seq(Bytes \cup {Message}) /\ Len(new) = q
    BY ONLY <2>3, <2>4, q \in Nat
  <2>6. QED
    BY <2>2, <2>5
<1>12. PICK o : o = output \o new
  OBVIOUS
<1>13. /\ o \in Seq(Bytes \cup {Message}) /\ Len(o) = m + (k - d)
       /\ \A i \in 1..m : o[i] = output[i]
       /\ \A i \in m + 1..m + (k - d) : o[i] = new[i - m]
  <2>1. output \in Seq(Bytes \cup {Message}) /\ new \in Seq(Bytes \cup {Message})
    BY <1>1, <1>11
  <2>2. /\ output \o new \in Seq(Bytes \cup {Message})
        /\ Len(output \o new) = Len(output) + Len(new)
        /\ \A i \in 1..Len(output) : (output \o new)[i] = output[i]
        /\ \A i \in Len(output) + 1..Len(output) + Len(new) :
               (output \o new)[i] = new[i - Len(output)]
    BY ONLY <2>1, ConcatProperties
  <2>3. Len(output) = m /\ Len(new) = k - d
    BY <1>1, <1>11
  <2>4. QED
    BY ONLY <1>12, <2>2, <2>3
<1>14. ASSUME NEW i \in 1..m + (k - d)
       PROVE  o[i] = Byte(r, i)
  <2>1. CASE i \in 1..m
    BY <1>1, <1>13, <2>1
  <2>2. CASE i \in m + 1..m + (k - d)
    <3>1. i - m \in 1..k - d /\ m + (i - m) = i
      BY <1>8, <2>2
    <3>2. QED
      BY <1>10, <1>13, <2>2, <3>1 DEF BytesAfter
  <2>3. QED
    BY <1>8, <2>1, <2>2
<1>15. output' = o /\ decoder' = HeldBack(s)
  BY <1>5, <1>9, <1>10, <1>12 DEF DispatchOutput
<1>16. PICK m2 \in Nat : m2 = m + (k - d)
  BY <1>8
<1>17. \/ decoder' = <<>> /\ c + l = m2
       \/ decoder' = <<Byte(r, m2 + 1)>> /\ text[r][m2 + 1] = "lead" /\ c + l = m2 + 1
  <2>1. CASE d = 0
    BY <1>8, <1>9, <1>15, <1>16, <2>1
  <2>2. CASE d = 1
    <3>1. m2 + 1 = m + k /\ c + l = m2 + 1
      BY <1>6, <1>8, <1>16, <2>2
    <3>2. text[r][m + k] = "lead"
      BY <1>7, <2>2
    <3>3. QED
      BY <1>9, <1>15, <2>2, <3>1, <3>2
  <2>3. QED
    BY <1>8, <2>1, <2>2
<1>18. /\ o \in Seq(Bytes \cup {Message}) /\ Len(o) = m2 /\ Len(o) \in m2..m2 + 1 /\ Len(o) # m2 + 1
       /\ \A i \in 1..m2 : o[i] = Byte(r, i)
       /\ m2 > 0 => text[r][m2] # "lead"
  BY <1>9, <1>13, <1>14, <1>16
<1>19. QED
  BY <1>2, <1>15, <1>17, <1>18, BytesStay DEF Showing

PaneBytes == Bytes \cup {Message, Marker, Replacement, Completed}

\* What the decoder holds back comes out as a replacement.
LEMMA DecodedNothing ==
  Decoded(<<>>, TRUE) \in Seq(PaneBytes) /\ Len(Decoded(<<>>, TRUE)) = 0
<1>1. PICK b \in Seq(PaneBytes) : b = <<>>
  <2>1. <<>> \in Seq(PaneBytes)
    OBVIOUS
  <2>2. QED
    BY <2>1
<1>2. Len(b) = 0 /\ DOMAIN b = 1..0 /\ 1..0 = {}
  BY <1>1
<1>3. PICK f : f = Decoded(b, TRUE)
  OBVIOUS
<1>4. DOMAIN f = 1..0 /\ f = [i \in 1..0 |-> f[i]]
  BY <1>2, <1>3 DEF Decoded
<1>5. f = [i \in 1..0 |-> Message]
  BY <1>2, <1>4
<1>6. f \in Seq(PaneBytes) /\ Len(f) = 0
  <2>1. Message \in PaneBytes /\ 0 \in Nat
    BY DEF PaneBytes
  <2>2. QED
    BY ONLY <1>5, <2>1
<1>7. QED
  BY <1>1, <1>3, <1>6

LEMMA DecodedLead ==
  ASSUME NEW b, Kind(b) = "lead"
  PROVE  /\ Decoded(<<b>>, TRUE) \in Seq(PaneBytes) /\ Len(Decoded(<<b>>, TRUE)) = 1
         /\ Decoded(<<b>>, TRUE)[1] = Replacement
<1>1. PICK s : s = <<b>>
  OBVIOUS
<1>2. Len(s) = 1 /\ DOMAIN s = 1..1 /\ s[1] = b
  BY <1>1
<1>3. PICK f : f = Decoded(s, TRUE)
  OBVIOUS
<1>4. DOMAIN f = 1..1 /\ f = [i \in 1..1 |-> f[i]] /\ f[1] = Replacement
  <2>1. f = [i \in 1..1 |->
            IF \/ (i \in DOMAIN s /\ Kind(s[i]) = "lead") /\
                      ~(i + 1 \in DOMAIN s /\ Kind(s[i + 1]) = "trail")
               \/ (i \in DOMAIN s /\ Kind(s[i]) = "trail") /\
                      ~(i - 1 \in DOMAIN s /\ Kind(s[i - 1]) = "lead")
            THEN Replacement ELSE s[i]]
    BY <1>2, <1>3 DEF Decoded
  <2>2. 1 \in 1..1 /\ 1 \in DOMAIN s /\ Kind(s[1]) = "lead" /\ ~(1 + 1 \in DOMAIN s)
    BY <1>2
  <2>3. QED
    BY <2>1, <2>2
<1>5. f = [i \in 1..1 |-> Replacement]
  <2>1. \A i \in 1..1 : i = 1
    OBVIOUS
  <2>2. QED
    BY <1>4, <2>1
<1>6. f \in Seq(PaneBytes) /\ Len(f) = 1 /\ f[1] = Replacement
  <2>1. Replacement \in PaneBytes /\ 1 \in Nat
    BY DEF PaneBytes
  <2>2. QED
    BY ONLY <1>5, <2>1
<1>7. QED
  BY <1>1, <1>3, <1>6

\* Texts of the page are no bytes of a run, and differ from each other.
LEMMA PageTexts ==
  /\ Marker # Message /\ Marker # Replacement /\ Marker # Completed
  /\ Message # Replacement /\ Message # Completed /\ Kind(Replacement) = "page"
  /\ \A r \in Runs : \A i : Byte(r, i) # Marker /\ Byte(r, i) # Message
<1>1. \A r \in Runs : r # Page
  BY OutputConstants
<1>2. QED
  BY <1>1 DEF Marker, Message, Replacement, Completed, Kind, Byte

\* What follows the bytes that are shown when the stream ends.
Body(r, b, m, q, c) ==
    /\ b \in Seq(PaneBytes) /\ Len(b) = q
    /\ \A i \in 1..m : b[i] = Byte(r, i)
    /\ \/ q = m /\ c = m
       \/ q = m + 1 /\ c = m /\ b[m + 1] = Message /\ AllBlank(r)
       \/ q = m + 1 /\ c = m + 1 /\ b[m + 1] = Replacement /\ text[r][m + 1] = "lead"

LEMMA BodyIs ==
  ASSUME OutputIInv, NEW r \in Runs, NEW c, Showing(r, 1, c), c = Len(data[r])
  PROVE  \E m \in Nat : \E q \in Nat : Body(r, output \o Decoded(decoder, TRUE), m, q, c)
<1>1. PICK m \in Nat :
          /\ output \in Seq(Bytes \cup {Message}) /\ Len(output) \in m..m + 1
          /\ \A i \in 1..m : output[i] = Byte(r, i)
          /\ Len(output) = m + 1 => output[m + 1] = Message /\ AllBlank(r)
          /\ \/ decoder = <<>> /\ c = m
             \/ decoder = <<Byte(r, m + 1)>> /\ text[r][m + 1] = "lead" /\ c = m + 1
  BY DEF Showing
<1>2. PICK a \in Nat : a = Len(output)
  BY <1>1
<1>3. output \in Seq(PaneBytes)
  <2>1. Bytes \cup {Message} \subseteq PaneBytes
    BY DEF PaneBytes
  <2>2. \A i \in 1..a : output[i] \in PaneBytes
    BY <1>1, <1>2, <2>1
  <2>3. output = [i \in 1..a |-> output[i]]
    BY <1>1, <1>2
  <2>4. QED
    BY ONLY <2>2, <2>3, a \in Nat
<1>4. PICK t : t = Decoded(decoder, TRUE)
  OBVIOUS
<1>5. PICK h \in Nat : h = c - m
  <2>1. c = m \/ c = m + 1
    BY <1>1
  <2>2. c - m \in Nat
    BY ONLY <2>1, m \in Nat
  <2>3. QED
    BY <2>2
<1>6. /\ t \in Seq(PaneBytes) /\ Len(t) = h
      /\ h = 0 \/ (h = 1 /\ t[1] = Replacement /\ text[r][m + 1] = "lead" /\ a = m)
  <2>1. CASE decoder = <<>> /\ c = m
    <3>1. h = 0
      BY <1>5, <2>1
    <3>2. t = Decoded(<<>>, TRUE)
      BY <1>4, <2>1
    <3>3. t \in Seq(PaneBytes) /\ Len(t) = 0
      BY ONLY <3>2, DecodedNothing
    <3>4. QED
      BY <3>1, <3>3
  <2>2. CASE decoder = <<Byte(r, m + 1)>> /\ text[r][m + 1] = "lead" /\ c = m + 1
    <3>1. Kind(Byte(r, m + 1)) = "lead"
      BY <2>2 DEF Kind, Byte
    <3>2. h = 1
      BY <1>5, <2>2
    <3>3. ~AllBlank(r)
      <4>1. m + 1 \in DOMAIN data[r] /\ data[r][m + 1] = Byte(r, m + 1)
        <5>1. data[r] \in Seq(Bytes) /\ \A i \in 1..Len(data[r]) : data[r][i] = Byte(r, i)
          BY DEF OutputIInv, OutputTyped, RunInv, Buffer
        <5>2. m + 1 \in 1..Len(data[r])
          BY <2>2
        <5>3. QED
          BY <5>1, <5>2
      <4>2. QED
        BY <3>1, <4>1 DEF AllBlank, IsBlank
    <3>4. a = m
      BY <1>1, <1>2, <3>3
    <3>5. QED
      BY <1>4, <2>2, <3>1, <3>2, <3>4, DecodedLead
  <2>3. QED
    BY <1>1, <2>1, <2>2
<1>7. PICK b : b = output \o t
  OBVIOUS
<1>8. /\ b \in Seq(PaneBytes) /\ Len(b) = a + h
      /\ \A i \in 1..a : b[i] = output[i]
      /\ \A i \in a + 1..a + h : b[i] = t[i - a]
  <2>1. output \in Seq(PaneBytes) /\ t \in Seq(PaneBytes)
    BY <1>3, <1>6
  <2>2. /\ output \o t \in Seq(PaneBytes) /\ Len(output \o t) = Len(output) + Len(t)
        /\ \A i \in 1..Len(output) : (output \o t)[i] = output[i]
        /\ \A i \in Len(output) + 1..Len(output) + Len(t) :
               (output \o t)[i] = t[i - Len(output)]
    BY ONLY <2>1, ConcatProperties
  <2>3. Len(t) = h
    BY <1>6
  <2>4. QED
    BY ONLY <1>2, <1>7, <2>2, <2>3
<1>9. PICK q \in Nat : q = a + h
  OBVIOUS
<1>10. \A i \in 1..m : b[i] = Byte(r, i)
  BY <1>1, <1>2, <1>8
<1>11. \/ q = m /\ c = m
       \/ q = m + 1 /\ c = m /\ b[m + 1] = Message /\ AllBlank(r)
       \/ q = m + 1 /\ c = m + 1 /\ b[m + 1] = Replacement /\ text[r][m + 1] = "lead"
  <2>1. CASE h = 1
    <3>1. m + 1 \in a + 1..a + h /\ (m + 1) - a = 1 /\ q = m + 1 /\ c = m + 1
      BY <1>1, <1>5, <1>6, <1>9, <2>1
    <3>2. QED
      BY <1>6, <1>8, <2>1, <3>1
  <2>2. CASE h = 0 /\ a = m
    BY <1>1, <1>5, <1>9, <2>2
  <2>3. CASE h = 0 /\ a = m + 1
    <3>1. q = m + 1 /\ c = m /\ m + 1 \in 1..a
      BY <1>1, <1>5, <1>9, <2>3
    <3>2. QED
      BY <1>1, <1>2, <1>8, <2>3, <3>1
  <2>4. QED
    BY <1>1, <1>2, <1>6, <2>1, <2>2, <2>3
<1>12. Body(r, b, m, q, c)
  BY <1>8, <1>9, <1>10, <1>11 DEF Body
<1>13. QED
  BY <1>4, <1>7, <1>12

\* The pane that is shown at the end is faithful.
LEMMA BodyShowsAll ==
  ASSUME OutputIInv, NEW r \in Runs, NEW b, NEW m \in Nat, NEW q \in Nat, NEW c,
         Body(r, b, m, q, c), c = Len(data[r]), NEW o, NEW last \in BOOLEAN,
         last <=> truncated[r], o \in Seq(PaneBytes), Len(o) = q + (IF last THEN 1 ELSE 0),
         \A i \in 1..q : o[i] = b[i], last => o[q + 1] = Marker,
         output' = o \/ (o = <<>> /\ output' = <<Completed>>),
         UNCHANGED <<text, written>>
  PROVE  Finished(r)'
<1>1. /\ c = AsMany(written[r], Limit) /\ (truncated[r] <=> written[r] > Limit)
      /\ \A i \in 1..c : data[r][i] = Byte(r, i)
  BY DEF OutputIInv, RunInv, Buffer
<1>2. c \in Nat /\ m <= q /\ c <= q /\ q <= m + 1
  BY DEF Body
<1>3. PICK t \in Nat : t = Len(o)
  OBVIOUS
<1>4. t \in q..q + 1 /\ (last <=> t = q + 1)
  BY <1>3
<1>5. CASE o = <<>> /\ output' = <<Completed>>
  <2>1. t = 0 /\ q = 0 /\ c = 0 /\ ~last
    BY <1>2, <1>3, <1>4, <1>5
  <2>2. PICK z : z = <<Completed>>
    OBVIOUS
  <2>3. Len(z) = 1 /\ DOMAIN z = 1..1 /\ z[1] = Completed
    BY <2>2
  <2>4. \A i \in DOMAIN z : z[i] # Marker /\ z[i] # Message
    <3>1. \A i \in DOMAIN z : i = 1
      BY <2>3
    <3>2. QED
      BY <2>3, <3>1, PageTexts
  <2>5. output' = z /\ ~(written[r] > Limit)
    BY <1>1, <1>5, <2>1, <2>2
  <2>6. AsMany(written[r], Limit)' = 0 /\ 1..0 = {} /\ (written[r] > Limit)' = (written[r] > Limit)
    BY <1>1, <2>1 DEF AsMany
  <2>7. QED
    BY <2>3, <2>4, <2>5, <2>6 DEF Finished
<1>6. CASE output' = o
  <2>1. AsMany(written[r], Limit)' = c
    BY <1>1 DEF AsMany
  <2>2. Len(o) >= c /\ DOMAIN o = 1..t
    BY <1>2, <1>3, <1>4
  <2>3. ASSUME NEW i \in 1..c
        PROVE  \/ o[i] = Byte(r, i)
               \/ i = c /\ o[i] = Replacement /\ text[r][i] = "lead"
    <3>1. i \in 1..q
      BY <1>2
    <3>2. CASE i \in 1..m
      BY <3>1, <3>2 DEF Body
    <3>3. CASE i > m
      <4>1. i = m + 1 /\ q = m + 1 /\ c = m + 1
        BY <3>3 DEF Body
      <4>2. QED
        BY <3>1, <4>1 DEF Body
    <3>4. QED
      BY <3>2, <3>3
  <2>4. ASSUME NEW i \in 1..q
        PROVE  o[i] # Marker
    <3>1. CASE i \in 1..m
      BY <3>1, PageTexts DEF Body
    <3>2. CASE i = m + 1
      BY <3>2, PageTexts DEF Body
    <3>3. QED
      BY <1>2, <3>1, <3>2
  <2>5. (\E i \in DOMAIN o : o[i] = Marker) <=> written[r] > Limit
    <3>1. ASSUME last
          PROVE  q + 1 \in DOMAIN o /\ o[q + 1] = Marker
      BY <1>4, <2>2, <3>1
    <3>2. ASSUME ~last
          PROVE  \A i \in DOMAIN o : i \in 1..q
      BY <1>4, <2>2, <3>2
    <3>3. QED
      BY <1>1, <2>4, <3>1, <3>2
  <2>6. ASSUME NEW i \in DOMAIN o, o[i] = Message, NEW j \in DOMAIN o \ {i}
        PROVE  o[j] = Marker \/ (j < i /\ Kind(o[j]) = "blank")
    <3>1. CASE j \notin 1..q
      <4>1. j = q + 1 /\ last
        BY <1>4, <2>2, <3>1
      <4>2. QED
        BY <4>1
    <3>2. CASE j \in 1..q
      <4>1. i \in 1..q
        <5>1. i = q + 1 => last /\ o[i] = Marker
          BY <1>4, <2>2
        <5>2. QED
          BY <1>4, <2>2, <2>6, <5>1, PageTexts
      <4>2. ~(i \in 1..m)
        BY <2>6, <4>1, PageTexts DEF Body
      <4>3. i = m + 1 /\ q = m + 1 /\ o[i] = b[m + 1]
        BY <1>2, <4>1, <4>2
      <4>4. c = m /\ AllBlank(r)
        BY <2>6, <4>3, PageTexts DEF Body
      <4>5. j \in 1..m /\ j < i
        BY <2>6, <3>2, <4>3
      <4>6. o[j] = Byte(r, j) /\ data[r][j] = Byte(r, j)
        BY <1>1, <3>2, <4>4, <4>5 DEF Body
      <4>7. j \in DOMAIN data[r]
        <5>1. data[r] \in Seq(Bytes)
          BY DEF OutputIInv, OutputTyped
        <5>2. DOMAIN data[r] = 1..Len(data[r])
          BY <5>1
        <5>3. j \in 1..Len(data[r])
          BY <4>4, <4>5
        <5>4. QED
          BY <5>2, <5>3
      <4>8. QED
        BY <4>4, <4>5, <4>6, <4>7 DEF AllBlank, IsBlank
    <3>3. QED
      BY <3>1, <3>2
  <2>7. \A i : Byte(r, i)' = Byte(r, i)
    BY BytesStay
  <2>8. (written[r] > Limit)' = (written[r] > Limit)
    OBVIOUS
  <2>9. QED
    BY <1>6, <2>1, <2>2, <2>3, <2>5, <2>6, <2>7, <2>8 DEF Finished, Kind
<1>7. QED
  BY <1>5, <1>6

\* The last block shows what the decoder held back, and the marker.
LEMMA ShownDone ==
  ASSUME OutputIInv, NEW r \in Runs, NEW c, Showing(r, 1, c), c = Len(data[r]),
         NEW flags, "truncated" \in flags <=> truncated[r], DispatchDone(r, flags),
         UNCHANGED <<text, written>>
  PROVE  Finished(r)'
<1>1. PICK b : b = output \o Decoded(decoder, TRUE)
  OBVIOUS
<1>2. PICK m \in Nat : \E q \in Nat : Body(r, b, m, q, c)
  BY <1>1, BodyIs
<1>3. PICK q \in Nat : Body(r, b, m, q, c)
  BY <1>2
<1>4. PICK o : o = b \o (IF "truncated" \in flags THEN <<Marker>> ELSE <<>>)
  OBVIOUS
<1>5. PICK last \in BOOLEAN : last <=> "truncated" \in flags
  OBVIOUS
<1>6. b \in Seq(PaneBytes) /\ Len(b) = q
  BY <1>3 DEF Body
<1>7. /\ o \in Seq(PaneBytes) /\ Len(o) = q + (IF last THEN 1 ELSE 0)
      /\ \A i \in 1..q : o[i] = b[i]
      /\ last => o[q + 1] = Marker
  <2>1. CASE last
    <3>1. PICK z : z = <<Marker>>
      OBVIOUS
    <3>2. o = Append(b, Marker)
      <4>1. b \o <<Marker>> = Append(b, Marker)
        BY <1>6
      <4>2. QED
        BY <1>4, <1>5, <2>1, <4>1
    <3>3. Marker \in PaneBytes
      BY DEF PaneBytes
    <3>4. QED
      BY <1>6, <2>1, <3>2, <3>3
  <2>2. CASE ~last
    <3>1. b \o <<>> = b
      BY <1>6
    <3>2. o = b
      BY <1>4, <1>5, <2>2, <3>1
    <3>3. QED
      BY <1>6, <2>2, <3>2
  <2>3. QED
    BY <2>1, <2>2
<1>8. output' = o \/ (o = <<>> /\ output' = <<Completed>>)
  BY <1>1, <1>4 DEF DispatchDone
<1>9. last <=> truncated[r]
  BY <1>5
<1>10. QED
  BY <1>3, <1>7, <1>8, <1>9, BodyShowsAll

\* A block that is dispatched brings the pane on by the bytes it carries, and
\* the next block follows.
LEMMA OutputDispatch ==
  ASSUME OutputIInv, NEW r \in Runs, Dispatch(r)
  PROVE  OutputIInv'
<1>1. PICK n \in Nat : \E P : /\ Shape(r, n) /\ Contents(r, n, P) /\ Order(r, n)
                              /\ ~overlapped => Pane(r, n, P[0])
  BY DEF OutputIInv, RunInv
<1>2. PICK P : /\ Shape(r, n) /\ Contents(r, n, P) /\ Order(r, n)
               /\ ~overlapped => Pane(r, n, P[0])
  BY <1>1
<1>3. PICK p, w, p2 : p = pending[r] /\ w = wire[r] /\ p2 = SubSeq(p, 4, Len(p))
  OBVIOUS
<1>4. p \in Seq(StreamLines) /\ w \in Seq(StreamLines) /\ Shaped(p, w, n)
  BY <1>2, <1>3 DEF OutputIInv, OutputTyped, Shape
<1>5. /\ n >= 1 /\ Len(p) >= 3 /\ p[1] = Block(r, 1) /\ Block(r, 1) \in EventLines
      /\ (CHOOSE i \in Boundaries(r) : \A j \in Boundaries(r) : i <= j) = 2
  <2>1. pending[r] \in Seq(StreamLines) /\ wire[r] \in Seq(StreamLines)
        /\ Boundaries(r) # {} /\ Shape(r, n)
    BY <1>2, <1>3, <1>4 DEF Dispatch
  <2>2. QED
    BY <1>3, <2>1, FirstBlock
<1>6. PICK b : b = Block(r, 1)
  OBVIOUS
<1>7. /\ pending' = [pending EXCEPT ![r] = p2]
      /\ UNCHANGED <<server, text, written, data, truncated, wire, overlapped>>
      /\ \/ b.event = "start" /\ DispatchStart(r)
         \/ b.event = "output" /\ DispatchOutput(b.bytes)
         \/ b.event = "error" /\ DispatchError
         \/ b.event = "done" /\ DispatchDone(r, b.flags)
  <2>1. b = pending[r][1] /\ b.event \in {"start", "output", "error", "done"}
    BY <1>3, <1>5, <1>6 DEF EventLines
  <2>2. pending' = [pending EXCEPT ![r] = SubSeq(@, 2 + 2, Len(@))]
    BY <1>5 DEF Dispatch
  <2>3. /\ b.event = "start" => DispatchStart(r)
        /\ b.event = "output" => DispatchOutput(b.bytes)
        /\ b.event = "error" => DispatchError
        /\ b.event = "done" => DispatchDone(r, b.flags)
    BY <2>1 DEF Dispatch
  <2>4. UNCHANGED <<server, text, written, data, truncated, wire, overlapped>>
    BY DEF Dispatch, buffer
  <2>5. QED
    BY <1>3, <2>1, <2>2, <2>3, <2>4
<1>8. at[r] # "idle" /\ server[r] # "off"
  <2>1. pending[r] # <<>>
    BY <1>3, <1>5
  <2>2. QED
    BY <2>1, ActiveIsKnown
<1>9. /\ b.event = "start" <=> at[r] = "connecting"
      /\ at[r] \in {"connecting", "showing"}
      /\ b.event = "done" <=> n = 1 /\ server[r] = "ended"
      /\ b.event = "error" => n = 2 /\ server[r] = "ended" /\ AllBlank(r)
      /\ b.event = "done" => ("truncated" \in b.flags <=> truncated[r])
  <2>1. 1 \in 1..n
    BY <1>5
  <2>2. at[r] \in {"idle", "connecting", "showing", "finished"}
    BY DEF OutputIInv, OutputTyped
  <2>3. at[r] # "finished"
    BY <1>2, <1>5 DEF Order
  <2>4. n - 1 = 1 => n = 2
    OBVIOUS
  <2>5. QED
    BY <1>2, <1>6, <1>8, <2>1, <2>2, <2>3, <2>4 DEF Order
<1>10. /\ at' = [at EXCEPT ![r] = IF b.event = "done" THEN "finished" ELSE "showing"]
  <2>1. at \in [Runs -> {"idle", "connecting", "showing", "finished"}]
    BY DEF OutputIInv, OutputTyped
  <2>2. CASE b.event = "start" /\ DispatchStart(r)
    BY <2>2 DEF DispatchStart
  <2>3. CASE b.event = "output" /\ DispatchOutput(b.bytes)
    BY <1>9, <2>1, <2>3 DEF DispatchOutput
  <2>4. CASE b.event = "error" /\ DispatchError
    BY <1>9, <2>1, <2>4 DEF DispatchError
  <2>5. CASE b.event = "done" /\ DispatchDone(r, b.flags)
    BY <2>5 DEF DispatchDone
  <2>6. QED
    BY <1>7, <2>2, <2>3, <2>4, <2>5
<1>11. Shaped(p2, w, n - 1) /\ \A k \in 1..n - 1 : BlockAt(p2, w, k) = BlockAt(p, w, k + 1)
  <2>1. n \in Nat \ {0}
    BY <1>5
  <2>2. /\ Shaped(SubSeq(p, 4, Len(p)), w, n - 1)
        /\ \A k \in 1..n - 1 : BlockAt(SubSeq(p, 4, Len(p)), w, k) = BlockAt(p, w, k + 1)
    BY <1>4, <1>5, <2>1, BlockDropped
  <2>3. QED
    BY <1>3, <2>2
<1>12. p2 \in Seq(StreamLines)
  <2>1. 4 \in 1..Len(p) + 1 /\ Len(p) \in 0..Len(p)
    BY <1>4, <1>5
  <2>2. QED
    BY <1>3, <1>4, <2>1, SubSeqProperties
<1>13. OutputTyped'
  BY <1>7, <1>10, <1>12 DEF OutputIInv, OutputTyped
<1>14. /\ pending'[r] = p2 /\ wire'[r] = w
       /\ at'[r] = IF b.event = "done" THEN "finished" ELSE "showing"
  BY <1>3, <1>7, <1>10 DEF OutputIInv, OutputTyped
<1>15. Shape(r, n - 1)' /\ \A k \in 1..n - 1 : Block(r, k)' = Block(r, k + 1)
  BY <1>3, <1>11, <1>14 DEF Shape, Block
<1>16. PICK d \in Nat : d = Len(data[r])
  BY DEF OutputIInv, OutputTyped
<1>17. P \in [0..n -> 0..d] /\ P[n] = d
  BY <1>2, <1>16 DEF Contents
<1>18. PICK Q : Q = [k \in 0..n - 1 |-> P[k + 1]]
  OBVIOUS
<1>19. \A k \in 0..n - 1 : k + 1 \in 0..n /\ k + 1 \in 1..n
  OBVIOUS
<1>20. Q \in [0..n - 1 -> 0..d] /\ Q[n - 1] = d /\ \A k \in 0..n - 1 : Q[k] = P[k + 1]
  <2>1. n - 1 \in 0..n - 1 /\ (n - 1) + 1 = n
    BY <1>5
  <2>2. QED
    BY <1>17, <1>18, <1>19, <2>1
<1>21. Contents(r, n - 1, Q)'
  <2>1. ASSUME NEW k \in 1..n - 1
        PROVE  Brings(r, Block(r, k), Q[k - 1], Q[k])'
    <3>1. k + 1 \in 1..n /\ k - 1 \in 0..n - 1 /\ k \in 0..n - 1 /\ (k - 1) + 1 = (k + 1) - 1
      OBVIOUS
    <3>2. Brings(r, Block(r, k + 1), P[(k + 1) - 1], P[k + 1])
      BY <1>2, <3>1 DEF Contents
    <3>3. Q[k - 1] = P[(k + 1) - 1] /\ Q[k] = P[k + 1]
      BY <1>20, <3>1
    <3>4. QED
      BY <1>7, <1>15, <3>2, <3>3, BytesStay
  <2>2. at'[r] # "connecting"
    BY <1>14
  <2>3. QED
    BY <1>7, <1>16, <1>20, <2>1, <2>2 DEF Contents
<1>22. Order(r, n - 1)'
  <2>1. /\ server'[r] = server[r] /\ truncated'[r] = truncated[r]
        /\ AllBlank(r)' <=> AllBlank(r)
    BY <1>7 DEF AllBlank, IsBlank, Kind
  <2>2. ASSUME NEW k \in 1..n - 1
        PROVE  /\ Block(r, k)'.event # "start"
               /\ Block(r, k)'.event = "done" <=> k = n - 1 /\ server[r] = "ended"
               /\ Block(r, k)'.event = "error" =>
                      k = (n - 1) - 1 /\ server[r] = "ended" /\ AllBlank(r)
               /\ Block(r, k)'.event = "done" =>
                      ("truncated" \in Block(r, k)'.flags <=> truncated[r])
    <3>1. k + 1 \in 1..n /\ k + 1 # 1 /\ (k + 1 = n <=> k = n - 1)
          /\ (k + 1 = n - 1 => k = (n - 1) - 1)
      OBVIOUS
    <3>2. Block(r, k)' = Block(r, k + 1)
      BY <1>15
    <3>3. QED
      BY <1>2, <3>1, <3>2 DEF Order
  <2>3. at'[r] # "connecting"
    BY <1>14
  <2>4. at'[r] = "finished" => server[r] = "ended" /\ n - 1 = 0
    BY <1>9, <1>14
  <2>5. server[r] = "ended" => n - 1 >= 1 \/ at'[r] = "finished"
    BY <1>5, <1>9, <1>14
  <2>6. QED
    BY <2>1, <2>2, <2>3, <2>4, <2>5 DEF Order
<1>23. Clean(r)' /\ Buffer(r)'
  <2>1. Buffer(r)' <=> Buffer(r)
    BY <1>7, BytesStay DEF Buffer, Characters, AsMany
  <2>2. Clean(r)'
    BY <1>7, <1>8, <1>14 DEF Clean
  <2>3. QED
    BY <2>1, <2>2 DEF OutputIInv, RunInv
<1>24. PICK c \in 0..d : c = P[0] /\ P[1] \in 0..d /\ Brings(r, b, c, P[1]) /\ Q[0] = P[1]
  <2>1. 0 \in 0..n /\ 1 \in 0..n /\ 1 \in 1..n /\ 0 \in 0..n - 1 /\ 1 - 1 = 0 /\ 0 + 1 = 1
    BY <1>5
  <2>2. Brings(r, b, P[0], P[1])
    BY <1>2, <1>6, <2>1 DEF Contents
  <2>3. P[0] \in 0..d /\ P[1] \in 0..d /\ Q[0] = P[1]
    BY <1>17, <1>20, <2>1
  <2>4. QED
    BY <2>2, <2>3
<1>25. ASSUME ~overlapped'
       PROVE  Pane(r, n - 1, Q[0])'
  <2>1. at[r] = "showing" => Showing(r, n, c)
    BY <1>2, <1>7, <1>24, <1>25 DEF Pane
  <2>2. CASE b.event = "start" /\ DispatchStart(r)
    <3>1. c = 0 /\ P[1] = 0
      BY <1>2, <1>9, <1>24, <2>2 DEF Contents, Brings
    <3>2. Showing(r, n - 1, 0)'
      BY <2>2, ShownStart DEF DispatchStart
    <3>3. QED
      BY <1>14, <1>24, <2>2, <3>1, <3>2 DEF Pane
  <2>3. CASE b.event = "output" /\ DispatchOutput(b.bytes)
    <3>1. b.bytes \in Seq(Bytes)
      BY <1>5, <1>6 DEF EventLines
    <3>2. P[1] = c + Len(b.bytes) /\ \A i \in 1..Len(b.bytes) : b.bytes[i] = Byte(r, c + i)
      BY <1>24, <2>3 DEF Brings
    <3>3. c + Len(b.bytes) <= Len(data[r])
      BY <1>16, <1>24, <3>2
    <3>4. n # 1 \/ server[r] # "ended"
      BY <1>9, <2>3
    <3>5. Showing(r, n, c)
      BY <1>9, <2>1, <2>3
    <3>6. text' = text
      BY <1>7
    <3>7. PICK bytes \in Seq(Bytes) : bytes = b.bytes
      BY <3>1
    <3>8. Showing(r, n - 1, c + Len(bytes))'
      BY <2>3, <3>2, <3>3, <3>4, <3>5, <3>6, <3>7, ShownOutput
    <3>9. QED
      BY <1>14, <1>24, <2>3, <3>2, <3>7, <3>8 DEF Pane
  <2>4. CASE b.event = "error" /\ DispatchError
    <3>1. Showing(r, 2, c) /\ n = 2 /\ AllBlank(r) /\ server[r] = "ended"
      BY <1>9, <2>1, <2>4
    <3>2. UNCHANGED <<server, text, data>>
      BY <1>7
    <3>3. Showing(r, 1, c)'
      BY <2>4, <3>1, <3>2, ShownError
    <3>4. P[1] = c
      BY <1>24, <2>4 DEF Brings
    <3>5. n - 1 = 1
      BY <3>1
    <3>6. QED
      BY <1>14, <1>24, <2>4, <3>3, <3>4, <3>5 DEF Pane
  <2>5. CASE b.event = "done" /\ DispatchDone(r, b.flags)
    <3>1. Showing(r, 1, c) /\ n = 1 /\ ("truncated" \in b.flags <=> truncated[r])
      BY <1>9, <2>1, <2>5
    <3>2. P[1] = c /\ P[1] = d
      BY <1>17, <1>24, <2>5, <3>1 DEF Brings
    <3>3. c = Len(data[r]) /\ UNCHANGED <<text, written>>
      BY <1>7, <1>16, <3>2
    <3>4. Finished(r)'
      BY <2>5, <3>1, <3>3, ShownDone
    <3>5. QED
      BY <1>14, <2>5, <3>4 DEF Pane
  <2>6. QED
    BY <1>7, <2>2, <2>3, <2>4, <2>5
<1>26. RunInv(r)'
  <2>1. n - 1 \in Nat
    BY <1>5
  <2>2. QED
    BY <1>15, <1>21, <1>22, <1>23, <1>25, <2>1 DEF RunInv
<1>27. \A q \in Runs \ {r} : StateOf(q)' = StateOf(q)
  BY <1>7, <1>10 DEF StateOf, OutputIInv, OutputTyped
<1>28. ~overlapped' => \A q \in Runs \ {r} : at[q] = "idle"
  BY <1>7, <1>8, OthersIdle
<1>29. QED
  BY <1>13, <1>26, <1>27, <1>28, StepOf

-----------------------------------------------------------------------------
(* Output: the invariant, and what it shows *)

\* Steps of others keep the inductive invariant.
LEMMA OutputUnchanged ==
  ASSUME OutputIInv, UNCHANGED outputVars
  PROVE  OutputIInv'
<1>1. UNCHANGED <<server, text, written, data, truncated, wire, at, pending, output, decoder,
                  runState, overlapped>>
  BY DEF outputVars, buffer, pane
<1>2. OutputTyped' /\ OneAtATime'
  BY <1>1 DEF OutputIInv, OutputTyped, OneAtATime
<1>3. ASSUME NEW r \in Runs
      PROVE  RunInv(r)'
  <2>1. StateOf(r)' = StateOf(r)
    BY <1>1 DEF StateOf
  <2>2. PICK n \in Nat : \E P : /\ Shape(r, n) /\ Contents(r, n, P) /\ Order(r, n)
                                /\ ~overlapped => Pane(r, n, P[0])
    BY DEF OutputIInv, RunInv
  <2>3. PICK P : /\ Shape(r, n) /\ Contents(r, n, P) /\ Order(r, n)
                 /\ ~overlapped => Pane(r, n, P[0])
    BY <2>2
  <2>4. ~overlapped' => Pane(r, n, P[0])'
    <3>1. AllBlank(r)' <=> AllBlank(r)
      BY <1>1 DEF AllBlank, IsBlank, Kind
    <3>2. Showing(r, n, P[0])' <=> Showing(r, n, P[0])
      BY <1>1, <3>1, BytesStay DEF Showing
    <3>3. Finished(r)' <=> Finished(r)
      BY <1>1, BytesStay DEF Finished, AsMany, Kind
    <3>4. QED
      BY <1>1, <2>3, <3>2, <3>3 DEF Pane
  <2>5. QED
    BY <2>1, <2>3, <2>4, SameRun DEF OutputIInv, RunInv
<1>4. QED
  BY <1>2, <1>3 DEF OutputIInv

\* Every step keeps the inductive invariant.
LEMMA OutputStep == OutputIInv /\ [OutputNext]_outputVars => OutputIInv'
<1> SUFFICES ASSUME OutputIInv, [OutputNext]_outputVars PROVE OutputIInv'
  OBVIOUS
<1>1. CASE UNCHANGED outputVars
  BY <1>1, OutputUnchanged
<1>2. CASE OutputNext
  <2>1. PICK r \in Runs :
            \/ Execute(r) \/ RunRefused(r) \/ StartStream(r)
            \/ \E n \in 1..Len(text[r]) : Write(r, n)
            \/ \E ok \in BOOLEAN : EndStream(r, ok)
            \/ \E n \in 1..Len(wire[r]) : Read(r, n)
            \/ Dispatch(r) \/ StreamOver(r) \/ StreamLost(r)
    BY <1>2 DEF OutputNext
  <2>2. CASE Execute(r)
    BY <2>2, OutputExecute
  <2>3. CASE RunRefused(r)
    BY <2>3, OutputRefused
  <2>4. CASE StartStream(r)
    BY <2>4, OutputStart
  <2>5. CASE \E n \in 1..Len(text[r]) : Write(r, n)
    BY <2>5, OutputWrite
  <2>6. CASE \E ok \in BOOLEAN : EndStream(r, ok)
    BY <2>6, OutputEnd
  <2>7. CASE \E n \in 1..Len(wire[r]) : Read(r, n)
    BY <2>7, OutputRead
  <2>8. CASE Dispatch(r)
    BY <2>8, OutputDispatch
  <2>9. CASE StreamOver(r)
    <3>1. Over(r) /\ at[r] # "idle" /\ UNCHANGED overlapped
      BY <2>9 DEF StreamOver
    <3>2. QED
      BY <3>1, OutputOver
  <2>10. CASE StreamLost(r)
    <3>1. Over(r) /\ at[r] # "idle" /\ UNCHANGED overlapped
      BY <2>10 DEF StreamLost
    <3>2. QED
      BY <3>1, OutputOver
  <2>11. QED
    BY <2>1, <2>2, <2>3, <2>4, <2>5, <2>6, <2>7, <2>8, <2>9, <2>10
<1>3. QED
  BY <1>1, <1>2

\* The inductive invariant says more than PaneIsFaithful.
LEMMA FaithfulPane == OutputIInv => PaneIsFaithful
<1> SUFFICES ASSUME OutputIInv PROVE PaneIsFaithful
  OBVIOUS
<1>1. ASSUME NEW r \in Runs, at[r] = "showing", ~overlapped
      PROVE  \E m \in Nat :
                 /\ m <= written[r]
                 /\ output \in Seq(Bytes \cup {Message}) /\ Len(output) \in m..m + 1
                 /\ \A i \in 1..m : output[i] = Byte(r, i)
                 /\ Len(output) = m + 1 => output[m + 1] = Message
                        /\ \A i \in 1..m : Kind(output[i]) = "blank"
  <2>1. PICK n \in Nat : \E P : Contents(r, n, P) /\ Pane(r, n, P[0])
    BY <1>1 DEF OutputIInv, RunInv
  <2>2. PICK P : Contents(r, n, P) /\ Pane(r, n, P[0])
    BY <2>1
  <2>3. PICK m \in Nat :
            /\ output \in Seq(Bytes \cup {Message}) /\ Len(output) \in m..m + 1
            /\ \A i \in 1..m : output[i] = Byte(r, i)
            /\ Len(output) = m + 1 => output[m + 1] = Message /\ AllBlank(r)
            /\ P[0] = m \/ P[0] = m + 1
    BY <1>1, <2>2 DEF Pane, Showing
  <2>4. PICK d \in Nat : d = Len(data[r]) /\ d <= written[r]
    <3>1. Limit \in Nat /\ written[r] \in Nat /\ Len(data[r]) = AsMany(written[r], Limit)
      BY OutputConstants DEF OutputIInv, OutputTyped, RunInv, Buffer
    <3>2. AsMany(written[r], Limit) \in Nat /\ AsMany(written[r], Limit) <= written[r]
      BY <3>1 DEF AsMany
    <3>3. QED
      BY <3>1, <3>2
  <2>5. m <= d
    <3>1. P[0] \in 0..d
      BY <2>2, <2>4 DEF Contents
    <3>2. QED
      BY <2>3, <3>1
  <2>6. m <= written[r]
    <3>1. written[r] \in Nat
      BY DEF OutputIInv, OutputTyped
    <3>2. QED
      BY <2>4, <2>5, <3>1
  <2>7. ASSUME AllBlank(r), NEW i \in 1..m
        PROVE  Kind(output[i]) = "blank"
    <3>1. i \in 1..Len(data[r])
      BY <2>4, <2>5
    <3>2. data[r] \in Seq(Bytes) /\ data[r][i] = Byte(r, i)
      BY <3>1 DEF OutputIInv, OutputTyped, RunInv, Buffer
    <3>3. i \in DOMAIN data[r]
      BY <3>1, <3>2
    <3>4. QED
      BY <2>3, <2>7, <3>2, <3>3 DEF AllBlank, IsBlank
  <2>8. QED
    BY <2>3, <2>6, <2>7
<1>2. ShowsWhatWasWritten
  <2>1. ASSUME NEW r \in Runs, Alone(r, "showing"), NEW i \in DOMAIN output
        PROVE  \/ i <= written[r] /\ output[i] = Byte(r, i)
               \/ output[i] = Message /\ i = Len(output)
    <3>1. PICK m \in Nat :
              /\ m <= written[r]
              /\ output \in Seq(Bytes \cup {Message}) /\ Len(output) \in m..m + 1
              /\ \A j \in 1..m : output[j] = Byte(r, j)
              /\ Len(output) = m + 1 => output[m + 1] = Message
      BY <1>1, <2>1 DEF Alone
    <3>2. i \in 1..m \/ (i = m + 1 /\ Len(output) = m + 1)
      BY <3>1
    <3>3. written[r] \in Nat
      BY DEF OutputIInv, OutputTyped
    <3>4. QED
      BY <3>1, <3>2, <3>3
  <2>2. QED
    BY <2>1 DEF ShowsWhatWasWritten
<1>3. ASSUME NEW r \in Runs, Alone(r, "finished")
      PROVE  Finished(r)
  BY <1>3 DEF Alone, OutputIInv, RunInv, Pane
<1>4. FinishedShowsAll
  BY <1>3 DEF FinishedShowsAll, Finished
<1>5. MessageOnlyIfSilent
  <2>1. ASSUME NEW r \in Runs, Alone(r, "showing"), NEW i \in DOMAIN output,
               output[i] = Message, NEW j \in DOMAIN output \ {i}
        PROVE  j < i /\ Kind(output[j]) = "blank"
    <3>1. PICK m \in Nat :
              /\ output \in Seq(Bytes \cup {Message}) /\ Len(output) \in m..m + 1
              /\ \A l \in 1..m : output[l] = Byte(r, l)
              /\ Len(output) = m + 1 => \A l \in 1..m : Kind(output[l]) = "blank"
      BY <1>1, <2>1 DEF Alone
    <3>2. i \notin 1..m
      BY <2>1, <3>1, PageTexts
    <3>3. i = m + 1 /\ Len(output) = m + 1 /\ j \in 1..m
      BY <2>1, <3>1, <3>2
    <3>4. QED
      BY <3>1, <3>3
  <2>2. QED
    BY <1>3, <2>1 DEF MessageOnlyIfSilent, Finished
<1>6. QED
  BY <1>2, <1>4, <1>5 DEF PaneIsFaithful

\* The variables keep their types: blocks of the stream are of the four
\* events, and bytes are those of runs.
THEOREM OutputTypes == OutputSpec => []OutputTyped
<1>1. OutputIInv => OutputTyped
  BY DEF OutputIInv
<1>2. QED
  BY OutputInitially, OutputStep, <1>1, PTL DEF OutputSpec

\* However buffer and network cut the output of a script, and whatever became
\* of the runs before it, the pane shows what was written, in order and each
\* byte once; in the end all up to the limit, and a message only after blanks
\* (limitedBuffer.Write, consumeSSE, dispatchSSE).
THEOREM UserReadsTheOutput == OutputSpec => []PaneIsFaithful
BY OutputInitially, OutputStep, FaithfulPane, PTL DEF OutputSpec

=============================================================================
