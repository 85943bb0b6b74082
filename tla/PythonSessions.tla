--------------------------- MODULE PythonSessions ---------------------------
(***************************************************************************)
(* Signing in to and out of the Python workspace (src/python_ide.go): the  *)
(* session store, the handlers that use it, and one browser with its       *)
(* cookies, which sends requests while others are under way and receives   *)
(* the responses in any order, or not at all.                              *)
(*                                                                         *)
(* Handlers read the clock before they lock the store.  A token is random  *)
(* and never drawn twice; a malformed cookie is none.                      *)
(***************************************************************************)
EXTENDS Integers, FiniteSets

CONSTANTS Tokens,    \* the session tokens that may be drawn
          Requests,  \* requests under way at once
          Lifetime,  \* pythonSessionLifetime
          MaxTime,   \* bound of the clock
          None

ASSUME SessionConstants == /\ Lifetime \in Nat \ {0}
                           /\ MaxTime \in Nat
                           /\ None \notin Tokens \cup Nat \cup {"session", "basic"}

VARIABLES
    now,        \* the clock
    sessions,   \* pythonSessionStore.sessions: expiry of each token, or None
    request,    \* the requests under way
    cookie,     \* the browser's session cookie: a token or None
    loggedOut,  \* has it the logout cookie?
    basic,      \* does it send Basic credentials?
    born,       \* history: when each token was created, or None
    abandoned,  \* history: tokens in requests whose response was lost
    serial,     \* history: has every request waited for the response before?
    signedOut   \* history: has the user signed out, and entered nothing since?

browser == <<cookie, loggedOut, basic>>
history == <<born, abandoned, serial, signedOut>>
vars    == <<now, sessions, request, browser, history>>

Idle == [at |-> "idle"]
Busy == {q \in Requests : request[q] # Idle}

Init ==
    /\ now = 0
    /\ sessions = [k \in Tokens |-> None]
    /\ request = [q \in Requests |-> Idle]
    /\ cookie = None
    /\ loggedOut = FALSE
    /\ basic = FALSE
    /\ born = [k \in Tokens |-> None]
    /\ abandoned = {}
    /\ serial = TRUE
    /\ signedOut = FALSE

Tick ==
    /\ now < MaxTime
    /\ now' = now + 1
    /\ UNCHANGED <<sessions, request, browser, history>>

-----------------------------------------------------------------------------
(* The browser *)

\* A request for the page (or to run a script), to sign in or to sign out,
\* with what its handler looks at.
Send(q, kind) ==
    /\ request[q] = Idle
    /\ request' = [request EXCEPT ![q] =
          [at |-> "sent", kind |-> kind, cookie |-> cookie,
           out |-> kind = "page" /\ loggedOut,
           basic |-> kind = "page" /\ basic,
           late |-> kind = "page" /\ signedOut,
           time |-> None, result |-> None]]
    /\ serial' = (serial /\ Busy = {})
    /\ UNCHANGED <<now, sessions, browser, born, abandoned, signedOut>>

\* The response arrives with its cookies.
FaultySignedOut == UNCHANGED loggedOut      \* leaves Basic credentials to work
SignedOut == loggedOut' = TRUE
Receive(q) ==
    /\ request[q].at = "response"
    /\ \/ /\ request[q].kind = "login" /\ request[q].result # None
          /\ cookie' = request[q].result
          /\ loggedOut' = FALSE
          /\ signedOut' = FALSE
       \/ /\ request[q].kind = "logout"
          /\ cookie' = None
          /\ SignedOut
          /\ signedOut' = TRUE
       \/ /\ request[q].kind = "page" \/ request[q].result = None
          /\ request[q].kind # "logout"
          /\ UNCHANGED <<cookie, loggedOut, signedOut>>
    /\ request' = [request EXCEPT ![q] = Idle]
    /\ UNCHANGED <<now, sessions, basic, born, abandoned, serial>>

\* The request never reached the server, or the response not the browser.
Lose(q) ==
    /\ request[q].at \in {"sent", "response"}
    /\ request' = [request EXCEPT ![q] = Idle]
    /\ abandoned' = abandoned \cup ({request[q].cookie} \ {None})
    /\ serial' = FALSE
    /\ UNCHANGED <<now, sessions, browser, born, signedOut>>

\* The user enters Basic credentials, which the browser then keeps sending.
EnterBasic ==
    /\ ~basic
    /\ basic' = TRUE
    /\ signedOut' = FALSE
    /\ UNCHANGED <<now, sessions, request, cookie, loggedOut, born, abandoned,
                   serial>>

\* Only the session cookie has a Max-Age and survives the end of the browser.
Restart ==
    /\ Busy = {}
    /\ basic' = FALSE
    /\ loggedOut' = FALSE
    /\ UNCHANGED <<now, sessions, request, cookie, history>>

\* Max-Age counts from the response, so never less than the session's life.
CookieExpires ==
    /\ cookie # None
    /\ now >= born[cookie] + Lifetime
    /\ cookie' = None
    /\ UNCHANGED <<now, sessions, request, loggedOut, basic, history>>

-----------------------------------------------------------------------------
(* The handlers *)

Alive(k, t) == sessions[k] # None /\ sessions[k] > t

To(q, label) == request' = [request EXCEPT ![q].at = label]

\* time.Now(), evaluated before the store is locked.
ReadClock(q) ==
    /\ request[q].at = "sent"
    /\ request[q].kind # "logout"
    /\ request' = [request EXCEPT ![q].at = "clock", ![q].time = now]
    /\ UNCHANGED <<now, sessions, browser, history>>

\* pythonLogin: wrong credentials, an unreadable form, or no random bytes.
LoginRefused(q) ==
    /\ request[q].at = "clock"
    /\ request[q].kind = "login"
    /\ To(q, "response")
    /\ UNCHANGED <<now, sessions, browser, history>>

\* create: sweep what has expired and add a session.
Swept(t) == [k \in Tokens |-> IF Alive(k, t) THEN sessions[k] ELSE None]
Create(q, k) ==
    /\ request[q].at = "clock"
    /\ request[q].kind = "login"
    /\ born[k] = None
    /\ LET t == request[q].time
       IN /\ sessions' = [Swept(t) EXCEPT ![k] = t + Lifetime]
          /\ born' = [born EXCEPT ![k] = t]
    /\ request' = [request EXCEPT ![q].at = "revoke", ![q].result = k,
                                  ![q].time = None]
    /\ UNCHANGED <<now, browser, abandoned, serial, signedOut>>

Revoked(k) == IF k = None THEN sessions ELSE [sessions EXCEPT ![k] = None]

\* pythonLogin revokes the session it replaces.
FaultyRotate(q) ==         \* forgets to
    /\ request[q].at = "revoke"
    /\ To(q, "response")
    /\ UNCHANGED <<now, sessions, browser, history>>
Rotate(q) ==
    /\ request[q].at = "revoke"
    /\ sessions' = Revoked(request[q].cookie)
    /\ To(q, "response")
    /\ UNCHANGED <<now, browser, history>>

\* pythonLogout needs no session, and takes no time.
Logout(q) ==
    /\ request[q].at = "sent"
    /\ request[q].kind = "logout"
    /\ sessions' = Revoked(request[q].cookie)
    /\ To(q, "response")
    /\ UNCHANGED <<now, browser, history>>

\* pythonAuthenticated: by the session, or by Basic credentials if there is
\* no session cookie.  A session that is no longer valid is deleted.
Accepts(r) ==
    CASE r.out            -> None
      [] r.cookie # None  -> IF Alive(r.cookie, r.time) THEN "session" ELSE None
      [] OTHER            -> IF r.basic THEN "basic" ELSE None
Authenticate(q) ==
    LET r == request[q]
    IN /\ r.at = "clock"
       /\ r.kind = "page"
       /\ request' = [request EXCEPT ![q].at = "response",
                                     ![q].result = Accepts(r)]
       /\ sessions' = IF r.out \/ r.cookie = None \/ Accepts(r) = "session"
                      THEN sessions ELSE Revoked(r.cookie)
       /\ UNCHANGED <<now, browser, history>>

-----------------------------------------------------------------------------

Next ==
    \/ Tick
    \/ EnterBasic
    \/ Restart
    \/ CookieExpires
    \/ \E q \in Requests :
           \/ \E kind \in {"page", "login", "logout"} : Send(q, kind)
           \/ Receive(q)
           \/ Lose(q)
           \/ ReadClock(q)
           \/ LoginRefused(q)
           \/ \E k \in Tokens : Create(q, k)
           \/ Rotate(q)
           \/ Logout(q)
           \/ Authenticate(q)

Spec == Init /\ [][Next]_vars

-----------------------------------------------------------------------------
(* Properties *)

\* No session works past its lifetime: a request accepted for its session read
\* the clock before the session expired, however old the entry in the store.
DeadSessionsRefused ==
    \A q \in Requests :
        request[q].at = "response" /\ request[q].kind = "page"
            /\ request[q].result = "session"
        => request[q].time < born[request[q].cookie] + Lifetime

\* After the user signed out no request is let in until the user enters
\* credentials again, or a login is answered, perhaps one that was sent before
\* the sign-out: not by Basic credentials the browser keeps sending, nor by a
\* session, whatever else was under way.
SignedOutStaysOut ==
    \A q \in Requests :
        request[q].at = "response" /\ request[q].kind = "page" /\ request[q].late
        => request[q].result = None

\* The session in the jar works until it expires, unless a request that ends
\* it is under way or its response was lost: logins and logouts that overlap
\* and answers that arrive out of order never leave a browser with the cookie
\* of a revoked session.
CookieWorks ==
    \/ cookie \in abandoned \cup {None}
    \/ \E q \in Busy : request[q].kind # "page" /\ request[q].cookie = cookie
    \/ now >= born[cookie] + Lifetime
    \/ Alive(cookie, now) /\ ~loggedOut

\* If the browser sends one request at a time and no response is lost, the
\* store has no live session but the one in its jar: signing in again replaces
\* the session.
NoStraySession ==
    serial /\ Busy = {} =>
        \A k \in Tokens : Alive(k, now) => k = cookie

\* The store and the browser agree about which session lives, and how long.
SessionsAgree == DeadSessionsRefused /\ CookieWorks /\ NoStraySession
=============================================================================
