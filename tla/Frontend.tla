------------------------------ MODULE Frontend ------------------------------
(***************************************************************************)
(* The browser's side: assets/app.js in several tabs of one browser, which *)
(* share the session cookie and nothing else.  A tab's page is the state   *)
(* object with what the page shows; its requests and its WebSocket end     *)
(* whenever the server and the network let them.  Of the server there are  *)
(* the sessions, the logins and the CSRF check; who a terminal belongs to  *)
(* and what becomes of it there is in Terminal.                            *)
(*                                                                         *)
(* A session stands for its cookie's token and for its CSRF token.         *)
(***************************************************************************)
EXTENDS Naturals

CONSTANTS
    Tab, Account, Session,
    Request,    \* bound: requests a browser has under way
    Socket,     \* bound: sockets a page has at once, closing ones included
    Console,    \* bound: the tabs that open terminals
    None

VARIABLES
    owner,      \* of each session ever made, its account
    valid,      \* the sessions in the database
    cookie,     \* the browser's cookie
    page,       \* of each tab, its script's state
    sock,       \* of each tab, its WebSockets
    req         \* the requests under way

vars == <<owner, valid, cookie, page, sock, req>>

\* crossed: /api/me was answered after a login; overtaken: a socket was made
\* while one that a sign-out let go was still closing.
Page == [loading : BOOLEAN, user : Account \cup {None},
         csrf : Session \cup {None}, socket : Socket \cup {None},
         status : {"connecting", "connected", "disconnected"},
         crossed : BOOLEAN, overtaken : BOOLEAN]

\* cookie and csrf as they were sent; account is the one to log in as, the
\* one the page showed, or the one in the answer.
Call == [kind : {"login", "me", "act", "logout"}, tab : Tab, alive : BOOLEAN,
         cookie : Session \cup {None}, csrf : Session \cup {None},
         account : Account \cup {None}, session : Session \cup {None},
         crossed : BOOLEAN, stage : {"sent", "ok", "refused", "lost"}]

\* None is none of the values it stands beside.
ASSUME NoneAssumption ==
    /\ None \notin Account \cup Session \cup Socket
    /\ None \notin Call

NewPage == [loading |-> TRUE, user |-> None, csrf |-> None, socket |-> None,
            status |-> "connecting", crossed |-> FALSE, overtaken |-> FALSE]

TypeOK ==
    /\ owner \in [Session -> Account \cup {None}]
    /\ valid \subseteq Session
    /\ cookie \in Session \cup {None}
    /\ page \in [Tab -> Page]
    /\ sock \in [Tab -> [Socket -> {"none", "connecting", "open", "closing"}]]
    /\ req \in [Request -> Call \cup {None}]
    /\ \A t \in Tab : page[t].socket # None => page[t].user # None

Init ==
    /\ owner = [s \in Session |-> None] /\ valid = {} /\ cookie = None
    /\ page = [t \in Tab |-> NewPage]
    /\ sock = [t \in Tab |-> [k \in Socket |-> "none"]]
    /\ req = [r \in Request |-> None]

-----------------------------------------------------------------------------
(* The page.                                                               *)

Is(r, kind, stages) ==
    req[r] # None /\ req[r].kind = kind /\ req[r].stage \in stages
Ended == {"ok", "refused", "lost"}
Free(r) == req' = [req EXCEPT ![r] = None]

\* api: the browser adds the cookie, which a login does not read, the script
\* the token it holds, unless the request is a GET.
api(t, r, kind, a) ==
    /\ req[r] = None
    /\ req' = [req EXCEPT ![r] =
         [kind |-> kind, tab |-> t, alive |-> TRUE,
          cookie |-> IF kind = "login" THEN None ELSE cookie,
          csrf |-> IF kind = "me" THEN None ELSE page[t].csrf,
          account |-> a, session |-> None,
          crossed |-> kind = "act" /\ page[t].crossed, stage |-> "sent"]]

\* A new socket although the page has one.
connectTerminal_Bad(t, p) ==
    IF p.user = None \/ t \notin Console
    THEN page' = [page EXCEPT ![t] = p] /\ UNCHANGED sock
    ELSE \E k \in Socket :
           /\ sock[t][k] = "none"
           /\ sock' = [sock EXCEPT ![t][k] = "connecting"]
           /\ page' = [page EXCEPT ![t] =
                [p EXCEPT !.socket = k, !.status = "connecting"]]

\* connectTerminal, in a page whose state is p.
connectTerminal(t, p) ==
    IF p.socket # None \/ p.user = None \/ t \notin Console
    THEN page' = [page EXCEPT ![t] = p] /\ UNCHANGED sock
    ELSE \E k \in Socket :
           /\ sock[t][k] = "none"
           /\ sock' = [sock EXCEPT ![t][k] = "connecting"]
           /\ page' = [page EXCEPT ![t] =
                [p EXCEPT !.socket = k, !.status = "connecting",
                          !.overtaken = @ \/ \E j \in Socket : sock[t][j] = "closing"]]

\* close() on the page's socket; the close event comes later.
CloseSocket(t) ==
    sock' = IF page[t].socket = None THEN sock
            ELSE [sock EXCEPT ![t][page[t].socket] = "closing"]

\* submitAuth: login, registration or the first account.  (The form has no
\* field for the name of a login, so that the page's own logins are refused:
\* HandleLogin does more than the pages can make it do.)
Submit(t, r, a) ==
    /\ page[t].user = None
    /\ api(t, r, "login", a)
    /\ UNCHANGED <<owner, valid, cookie, page, sock>>

\* initialize, when /api/status has been answered.
SendMe(t, r) ==
    /\ page[t].loading
    /\ page' = [page EXCEPT ![t].loading = FALSE]
    /\ api(t, r, "me", None)
    /\ UNCHANGED <<owner, valid, cookie, sock>>

\* A button of the administration that changes something.
Act(t, r) ==
    /\ page[t].user # None
    /\ api(t, r, "act", page[t].user)
    /\ UNCHANGED <<owner, valid, cookie, page, sock>>

SignOut(t, r) ==
    /\ page[t].user # None
    /\ api(t, r, "logout", None)
    /\ UNCHANGED <<owner, valid, cookie, page, sock>>

NewSession(t) ==
    /\ page[t].user # None /\ page[t].socket = None
    /\ connectTerminal(t, page[t])
    /\ UNCHANGED <<owner, valid, cookie, req>>

\* Forgets the socket at once.
closeTerminal_Bad(t) ==
    /\ page[t].user # None
    /\ CloseSocket(t)
    /\ page' = [page EXCEPT ![t].socket = None]
    /\ UNCHANGED <<owner, valid, cookie, req>>

closeTerminal(t) ==
    /\ page[t].user # None
    /\ CloseSocket(t)
    /\ UNCHANGED <<owner, valid, cookie, page, req>>

\* createSession has set the cookie; api keeps the token; enterConsole.
LoggedIn(r) ==
    LET c == req[r] t == c.tab IN
    /\ Is(r, "login", {"ok"})
    /\ cookie' = c.session
    /\ connectTerminal(t, [page[t] EXCEPT !.csrf = c.session, !.user = c.account,
                                          !.crossed = FALSE])
    /\ Free(r)
    /\ UNCHANGED <<owner, valid>>

\* initialize enters the console as the account of the answer.
MeAnswered(r) ==
    LET c == req[r] t == c.tab IN
    /\ Is(r, "me", {"ok"})
    /\ connectTerminal(t, [page[t] EXCEPT !.user = c.account,
                                          !.crossed = page[t].csrf # None])
    /\ Free(r)
    /\ UNCHANGED <<owner, valid, cookie>>

\* The socket is closed but not let go.
LoggedOut_Bad(r) ==
    LET t == req[r].tab IN
    /\ Is(r, "logout", Ended)
    /\ Free(r)
    /\ cookie' = IF req[r].stage = "ok" THEN None ELSE cookie
    /\ CloseSocket(t)
    /\ page' = [page EXCEPT ![t].user = None, ![t].csrf = None,
                            ![t].crossed = FALSE]
    /\ UNCHANGED <<owner, valid>>

\* logout goes on after an error as after an answer; only the latter takes
\* the cookie away.
LoggedOut(r) ==
    LET t == req[r].tab IN
    /\ Is(r, "logout", Ended)
    /\ Free(r)
    /\ cookie' = IF req[r].stage = "ok" THEN None ELSE cookie
    /\ CloseSocket(t)
    /\ page' = [page EXCEPT ![t].user = None, ![t].csrf = None,
                            ![t].socket = None, ![t].crossed = FALSE]
    /\ UNCHANGED <<owner, valid>>

OpenEvent(t, k) ==
    /\ sock[t][k] = "connecting"
    /\ sock' = [sock EXCEPT ![t][k] = "open"]
    /\ page' = [page EXCEPT ![t].status = "connected"]
    /\ UNCHANGED <<owner, valid, cookie, req>>

\* The handshake was refused, the server or the network ended the
\* connection, or the page did.
CloseEvent(t, k) ==
    /\ sock[t][k] # "none"
    /\ sock' = [sock EXCEPT ![t][k] = "none"]
    /\ page' = [page EXCEPT ![t].socket = None, ![t].status = "disconnected"]
    /\ UNCHANGED <<owner, valid, cookie, req>>

\* The script starts again; its requests are abandoned and may yet arrive.
Reload(t) ==
    /\ page' = [page EXCEPT ![t] = NewPage]
    /\ sock' = [sock EXCEPT ![t] = [k \in Socket |-> "none"]]
    /\ req' = [r \in Request |->
         IF req[r] = None \/ req[r].tab # t THEN req[r]
         ELSE IF req[r].stage = "sent" THEN [req[r] EXCEPT !.alive = FALSE]
         ELSE None]
    /\ UNCHANGED <<owner, valid, cookie>>

-----------------------------------------------------------------------------
(* The server and the network.                                             *)

\* An answer that changes nothing but what is shown is left out.
Answer(r, stage, a, s) ==
    req' = [req EXCEPT ![r] =
        IF req[r].alive /\ (req[r].kind = "logout" \/ stage = "ok")
        THEN [req[r] EXCEPT !.stage = stage, !.account = a, !.session = s]
        ELSE None]

Authenticated(r) == req[r].cookie \in valid

\* Any token will do.
checkCSRF_Bad(r) == req[r].csrf # None

\* The header carries the token of the cookie's session.
checkCSRF(r) == req[r].csrf # None /\ req[r].csrf = req[r].cookie

HandleLogin(r) ==
    /\ Is(r, "login", {"sent"})
    /\ \E s \in Session :
         /\ owner[s] = None
         /\ owner' = [owner EXCEPT ![s] = req[r].account]
         /\ valid' = valid \cup {s}
         /\ Answer(r, "ok", req[r].account, s)
    /\ UNCHANGED <<cookie, page, sock>>

HandleMe(r) ==
    /\ Is(r, "me", {"sent"}) /\ Authenticated(r)
    /\ Answer(r, "ok", owner[req[r].cookie], None)
    /\ UNCHANGED <<owner, valid, cookie, page, sock>>

HandleAct(r) ==
    /\ Is(r, "act", {"sent"}) /\ Authenticated(r) /\ checkCSRF(r)
    /\ Free(r)
    /\ UNCHANGED <<owner, valid, cookie, page, sock>>

HandleLogout(r) ==
    /\ Is(r, "logout", {"sent"}) /\ Authenticated(r) /\ checkCSRF(r)
    /\ valid' = valid \ {req[r].cookie}
    /\ Answer(r, "ok", None, None)
    /\ UNCHANGED <<owner, cookie, page, sock>>

\* A wrong password, no session, the CSRF check.
HandleRefuse(r) ==
    /\ req[r] # None /\ req[r].stage = "sent"
    /\ req[r].kind # "login" => ~Authenticated(r) \/
                                (req[r].kind \in {"act", "logout"} /\ ~checkCSRF(r))
    /\ Answer(r, "refused", None, None)
    /\ UNCHANGED <<owner, valid, cookie, page, sock>>

\* The request or its answer is lost.
Lose(r) ==
    /\ req[r] # None /\ req[r].stage \in {"sent", "ok"}
    /\ Answer(r, "lost", None, None)
    /\ UNCHANGED <<owner, valid, cookie, page, sock>>

\* Expiry, a reset, or an administrator.
Revoke(s) ==
    /\ s \in valid /\ valid' = valid \ {s}
    /\ UNCHANGED <<owner, cookie, page, sock, req>>

Handle(r) ==
    \/ HandleLogin(r) \/ HandleMe(r) \/ HandleAct(r) \/ HandleLogout(r)
    \/ HandleRefuse(r)
Receive(r) == LoggedIn(r) \/ MeAnswered(r) \/ LoggedOut(r)

Next ==
    \/ \E t \in Tab :
         \/ \E r \in Request :
              \/ \E a \in Account : Submit(t, r, a)
              \/ SendMe(t, r) \/ Act(t, r) \/ SignOut(t, r)
         \/ \E k \in Socket : OpenEvent(t, k) \/ CloseEvent(t, k)
         \/ NewSession(t) \/ closeTerminal(t) \/ Reload(t)
    \/ \E r \in Request : Handle(r) \/ Receive(r) \/ Lose(r)
    \/ \E s \in Session : Revoke(s)

Spec == Init /\ [][Next]_vars

-----------------------------------------------------------------------------
(* Properties.                                                             *)

Live(t) == {k \in Socket : sock[t][k] \in {"connecting", "open"}}

\* The page knows its connection: what it holds is a socket that has not had
\* its close event, and it has no other that is alive (connectTerminal and
\* the close handler).  It loses count when a sign-out and a login outrun the
\* old socket's close event.
OneSocket ==
    \A t \in Tab :
        /\ page[t].socket # None => sock[t][page[t].socket] # "none"
        /\ page[t].overtaken \/ Live(t) \subseteq {page[t].socket}

\* With the same exception, the console shows an open terminal as connected,
\* and as connected none that is gone (setTerminalStatus).
StatusIsTrue ==
    \A t \in Tab : page[t].user # None /\ ~page[t].overtaken =>
        /\ (\E k \in Socket : sock[t][k] = "open") => page[t].status = "connected"
        /\ page[t].status = "connected" => page[t].socket # None

\* What the server does for a button of a tab it does for the account that
\* tab showed, whoever has logged in in another tab since (checkCSRF), unless
\* /api/me was answered in it after its login.
ActsForShown ==
    [][\A r \in Request :
         HandleAct(r) /\ ~req[r].crossed => owner[req[r].cookie] = req[r].account]_vars

=============================================================================
