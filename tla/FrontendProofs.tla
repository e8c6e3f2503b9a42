--------------------------- MODULE FrontendProofs ---------------------------
(***************************************************************************)
(* The pages of Frontend act for the account they show and know the socket *)
(* they have, for any number of tabs, accounts, sessions, requests and     *)
(* sockets.                                                                *)
(***************************************************************************)
EXTENDS Frontend, TLAPS

\* The token a page holds is that of the account it shows.
TokenOK(t) ==
    page[t].csrf # None /\ ~page[t].crossed =>
        page[t].user # None /\ owner[page[t].csrf] = page[t].user

\* So is the one it sends; what it is answered is true and stays so.
CallOK(r) ==
    req[r] # None =>
        /\ req[r].kind = "login" => req[r].account \in Account
        /\ req[r].kind = "login" /\ req[r].stage = "ok" =>
              req[r].session \in Session /\ owner[req[r].session] = req[r].account
        /\ req[r].kind = "me" /\ req[r].stage = "ok" => req[r].account \in Account
        /\ req[r].kind = "act" /\ req[r].csrf # None /\ ~req[r].crossed =>
              req[r].account \in Account /\ owner[req[r].csrf] = req[r].account

\* Unless it was overtaken, a page that holds a socket has no other, not even
\* a closing one, and a page that holds none has at most closing ones.
SocketOK(t) ==
    /\ page[t].socket # None => sock[t][page[t].socket] # "none"
    /\ ~page[t].overtaken =>
          \A k \in Socket : sock[t][k] # "none" =>
              IF page[t].socket = None THEN sock[t][k] = "closing" ELSE page[t].socket = k

\* What it shows is the state of that socket.
StatusOK(t) ==
    /\ t \notin Console => /\ page[t].status # "connected"
                          /\ \A k \in Socket : sock[t][k] = "none"
    /\ page[t].user # None /\ ~page[t].overtaken =>
          /\ page[t].status = "connected" => page[t].socket # None
          /\ page[t].socket # None /\ sock[t][page[t].socket] = "open" =>
                page[t].status = "connected"

OwnersKnown == \A s \in valid : owner[s] # None

FrontendInv ==
    /\ TypeOK
    /\ OwnersKnown
    /\ \A r \in Request : CallOK(r)
    /\ \A t \in Tab : TokenOK(t)
    /\ \A t \in Tab : SocketOK(t) /\ StatusOK(t)

USE DEF Is

-----------------------------------------------------------------------------
(* What the parts depend on.                                               *)

\* Steps that leave the pages alone and at most add an owner.
Grows == \A s \in Session : owner[s] # None => owner'[s] = owner[s]

LEMMA PagesKept ==
  ASSUME FrontendInv, UNCHANGED <<page, sock>>, Grows
  PROVE  \A t \in Tab : TokenOK(t)' /\ SocketOK(t)' /\ StatusOK(t)'
<1> SUFFICES ASSUME NEW t \in Tab PROVE TokenOK(t)' /\ SocketOK(t)' /\ StatusOK(t)'
  OBVIOUS
<1>1. page[t].csrf \in Session \cup {None}
  BY DEF FrontendInv, TypeOK, Page
<1>2. TokenOK(t)'
  BY <1>1 DEF FrontendInv, TokenOK, Grows
<1>3. SocketOK(t)' /\ StatusOK(t)'
  BY DEF FrontendInv, SocketOK, StatusOK
<1> QED
  BY <1>2, <1>3

LEMMA CallKept ==
  ASSUME FrontendInv, Grows, NEW r \in Request, req'[r] = req[r]
  PROVE  CallOK(r)'
<1>1. req[r] # None => req[r].csrf \in Session \cup {None}
  BY DEF FrontendInv, TypeOK, Call
<1>2. CallOK(r)
  BY DEF FrontendInv
<1> QED
  BY <1>1, <1>2, NoneAssumption DEF CallOK, Grows

LEMMA SameOwner == UNCHANGED owner => Grows
  BY DEF Grows

-----------------------------------------------------------------------------
(* Calls.                                                                  *)

LEMMA ApiStep ==
  ASSUME FrontendInv, NEW t \in Tab, NEW r \in Request,
         NEW kind \in {"login", "me", "act", "logout"}, NEW a \in Account \cup {None},
         api(t, r, kind, a), UNCHANGED owner,
         kind = "login" => a \in Account,
         kind = "act" => a = page[t].user
  PROVE  /\ req' \in [Request -> Call \cup {None}]
         /\ \A q \in Request : CallOK(q)'
<1> DEFINE c == [kind |-> kind, tab |-> t, alive |-> TRUE,
                 cookie |-> IF kind = "login" THEN None ELSE cookie,
                 csrf |-> IF kind = "me" THEN None ELSE page[t].csrf,
                 account |-> a, session |-> None,
                 crossed |-> kind = "act" /\ page[t].crossed, stage |-> "sent"]
<1>1. req' = [req EXCEPT ![r] = c] /\ req \in [Request -> Call \cup {None}]
  BY DEF api, FrontendInv, TypeOK
<1>2. page[t] \in Page /\ cookie \in Session \cup {None}
  BY DEF FrontendInv, TypeOK
<1>3. c \in Call
  BY <1>2 DEF Call, Page
<1>4. CallOK(r)'
  <2>1. req'[r] = c
    BY <1>1
  <2>2. TokenOK(t) /\ page[t].user \in Account \cup {None}
    BY <1>2 DEF FrontendInv, Page
  <2> QED
    BY <2>1, <2>2, <1>2 DEF CallOK, TokenOK, Page
<1>5. \A q \in Request : q # r => CallOK(q)'
  BY <1>1, CallKept, SameOwner
<1> QED
  BY <1>1, <1>3, <1>4, <1>5

LEMMA CallStep ==
  ASSUME FrontendInv,
         NEW t \in Tab, NEW r \in Request, NEW kind \in {"login", "act", "logout"},
         NEW a \in Account \cup {None}, api(t, r, kind, a),
         kind = "login" => a \in Account,
         kind = "act" => a = page[t].user,
         UNCHANGED <<owner, valid, cookie, page, sock>>
  PROVE  FrontendInv'
<1>1. /\ req' \in [Request -> Call \cup {None}]
      /\ \A q \in Request : CallOK(q)'
  BY ApiStep
<1>2. TypeOK' /\ OwnersKnown'
  BY <1>1 DEF FrontendInv, TypeOK, OwnersKnown
<1> QED
  BY <1>1, <1>2, PagesKept, SameOwner DEF FrontendInv

LEMMA SendMeStep ==
  ASSUME FrontendInv, NEW t \in Tab, NEW r \in Request, SendMe(t, r)
  PROVE  FrontendInv'
<1>1. /\ req' \in [Request -> Call \cup {None}]
      /\ \A q \in Request : CallOK(q)'
  BY ApiStep DEF SendMe
<1>2. page' = [page EXCEPT ![t] = [page[t] EXCEPT !.loading = FALSE]]
  BY DEF SendMe
<1>3. page \in [Tab -> Page]
  BY DEF FrontendInv, TypeOK
<1>4. page' \in [Tab -> Page]
  BY <1>2, <1>3 DEF Page
<1>5. \A u \in Tab : /\ page'[u].user = page[u].user /\ page'[u].csrf = page[u].csrf
                      /\ page'[u].socket = page[u].socket /\ page'[u].status = page[u].status
                      /\ page'[u].crossed = page[u].crossed
                      /\ page'[u].overtaken = page[u].overtaken
  BY <1>2, <1>3 DEF Page
<1>6. UNCHANGED <<owner, valid, cookie, sock>>
  BY DEF SendMe
<1>7. TypeOK'
  BY <1>1, <1>4, <1>5, <1>6 DEF FrontendInv, TypeOK
<1>8. OwnersKnown' /\ \A u \in Tab : TokenOK(u)' /\ SocketOK(u)' /\ StatusOK(u)'
  BY <1>5, <1>6 DEF FrontendInv, OwnersKnown, TokenOK, SocketOK, StatusOK
<1> QED
  BY <1>1, <1>7, <1>8 DEF FrontendInv

\* An answer that is kept is a logout's or a true one.
LEMMA AnswerStep ==
  ASSUME FrontendInv, Grows, NEW r \in Request, req[r] # None,
         NEW stage \in {"ok", "refused", "lost"},
         NEW a \in Account \cup {None}, NEW s \in Session \cup {None},
         Answer(r, stage, a, s),
         stage = "ok" => \/ req[r].kind = "logout"
                         \/ req[r].kind = "me" /\ a \in Account
                         \/ /\ req[r].kind = "login" /\ a \in Account
                            /\ s \in Session /\ owner'[s] = a
  PROVE  /\ req' \in [Request -> Call \cup {None}]
         /\ \A q \in Request : CallOK(q)'
<1> DEFINE c == [req[r] EXCEPT !.stage = stage, !.account = a, !.session = s]
<1>1. req \in [Request -> Call \cup {None}] /\ req[r] \in Call
  BY DEF FrontendInv, TypeOK
<1>2. req' = [req EXCEPT ![r] = IF req[r].alive /\ (req[r].kind = "logout" \/ stage = "ok")
                               THEN c ELSE None]
  BY DEF Answer
<1>3. c \in Call /\ c.kind = req[r].kind /\ c.stage = stage /\ c.account = a
      /\ c.session = s
  BY <1>1 DEF Call
<1>4. req' \in [Request -> Call \cup {None}]
  BY <1>1, <1>2, <1>3
<1>5. CallOK(r)'
  <2>1. CASE req'[r] = None
    BY <2>1 DEF CallOK
  <2>2. CASE req'[r] # None
    <3>1. req'[r] = c /\ (req[r].kind = "logout" \/ stage = "ok")
      BY <1>1, <1>2, <2>2
    <3> QED
      BY <1>3, <3>1 DEF CallOK
  <2> QED
    BY <2>1, <2>2
<1>6. \A q \in Request : q # r => CallOK(q)'
  BY <1>1, <1>2, CallKept
<1> QED
  BY <1>4, <1>5, <1>6

LEMMA FreeStep ==
  ASSUME FrontendInv, Grows, NEW r \in Request, Free(r)
  PROVE  /\ req' \in [Request -> Call \cup {None}]
         /\ \A q \in Request : CallOK(q)'
<1>1. req \in [Request -> Call \cup {None}] /\ req' = [req EXCEPT ![r] = None]
  BY DEF FrontendInv, TypeOK, Free
<1>2. CallOK(r)'
  BY <1>1 DEF CallOK
<1>3. \A q \in Request : q # r => CallOK(q)'
  BY <1>1, CallKept
<1> QED
  BY <1>1, <1>2, <1>3

-----------------------------------------------------------------------------
(* The server.                                                             *)

LEMMA LoginHandled ==
  ASSUME FrontendInv, NEW r \in Request, HandleLogin(r)
  PROVE  FrontendInv'
<1>1. PICK s \in Session : /\ owner[s] = None
                           /\ owner' = [owner EXCEPT ![s] = req[r].account]
                           /\ valid' = valid \cup {s}
                           /\ Answer(r, "ok", req[r].account, s)
  BY DEF HandleLogin
<1>2. req[r] # None /\ req[r].kind = "login" /\ req[r].account \in Account
  BY DEF HandleLogin, FrontendInv, CallOK
<1>3. owner \in [Session -> Account \cup {None}] /\ valid \subseteq Session
  BY DEF FrontendInv, TypeOK
<1>4. Grows /\ owner'[s] = req[r].account
  BY <1>1, <1>3 DEF Grows
<1>5. /\ req' \in [Request -> Call \cup {None}]
      /\ \A q \in Request : CallOK(q)'
  BY <1>1, <1>2, <1>4, AnswerStep
<1>6. UNCHANGED <<cookie, page, sock>>
  BY DEF HandleLogin
<1>7. TypeOK'
  BY <1>1, <1>2, <1>3, <1>5, <1>6 DEF FrontendInv, TypeOK
<1>8. OwnersKnown'
  BY <1>1, <1>2, <1>3, NoneAssumption DEF FrontendInv, OwnersKnown
<1> QED
  BY <1>4, <1>5, <1>6, <1>7, <1>8, PagesKept DEF FrontendInv

\* The other steps of the server make no owner and no session.
LEMMA ServerKeeps ==
  ASSUME FrontendInv, UNCHANGED <<owner, cookie, page, sock>>, valid' \subseteq valid,
         req' \in [Request -> Call \cup {None}], \A q \in Request : CallOK(q)'
  PROVE  FrontendInv'
<1>1. TypeOK' /\ OwnersKnown'
  BY DEF FrontendInv, TypeOK, OwnersKnown
<1> QED
  BY <1>1, PagesKept, SameOwner DEF FrontendInv

LEMMA MeHandled ==
  ASSUME FrontendInv, NEW r \in Request, HandleMe(r)
  PROVE  FrontendInv'
<1>1. /\ req[r] # None /\ req[r].kind = "me" /\ req[r].cookie \in valid
      /\ Answer(r, "ok", owner[req[r].cookie], None)
      /\ UNCHANGED <<owner, valid, cookie, page, sock>>
  BY DEF HandleMe, Authenticated
<1>2. owner[req[r].cookie] \in Account
  BY <1>1 DEF FrontendInv, TypeOK, OwnersKnown
<1> QED
  BY <1>1, <1>2, AnswerStep, SameOwner, ServerKeeps

LEMMA Handled ==
  ASSUME FrontendInv, NEW r \in Request,
         HandleAct(r) \/ HandleLogout(r) \/ HandleRefuse(r) \/ Lose(r)
  PROVE  FrontendInv'
<1>1. CASE HandleAct(r)
  BY <1>1, FreeStep, SameOwner, ServerKeeps DEF HandleAct
<1>2. CASE HandleLogout(r)
  BY <1>2, AnswerStep, SameOwner, ServerKeeps DEF HandleLogout
<1>3. CASE HandleRefuse(r)
  BY <1>3, AnswerStep, SameOwner, ServerKeeps DEF HandleRefuse
<1>4. CASE Lose(r)
  BY <1>4, AnswerStep, SameOwner, ServerKeeps DEF Lose
<1> QED
  BY <1>1, <1>2, <1>3, <1>4

LEMMA Revoked ==
  ASSUME FrontendInv, NEW s \in Session, Revoke(s)
  PROVE  FrontendInv'
<1>1. \A q \in Request : CallOK(q)'
  BY CallKept, SameOwner DEF Revoke
<1> QED
  BY <1>1, ServerKeeps DEF Revoke, FrontendInv, TypeOK

-----------------------------------------------------------------------------
(* The page.                                                               *)

States == {"none", "connecting", "open", "closing"}

\* A step of one tab leaves the others alone.
LEMMA PageStep ==
  ASSUME FrontendInv, NEW t \in Tab, NEW p \in Page, NEW k \in [Socket -> States],
         page' = [page EXCEPT ![t] = p], sock' = [sock EXCEPT ![t] = k],
         UNCHANGED <<owner, valid>>, cookie' \in Session \cup {None},
         req' \in [Request -> Call \cup {None}], \A q \in Request : CallOK(q)',
         p.socket # None => p.user # None,
         TokenOK(t)', SocketOK(t)', StatusOK(t)'
  PROVE  FrontendInv'
<1>1. page \in [Tab -> Page] /\ sock \in [Tab -> [Socket -> States]]
  BY DEF FrontendInv, TypeOK, States
<1>2. page' \in [Tab -> Page] /\ sock' \in [Tab -> [Socket -> States]]
  BY <1>1
<1>3. \A u \in Tab : page'[u].socket # None => page'[u].user # None
  BY <1>1 DEF FrontendInv, TypeOK
<1>4. TypeOK' /\ OwnersKnown'
  BY <1>2, <1>3 DEF FrontendInv, TypeOK, OwnersKnown, States
<1>5. ASSUME NEW u \in Tab \ {t} PROVE TokenOK(u)' /\ SocketOK(u)' /\ StatusOK(u)'
  <2>1. page'[u] = page[u] /\ sock'[u] = sock[u]
    BY <1>1
  <2>2. TokenOK(u) /\ SocketOK(u) /\ StatusOK(u)
    BY DEF FrontendInv
  <2> QED
    BY <2>1, <2>2 DEF TokenOK, SocketOK, StatusOK
<1> QED
  BY <1>4, <1>5 DEF FrontendInv

LEMMA PageTyped ==
  ASSUME FrontendInv, NEW t \in Tab
  PROVE  /\ page \in [Tab -> Page] /\ page[t] \in Page
         /\ sock \in [Tab -> [Socket -> States]] /\ sock[t] \in [Socket -> States]
         /\ req \in [Request -> Call \cup {None}] /\ cookie \in Session \cup {None}
         /\ TokenOK(t) /\ SocketOK(t) /\ StatusOK(t)
         /\ page[t].socket # None => page[t].user # None
         /\ None \notin Socket
  BY NoneAssumption DEF FrontendInv, TypeOK, States

\* connectTerminal, in a page with the socket and the status it had.
LEMMA ConnectStep ==
  ASSUME FrontendInv, NEW t \in Tab, NEW p \in Page, connectTerminal(t, p),
         p.socket = page[t].socket, p.status = page[t].status,
         p.overtaken = page[t].overtaken, p.user \in Account,
         p.csrf # None /\ ~p.crossed => owner[p.csrf] = p.user,
         UNCHANGED <<owner, valid>>, cookie' \in Session \cup {None},
         req' \in [Request -> Call \cup {None}], \A q \in Request : CallOK(q)'
  PROVE  FrontendInv'
<1>1. p.user # None
  BY NoneAssumption
<1>2. CASE p.socket # None \/ t \notin Console
  <2>1. page' = [page EXCEPT ![t] = p] /\ sock' = [sock EXCEPT ![t] = sock[t]]
    BY <1>2, PageTyped DEF connectTerminal
  <2>2. page'[t] = p /\ sock'[t] = sock[t]
    BY <2>1, PageTyped
  <2>3. TokenOK(t)'
    BY <1>1, <2>2 DEF TokenOK
  <2>4. SocketOK(t)'
    BY <2>2, PageTyped DEF SocketOK
  <2>5. StatusOK(t)'
    BY <1>2, <2>2, PageTyped DEF StatusOK, Page
  <2> QED
    BY <1>1, <2>1, <2>3, <2>4, <2>5, PageStep, PageTyped
<1>3. CASE p.socket = None /\ t \in Console
  <2>1. PICK k \in Socket :
          /\ sock[t][k] = "none"
          /\ sock' = [sock EXCEPT ![t][k] = "connecting"]
          /\ page' = [page EXCEPT ![t] =
                [p EXCEPT !.socket = k, !.status = "connecting",
                          !.overtaken = @ \/ \E j \in Socket : sock[t][j] = "closing"]]
    BY <1>1, <1>3 DEF connectTerminal
  <2> DEFINE q == [p EXCEPT !.socket = k, !.status = "connecting",
                            !.overtaken = @ \/ \E j \in Socket : sock[t][j] = "closing"]
             ks == [sock[t] EXCEPT ![k] = "connecting"]
  <2>2. /\ q \in Page /\ q.socket = k /\ q.status = "connecting" /\ q.user = p.user
        /\ q.csrf = p.csrf /\ q.crossed = p.crossed
        /\ q.overtaken = (p.overtaken \/ \E j \in Socket : sock[t][j] = "closing")
    BY DEF Page
  <2>3. ks \in [Socket -> States]
    BY PageTyped DEF States
  <2>4. page' = [page EXCEPT ![t] = q] /\ sock' = [sock EXCEPT ![t] = ks]
    BY <2>1
  <2>5. page'[t] = q /\ sock'[t] = ks
    BY <2>4, PageTyped
  <2>6. TokenOK(t)'
    BY <1>1, <2>2, <2>5 DEF TokenOK
  <2>7. SocketOK(t)'
    <3>1. ks[k] = "connecting" /\ \A j \in Socket : j # k => ks[j] = sock[t][j]
      BY PageTyped
    <3>2. ~q.overtaken => \A j \in Socket : sock[t][j] = "none"
      BY <1>3, <2>2, PageTyped DEF SocketOK
    <3> QED
      BY <2>2, <2>5, <3>1, <3>2, PageTyped DEF SocketOK
  <2>8. StatusOK(t)'
    <3>1. ks[k] = "connecting"
      BY PageTyped
    <3> QED
      BY <1>3, <2>2, <2>5, <3>1 DEF StatusOK
  <2> QED
    BY <1>1, <2>2, <2>3, <2>4, <2>6, <2>7, <2>8, PageStep
<1> QED
  BY <1>2, <1>3

LEMMA LoggedInStep ==
  ASSUME FrontendInv, NEW r \in Request, LoggedIn(r)
  PROVE  FrontendInv'
<1> DEFINE t == req[r].tab
           p == [page[t] EXCEPT !.csrf = req[r].session, !.user = req[r].account,
                                !.crossed = FALSE]
<1>1. /\ req[r] # None /\ req[r].kind = "login" /\ req[r].stage = "ok"
      /\ cookie' = req[r].session /\ connectTerminal(t, p) /\ Free(r)
      /\ UNCHANGED <<owner, valid>>
  BY DEF LoggedIn
<1>2. t \in Tab
  BY <1>1 DEF FrontendInv, TypeOK, Call
<1>3. /\ req[r].session \in Session /\ req[r].account \in Account
      /\ owner[req[r].session] = req[r].account
  BY <1>1 DEF FrontendInv, CallOK
<1>4. /\ p \in Page /\ p.user = req[r].account /\ p.csrf = req[r].session
      /\ p.socket = page[t].socket /\ p.status = page[t].status
      /\ p.overtaken = page[t].overtaken
  BY <1>2, <1>3, PageTyped DEF Page
<1>5. /\ req' \in [Request -> Call \cup {None}]
      /\ \A q \in Request : CallOK(q)'
  BY <1>1, FreeStep, SameOwner
<1> HIDE DEF p
<1> QED
  BY <1>1, <1>2, <1>3, <1>4, <1>5, ConnectStep

LEMMA MeAnsweredStep ==
  ASSUME FrontendInv, NEW r \in Request, MeAnswered(r)
  PROVE  FrontendInv'
<1> DEFINE t == req[r].tab
           p == [page[t] EXCEPT !.user = req[r].account,
                                !.crossed = page[t].csrf # None]
<1>1. /\ req[r] # None /\ req[r].kind = "me" /\ req[r].stage = "ok"
      /\ connectTerminal(t, p) /\ Free(r) /\ UNCHANGED <<owner, valid, cookie>>
  BY DEF MeAnswered
<1>2. t \in Tab
  BY <1>1 DEF FrontendInv, TypeOK, Call
<1>3. req[r].account \in Account
  BY <1>1 DEF FrontendInv, CallOK
<1>4. /\ p \in Page /\ p.user = req[r].account /\ p.csrf = page[t].csrf
      /\ p.crossed = (page[t].csrf # None)
      /\ p.socket = page[t].socket /\ p.status = page[t].status
      /\ p.overtaken = page[t].overtaken
  BY <1>2, <1>3, PageTyped DEF Page
<1>5. /\ req' \in [Request -> Call \cup {None}]
      /\ \A q \in Request : CallOK(q)'
  BY <1>1, FreeStep, SameOwner
<1>6. cookie' \in Session \cup {None}
  BY <1>1, <1>2, PageTyped
<1> HIDE DEF p
<1> QED
  BY <1>1, <1>2, <1>3, <1>4, <1>5, <1>6, ConnectStep

LEMMA CallsKept ==
  ASSUME FrontendInv, UNCHANGED <<owner, req>>
  PROVE  /\ req' \in [Request -> Call \cup {None}]
         /\ \A q \in Request : CallOK(q)'
  BY CallKept, SameOwner DEF FrontendInv, TypeOK

LEMMA NewSessionStep ==
  ASSUME FrontendInv, NEW t \in Tab, NewSession(t)
  PROVE  FrontendInv'
<1>1. page[t].user \in Account
  BY PageTyped DEF NewSession, Page
<1> QED
  BY <1>1, ConnectStep, CallsKept, PageTyped DEF NewSession, TokenOK

\* After close() the page's socket is closing, and no other changes.
LEMMA CloseSocketStep ==
  ASSUME FrontendInv, NEW t \in Tab, CloseSocket(t)
  PROVE  \E k \in [Socket -> States] :
           /\ sock' = [sock EXCEPT ![t] = k]
           /\ page[t].socket # None => k[page[t].socket] = "closing"
           /\ \A j \in Socket : j # page[t].socket => k[j] = sock[t][j]
<1>1. page[t].socket \in Socket \cup {None}
  BY PageTyped DEF Page
<1>2. CASE page[t].socket = None
  <2>1. sock' = [sock EXCEPT ![t] = sock[t]]
    BY <1>2, PageTyped DEF CloseSocket
  <2> QED
    BY <1>2, <2>1, PageTyped
<1>3. CASE page[t].socket # None
  <2> DEFINE k == [sock[t] EXCEPT ![page[t].socket] = "closing"]
  <2>1. sock' = [sock EXCEPT ![t] = k]
    BY <1>3 DEF CloseSocket
  <2>2. /\ k \in [Socket -> States] /\ k[page[t].socket] = "closing"
        /\ \A j \in Socket : j # page[t].socket => k[j] = sock[t][j]
    BY <1>1, <1>3, PageTyped DEF States
  <2> HIDE DEF k
  <2> QED
    BY <2>1, <2>2
<1> QED
  BY <1>2, <1>3

LEMMA CloseTerminalStep ==
  ASSUME FrontendInv, NEW t \in Tab, closeTerminal(t)
  PROVE  FrontendInv'
<1>1. PICK k \in [Socket -> States] :
           /\ sock' = [sock EXCEPT ![t] = k]
           /\ page[t].socket # None => k[page[t].socket] = "closing"
           /\ \A j \in Socket : j # page[t].socket => k[j] = sock[t][j]
  BY CloseSocketStep DEF closeTerminal
<1>2. /\ page' = page /\ page' = [page EXCEPT ![t] = page[t]]
      /\ UNCHANGED <<owner, valid, cookie, req>>
  BY PageTyped DEF closeTerminal
<1>3. sock'[t] = k
  BY <1>1, PageTyped
<1>4. SocketOK(t)' /\ StatusOK(t)' /\ TokenOK(t)'
  BY <1>1, <1>2, <1>3, PageTyped DEF SocketOK, StatusOK, TokenOK, Page
<1> QED
  BY <1>1, <1>2, <1>4, PageStep, PageTyped, CallsKept

LEMMA LoggedOutStep ==
  ASSUME FrontendInv, NEW r \in Request, LoggedOut(r)
  PROVE  FrontendInv'
<1>1. PICK t \in Tab : t = req[r].tab
  BY DEF LoggedOut, FrontendInv, TypeOK, Call
<1> DEFINE p == [page[t] EXCEPT !.user = None, !.csrf = None, !.socket = None,
                                !.crossed = FALSE]
<1>2. /\ CloseSocket(t) /\ Free(r) /\ UNCHANGED <<owner, valid>>
      /\ cookie' \in {None, cookie}
      /\ page' = [page EXCEPT ![t] = p]
  BY <1>1 DEF LoggedOut
<1>3. PICK k \in [Socket -> States] :
           /\ sock' = [sock EXCEPT ![t] = k]
           /\ page[t].socket # None => k[page[t].socket] = "closing"
           /\ \A j \in Socket : j # page[t].socket => k[j] = sock[t][j]
  BY <1>1, <1>2, CloseSocketStep
<1>4. /\ p \in Page /\ p.user = None /\ p.csrf = None /\ p.socket = None
      /\ p.status = page[t].status /\ p.overtaken = page[t].overtaken
  <2>1. page[t] \in Page
    BY PageTyped
  <2> QED
    BY <2>1 DEF Page
<1>5. page'[t] = p /\ sock'[t] = k
  BY <1>1, <1>2, <1>3, PageTyped
<1>6. TokenOK(t)'
  BY <1>4, <1>5 DEF TokenOK
<1>7. SocketOK(t)'
  BY <1>1, <1>3, <1>4, <1>5, PageTyped DEF SocketOK
<1>8. StatusOK(t)'
  <2>1. CASE page[t].socket = None
    BY <1>1, <1>3, <1>4, <1>5, <2>1, PageTyped DEF StatusOK
  <2>2. CASE page[t].socket # None
    BY <1>1, <1>4, <1>5, <2>2, PageTyped DEF SocketOK, StatusOK, Page
  <2> QED
    BY <2>1, <2>2
<1>9. /\ req' \in [Request -> Call \cup {None}]
      /\ \A q \in Request : CallOK(q)'
  BY <1>2, FreeStep, SameOwner
<1>10. cookie' \in Session \cup {None}
  BY <1>1, <1>2, PageTyped
<1> HIDE DEF p
<1> QED
  BY <1>1, <1>2, <1>3, <1>4, <1>6, <1>7, <1>8, <1>9, <1>10, PageStep

LEMMA OpenStep ==
  ASSUME FrontendInv, NEW t \in Tab, NEW k \in Socket, OpenEvent(t, k)
  PROVE  FrontendInv'
<1> DEFINE p == [page[t] EXCEPT !.status = "connected"]
           ks == [sock[t] EXCEPT ![k] = "open"]
<1>1. /\ sock[t][k] = "connecting" /\ page' = [page EXCEPT ![t] = p]
      /\ sock' = [sock EXCEPT ![t] = ks] /\ UNCHANGED <<owner, valid, cookie, req>>
  BY DEF OpenEvent
<1>2. /\ p \in Page /\ p.user = page[t].user /\ p.csrf = page[t].csrf
      /\ p.socket = page[t].socket /\ p.status = "connected"
      /\ p.overtaken = page[t].overtaken /\ p.crossed = page[t].crossed
  BY PageTyped DEF Page
<1>3. /\ ks \in [Socket -> States] /\ ks[k] = "open"
      /\ \A j \in Socket : j # k => ks[j] = sock[t][j]
  BY PageTyped DEF States
<1>4. page'[t] = p /\ sock'[t] = ks
  BY <1>1, PageTyped
<1> HIDE DEF p, ks
<1>5. TokenOK(t)'
  BY <1>1, <1>2, <1>4, PageTyped DEF TokenOK
<1>6. SocketOK(t)'
  BY <1>1, <1>2, <1>3, <1>4, PageTyped DEF SocketOK, Page
<1>7. StatusOK(t)'
  BY <1>1, <1>2, <1>4, PageTyped DEF SocketOK, StatusOK
<1> QED
  BY <1>1, <1>2, <1>3, <1>5, <1>6, <1>7, PageStep, PageTyped, CallsKept

LEMMA CloseStep ==
  ASSUME FrontendInv, NEW t \in Tab, NEW k \in Socket, CloseEvent(t, k)
  PROVE  FrontendInv'
<1> DEFINE p == [page[t] EXCEPT !.socket = None, !.status = "disconnected"]
           ks == [sock[t] EXCEPT ![k] = "none"]
<1>1. /\ sock[t][k] # "none" /\ page' = [page EXCEPT ![t] = p]
      /\ sock' = [sock EXCEPT ![t] = ks] /\ UNCHANGED <<owner, valid, cookie, req>>
  BY DEF CloseEvent
<1>2. /\ p \in Page /\ p.user = page[t].user /\ p.csrf = page[t].csrf
      /\ p.socket = None /\ p.status = "disconnected"
      /\ p.overtaken = page[t].overtaken /\ p.crossed = page[t].crossed
  BY PageTyped DEF Page
<1>3. /\ ks \in [Socket -> States] /\ ks[k] = "none"
      /\ \A j \in Socket : j # k => ks[j] = sock[t][j]
  BY PageTyped DEF States
<1>4. page'[t] = p /\ sock'[t] = ks
  BY <1>1, PageTyped
<1> HIDE DEF p, ks
<1>5. TokenOK(t)'
  BY <1>1, <1>2, <1>4, PageTyped DEF TokenOK
<1>6. SocketOK(t)'
  BY <1>1, <1>2, <1>3, <1>4, PageTyped DEF SocketOK, Page
<1>7. StatusOK(t)'
  BY <1>1, <1>2, <1>3, <1>4, PageTyped DEF StatusOK
<1> QED
  BY <1>1, <1>2, <1>3, <1>5, <1>6, <1>7, PageStep, PageTyped, CallsKept

LEMMA ReloadStep ==
  ASSUME FrontendInv, NEW t \in Tab, Reload(t)
  PROVE  FrontendInv'
<1> DEFINE ks == [k \in Socket |-> "none"]
<1>1. /\ page' = [page EXCEPT ![t] = NewPage] /\ sock' = [sock EXCEPT ![t] = ks]
      /\ UNCHANGED <<owner, valid, cookie>>
  BY DEF Reload
<1>2. NewPage \in Page /\ ks \in [Socket -> States]
  BY DEF NewPage, Page, States
<1>3. page'[t] = NewPage /\ sock'[t] = ks
  BY <1>1, PageTyped
<1>4. TokenOK(t)' /\ SocketOK(t)' /\ StatusOK(t)'
  BY <1>3 DEF TokenOK, SocketOK, StatusOK, NewPage
<1>5. ASSUME NEW q \in Request
      PROVE  req'[q] \in Call \cup {None} /\ CallOK(q)'
  <2>1. req[q] \in Call \cup {None}
    BY DEF FrontendInv, TypeOK
  <2>2. \/ req'[q] = req[q] \/ req'[q] = None
        \/ req[q] # None /\ req'[q] = [req[q] EXCEPT !.alive = FALSE]
    BY DEF Reload
  <2>3. CASE req'[q] = req[q]
    BY <1>1, <2>1, <2>3, CallKept, SameOwner
  <2>4. CASE req'[q] = None
    BY <2>4 DEF CallOK
  <2>5. CASE req[q] # None /\ req'[q] = [req[q] EXCEPT !.alive = FALSE]
    <3>1. /\ req'[q] \in Call /\ req'[q].kind = req[q].kind
          /\ req'[q].stage = req[q].stage /\ req'[q].account = req[q].account
          /\ req'[q].session = req[q].session /\ req'[q].csrf = req[q].csrf
          /\ req'[q].crossed = req[q].crossed
      BY <2>1, <2>5 DEF Call
    <3>2. CallOK(q)
      BY DEF FrontendInv
    <3> QED
      BY <1>1, <2>5, <3>1, <3>2 DEF CallOK
  <2> QED
    BY <2>2, <2>3, <2>4, <2>5
<1>6. req' \in [Request -> Call \cup {None}]
  BY <1>5 DEF Reload
<1> HIDE DEF ks
<1> QED
  BY <1>1, <1>2, <1>4, <1>5, <1>6, PageStep, PageTyped DEF NewPage

-----------------------------------------------------------------------------

LEMMA InitInv == Init => FrontendInv
<1> SUFFICES ASSUME Init PROVE FrontendInv
  OBVIOUS
<1>1. NewPage \in Page
  BY DEF NewPage, Page
<1>2. TypeOK
  BY <1>1 DEF Init, TypeOK, NewPage
<1>3. OwnersKnown /\ \A r \in Request : CallOK(r)
  BY DEF Init, OwnersKnown, CallOK
<1>4. \A t \in Tab : TokenOK(t) /\ SocketOK(t) /\ StatusOK(t)
  BY DEF Init, TokenOK, SocketOK, StatusOK, NewPage
<1> QED
  BY <1>2, <1>3, <1>4 DEF FrontendInv

LEMMA NextInv == FrontendInv /\ [Next]_vars => FrontendInv'
<1> SUFFICES ASSUME FrontendInv, [Next]_vars PROVE FrontendInv'
  OBVIOUS
<1>1. CASE UNCHANGED vars
  BY <1>1 DEF vars, FrontendInv, TypeOK, OwnersKnown, CallOK, TokenOK, SocketOK, StatusOK
<1>2. ASSUME NEW t \in Tab, NEW r \in Request,
             \/ \E a \in Account : Submit(t, r, a)
             \/ SendMe(t, r) \/ Act(t, r) \/ SignOut(t, r)
      PROVE  FrontendInv'
  <2>1. CASE \E a \in Account : Submit(t, r, a)
    <3>1. PICK a \in Account : Submit(t, r, a)
      BY <2>1
    <3> QED
      BY <3>1, CallStep DEF Submit
  <2>2. CASE SendMe(t, r)
    BY <2>2, SendMeStep
  <2>3. CASE Act(t, r)
    BY <2>3, CallStep, PageTyped DEF Act, Page
  <2>4. CASE SignOut(t, r)
    BY <2>4, CallStep DEF SignOut
  <2> QED
    BY <1>2, <2>1, <2>2, <2>3, <2>4
<1>3. ASSUME NEW t \in Tab,
             \/ \E k \in Socket : OpenEvent(t, k) \/ CloseEvent(t, k)
             \/ NewSession(t) \/ closeTerminal(t) \/ Reload(t)
      PROVE  FrontendInv'
  BY <1>3, OpenStep, CloseStep, NewSessionStep, CloseTerminalStep, ReloadStep
<1>4. ASSUME NEW r \in Request, Handle(r) \/ Receive(r) \/ Lose(r)
      PROVE  FrontendInv'
  BY <1>4, LoginHandled, MeHandled, Handled, LoggedInStep, MeAnsweredStep, LoggedOutStep
     DEF Handle, Receive
<1> QED
  BY <1>1, <1>2, <1>3, <1>4, Revoked DEF Next

\* The strengthening: the token a page holds or has sent is that of the
\* account it shows, and the socket it holds is its only one.
THEOREM FrontendInvariant == Spec => []FrontendInv
  BY InitInv, NextInv, PTL DEF Spec

\* Pages, sockets, cookie jars and requests are always as declared.
THEOREM TypeCorrect == Spec => []TypeOK
  BY FrontendInvariant, PTL DEF FrontendInv

\* A page knows its connection, for any number of tabs and sockets, unless a
\* new socket overtook the close event of an old one.
THEOREM SocketIsKnown == Spec => []OneSocket
<1>1. FrontendInv => OneSocket
  <2> SUFFICES ASSUME FrontendInv, NEW t \in Tab
               PROVE  /\ page[t].socket # None => sock[t][page[t].socket] # "none"
                      /\ page[t].overtaken \/ Live(t) \subseteq {page[t].socket}
    BY DEF OneSocket
  <2> QED
    BY PageTyped DEF SocketOK, Live, Page
<1> QED
  BY <1>1, FrontendInvariant, PTL

\* What it shows of the connection is true, with the same exception.
THEOREM StatusIsShown == Spec => []StatusIsTrue
<1>1. FrontendInv => StatusIsTrue
  <2> SUFFICES ASSUME FrontendInv, NEW t \in Tab,
                      page[t].user # None, ~page[t].overtaken
               PROVE  /\ (\E k \in Socket : sock[t][k] = "open") => page[t].status = "connected"
                      /\ page[t].status = "connected" => page[t].socket # None
    BY DEF StatusIsTrue
  <2> QED
    BY PageTyped DEF SocketOK, StatusOK
<1> QED
  BY <1>1, FrontendInvariant, PTL

\* The server never does for one account what a page asked for when it showed
\* another, unless /api/me was answered after the login.
THEOREM ActsForTheAccountShown == Spec => ActsForShown
<1>1. FrontendInv /\ [Next]_vars =>
        [\A r \in Request : HandleAct(r) /\ ~req[r].crossed
                            => owner[req[r].cookie] = req[r].account]_vars
  <2> SUFFICES ASSUME FrontendInv, NEW r \in Request, HandleAct(r), ~req[r].crossed
               PROVE  owner[req[r].cookie] = req[r].account
    OBVIOUS
  <2> QED
    BY DEF FrontendInv, CallOK, HandleAct, checkCSRF
<1> QED
  BY <1>1, FrontendInvariant, PTL DEF Spec, ActsForShown

=============================================================================
