# web-ssh in TLA+

web-ssh is one Go process that lets people open shells on its host from a
browser. This directory holds TLA+ models of the parts of it where requests,
goroutines, locks, the clock and crashes meet, the TLC configurations that
check them on small instances, and TLAPS proofs of what matters most for
instances of any size. Paths below are relative to `src/`.

## The system

| part | code | state | operations | hard behaviour |
| --- | --- | --- | --- | --- |
| database | `internal/store/store.go` | bbolt buckets: users, name index, sessions, invites, resets, audit | one transaction per method | callers read in one transaction and write in another; an error undoes the whole transaction |
| HTTP server | `internal/server/server.go` | `adminMu`; what each request has read | handlers and middleware | every request is a goroutine; last-administrator check, whole-record put, slow password check, revocation |
| terminals | `internal/terminal/manager.go`, `handleTerminal` … `keepAlive` of `server.go` | table of sessions, `Session.mu`, `closed`, PTY, shell | Open, Read, Write, Resize, Close, CloseUser, wait, the SIGKILL timer | six goroutines around one session, blocking PTY, children that outlive the shell |
| session lifetime | `createSession`, `GetSession` | last use, expiry, the cookie | use, refuse, revoke | requests that commit out of order; an undone delete |
| login limiter | `loginLimiter` in `server.go` | attempts per address | Allow | window boundary, what counts, restart |
| audit log | `store.go`, `runPruner` in `cmd/web-ssh/main.go` | sequence of events | append, list, prune | pruning by age and number through a cursor; a clock set back; prunes that fail |
| certificate | `main.go`, the units of `install.sh` | two files, what the service has loaded | start, renew, load, stop | crash between the files, two processes, a month longer than the margin |
| password policy, hashing | `internal/auth/password.go` | none | validate, hash, verify | pure |
| configuration | `internal/config/config.go` | none | Default, Validate | pure |
| browser application | `internal/server/assets/app.js` | `state` object, socket; one cookie for all tabs | forms, socket callbacks | callbacks of a socket that has been replaced; answers out of order; two tabs, two accounts |
| installer, build, CI | `install.sh`, `scripts/`, `.github/` | none | scripts | – |

**Interaction.** A request passes the limiter, then (most routes) `authenticate`
— `GetSession`, which refreshes the session, and `GetUserByID` — and reaches
its handler with a *copy* of session and user. Handlers call the store, one
transaction at a time. Disabling an account, revoking its sessions and
consuming a reset code end in `RevokeUserSessions` and then
`terminals.CloseUser`. A terminal request turns into a WebSocket with two
loops; `forwardInput` looks user and session up again for each message before
it writes to the PTY. Sessions and terminals thus meet only through the
database and the manager's table, and `adminMu` orders `handleUpdateUser` with
itself and with nothing else.

**What makes each part correct.** Database and handlers: there is always an
enabled administrator; names and index agree; one invitation makes one account;
a lock holds; a password changes by a reset only; who is thrown out does not
type into a shell any more and is not heard; every request ends, unless it waits
for a Write that never returns. Terminals: the limit; no write to a closed PTY;
one closer; a running shell can be found; a slot comes back; a disconnect is
noticed and CloseUser returns, with the same exception. Session lifetime: both
expiries hold to within the time a transaction waits. Limiter: exact, and never
shuts anybody out for good. Audit log: nothing stays too long, nothing goes too
early. Certificate: the service starts with a matching pair that has time to
live, and comes up again. Password policy: exactly what its messages say.
Browser: a tab acts for the account it shows and shows the connection it has.

## The modules

| module | what it is |
| --- | --- |
| `Store` | the five buckets and every transaction that changes them, as operators |
| `Server` | extends `Store`: requests, middleware, `adminMu`, terminals as far as revocation goes, clock, crash; properties of the server |
| `Directory` | abstract specification: what the administration of accounts promises, without requests, sessions, locks or time |
| `Terminal` | the goroutines around the terminal sessions of one account, with fairness |
| `SessionLifetime` | one session on a clock: server record, cookie, WebSocket, overlapping requests |
| `LoginLimiter` | the sliding window of each address |
| `AuditLog` | append, the two passes of a prune, the pruner, the clock, restarts |
| `Certificate` | the two files, the service, cert-renew, its timer, kills |
| `PasswordPolicy` | `ValidatePassword` and what the handlers pass to it |
| `Frontend` | `app.js` in several tabs, the network, the server's sessions and CSRF check |
| `MC…` | instances for TLC: a database that already holds accounts, small alphabets, months, symmetry |
| `Positions` | the elements of a sequence at some of its positions, by their ranks; used by `AuditLog` and `PasswordPolicy` |
| `ServerProofs` | types; the inductive invariant, an administrator remains, names and index agree, the server implements the directory, one invitation makes one account; who is thrown out does not type into a terminal whose shell is there, and is heard no more; what lifts a lock |
| `TerminalProofs` | limit, locking, closing and the table, for any number of sessions |
| `SessionProofs` | the two lifetimes of a session, and what can follow a refusal |
| `CertificateProofs` | the service starts with a fresh certificate; what the files hold until the first mishap |
| `EntryProofs` | the limiter is exact; a password's runs, and the name in it, are found |
| `AuditProofs` | the cap, what a prune leaves, how long an event can stay |
| `FrontendProofs` | a page acts for its account and knows its connection, for any number of tabs, requests, sockets |
| `PositionsProofs` | lemmas about ranks and positions, cited by `AuditProofs` and `EntryProofs` |

`Server` and `Terminal` meet in `CloseUser`; the modules after them stand beside
`Server`, which takes of each what is weakest: the limiter lets everybody
through, a session expires when the clock says so, a certificate is there, a
password is good, a browser sends anything.

### Store

A bucket is a function from keys to records, `None` where there is none. bbolt
runs one read-write transaction at a time and commits it durably or not at
all, so each is one action; a refused one leaves the state alone, also
`GetSession`, whose `Delete` of an expired session is undone by the error it
returns. Random keys are never drawn twice; a deleted key therefore keeps a
mark, `Gone` or `Revoked` (for `RevokeUserSessions`), which the code cannot see
and the properties can. Abstracted: hashes (a hash stands for what it hashes),
descriptive fields (addresses, agents, creation times), and JSON, which
round-trips the fields kept. `failed` stops at `maxLoginAttempts`, above which
the code compares nothing.

### Server

`req[r]` is what a request's goroutine knows: its program point, the session
and user of its context, the user it acts on, the copy it has read, and the
terminals `CloseUser` still has to close (`closing`, and `at` for the one it
stands before). An action runs from one point where
another goroutine can step in to the next. Thus `handleLogin` is `LoginLookup`
(read the record), then one of `LoginFails`, `LoginLocked`, `LoginSucceeds`
(the slow password check lies between), then `createSession`;
`handleUpdateUser` is `UpdateUserStart`, `LockAdminMu`, `ReadTarget`,
`SetRole`, `SetEnabled`, `PutUser`, and for a disabled account
`RevokeSessions`, `Snapshot`, `TakeNext` and `CloseNext` for each terminal,
`CloseDone`. At `mu`, between these two, the request waits for the `Session.mu`
of its terminal, as long as a Write holds it. `Return` ends a
request and releases `adminMu`, as the deferred unlock does on every path.
`lastEnabledAdmin` is one read transaction and so part of the step that
asks. Requests that are refused before they touch the database change nothing
and are not steps; those refused after the middleware are `Answer`.
`StoreError` is a store call that fails at the points in `Faulty`.

`time.Now()` is read before the transaction is granted: `Sampled` lets a call
commit with a time up to `Delay` old. `Crash` kills the process: requests,
mutex and terminals are lost, the database stays.

Terminals are there for revocation. `wait`, `check`, `write`, `writing` are the
points of `forwardInput`: reading, between its two lookups, before `Write`, in
it. `closed` is one whose `Close` is done. `listed` says that it is in the
manager's table, which it leaves when its shell has been reaped (`ShellExits`)
and not when it is closed; the loop of a terminal that is no longer listed goes on
until the handler closes it (`Disconnect`), for a process the shell has left may
keep the PTY open. Closing is one step here, at the moment it has `Session.mu`;
`Terminal` takes it apart.

### Terminal

One account, and per session the variables named after the code: `table`
(manager), `closed`, `file`, `mu` (held only by a Write in progress; all other
critical sections are single steps), `shell` and `children`, `conn`, and the
program points of `forwardInput` (`input`), `forwardPTY` (`output`),
`handleTerminal` (`handler`), `Session.wait` (`waiter`), the timer goroutine of
`Close` (`killer`) and a `CloseUser` (`closer`). Whether `forwardInput` finds
user and session still good is chosen freely (`Receive`, `Refuse`): `Server` has
that part. `CloseUser` takes a session of its copy (`CloserNext`) and waits for
its `mu` (`CloserLock`) before it looks at `closed`. External, and modelled by
what the code relies on: the shell may exit at any time, may ignore SIGTERM, may
leave children; a read ends when the file is closed or nobody has the PTY open;
a write may block as long as somebody has.

### SessionLifetime

`GetSession` reads its time before the database grants it the transaction, so a
request is first sent (`late` is how long ago it took its time) and then
accepted or refused. All times are ages, so the clock needs no bound. `idle`
and `refused` are history, kept for the properties. `cookie` runs down from the
login, `socket` is a WebSocket that goes on without it.

### LoginLimiter

`attempts` is the code's list, cut back in `Allow` and `Refuse` by `kept`;
`admitted` is the reference it is compared with, the attempts let through in the
last `Window`. An attempt that neither remembers may be used again.

### AuditLog

The log is the sequence of its events' ages. `Prune` is one transaction, with
the code's two passes: `Expired` events from the front, then `Excess` more by
the count. bbolt is external and modelled by two facts the code runs into:
`Stats().KeyN` counts committed pages, so the count includes what the first
pass has deleted; and on a page the transaction has already changed `Delete`
shifts the items so that `Next` passes over one. The first page is such a page
after the first pass, and `Touched`, `Visited` say which events the second
pass sees. On pages that were not changed the cursor sees every event. What
remains is the log's elements at the positions `Kept`, in their order
(`ElementsAt` of `Positions`); with ranks in place of recursion the provers can
reason about it, and `normalize` of `PasswordPolicy` is written the same way.

### Certificate

Each process goes through `ReadCert`, `Keep` or `Generate`, `OpenCert`,
`WriteCert`, `OpenKey`, `WriteKey`, and the service then through `LoadCert`,
`LoadKey` to `serving`. A pair is one value of `Gen`; a file that is truncated
or half written is `Torn`. `Keep` asks only what `renewCertificateIfNeeded`
asks: that the certificate parses and has more than `Margin` left and that
there is a key file. External: systemd, the timer, the wall clock, kills.

### PasswordPolicy

One call of `ValidatePassword` as a state machine: the tests before the loop,
then one step per character with the loop's own variables. Characters stand for
the cases the code tells apart, a letter, its capital, two look-alikes, a
separator, a space, a control character. `SpellsName` and `SameRun` are the
references: `SameRun` is written without the loop, and `SpellsName` asks for
letters of the password that spell the name one after the other, without
normalizing the password or looking for a substring; the letters of the name it
takes from `normalize`, which both sides share.

### Frontend

`page` is `state` with what the page shows, one for each tab; `sock` has the
sockets a tab has made, of which the page knows one; `req` the requests under
way, with the cookie and the token they were sent with. An answer and its
handling are two steps, so answers arrive in any order, get lost, or find the
page reloaded. The login form of the page renders no field for the name
(`app.js:87`–`92`, `115`), so that its request cannot succeed as it is; the
model lets every login succeed or fail, which takes in a form that has one.
`crossed` and `overtaken` are history: they mark the pages for which the two
races described below have happened.

### Names ending in `_Bad`

These are plausible mistakes in the definition that follows them; no behaviour
uses them. Putting one in place of its definition makes TLC report:

| mistake | reported by |
| --- | --- |
| `CreateInvitedUser_Bad` stores the name, not the id, as the user of the invitation | `TypeOK` |
| `PutNewUser_Bad` does not look the name up | `NamesIndex` |
| `InviteUsable_Bad` takes a used invitation | `OneInvitationEach` |
| `CreateFirstUser_Bad` does not look for accounts | `ImplementsDirectory` |
| `LockAdminMu_Bad` takes no lock | `AdminInv` |
| `lastEnabledAdmin_Bad` counts disabled administrators | `AdminExists` |
| `MayChangeRole_Bad` asks only about one's own account | `KeepsDirectory` |
| `CheckSession_Bad` does not look the session up per message | `ThrownOutCannotType`, `ThrownOutIsNotHeard` |
| `LoginSucceeds_Bad` does not look at the lock | `LockLiftedOnlyByStale` |
| `Return_Bad` forgets the unlock | `RequestsEnd` |
| `WriteStart_Bad` writes without `mu` | `WritesToOpenPTY` |
| `WriteEnd_Bad` keeps `mu` when the write fails | `Terminal!TypeOK`, `CloseUserReturns` |
| `First_Bad` does not look at `closed` | `OneClose` |
| `Reap_Bad` removes before the shell has ended | `RunningIsListed` |
| `TimerFires_Bad` does not kill | `SlotFreed` |
| `Wake_Bad` waits for the output loop only | `DisconnectNoticed` |
| `Accept_Slides_Bad` extends the absolute expiry too | `SessionLifetime!TypeOK` |
| `Expired_Bad` (session) does not look at the last use | `AcceptedInTime` |
| `Accept_Bad` does not refresh the session | `RefusedInTime` |
| `Refuse_Bad` (session) refreshes one that has expired | `RevivedOnlyByEarlier` |
| `Allow_Bad` is off by one | `LimitHolds` |
| `kept_Bad` forgets nothing | `RefusedForCause` |
| `Refuse_Bad` (limiter) counts refused attempts | `LetInAgain` |
| `Tick_Bad` (audit) lets the pruner wait | `AuditLog!TypeOK` |
| `Expired_Bad` (audit) deletes one expired event | `KeptInTime` |
| `Kept_Bad` deletes one too few | `CapAfterPrune` |
| `Excess_Bad` deletes all when there are too many | `KeepsNewest` |
| `Tick_Bad` (certificate) passes over the timer | `Certificate!TypeOK` |
| `Fresh_Bad` does not look at the expiry | `StartsFresh`, `DiskHardlyExpired`, `UpAgain` |
| `OpenKey_Bad` keeps the old key | `PairOnDisk` |
| `Rune_Bad` never starts the count again | `RunIsFound` |
| `normalize_Bad` drops before it replaces | `NameIsFound` |
| `LoggedOut_Bad` keeps the socket | `Frontend!TypeOK` |
| `connectTerminal_Bad` opens a second socket | `OneSocket` |
| `closeTerminal_Bad` forgets the socket before it is closed | `StatusIsTrue` |
| `checkCSRF_Bad` takes any token | `ActsForShown` |

## What is checked

`tlc -config MCAdmins.cfg MCServer.tla`, and so on.

| run (module) | question | instance |
| --- | --- | --- |
| Admission (`MCServer`) | bootstraps, registrations and invitations race, sessions fail to be created, calls commit late, the process crashes: are accounts, index and invitations consistent, and is the directory implemented? | empty database, 2 requests, 3 accounts and names, 2 codes, 1 session, clock to 3, delay 1 |
| Admins (`MCServer`) | may concurrent updates lose the last administrator? Is `AdminInv`, the invariant of the proof, true? | 2 administrators with a session each, 1 member with a reset code, 2 requests, all store errors |
| Revocation (`MCServer`) | may a user who was thrown out type, and is he heard? Does every request end and give `adminMu` back, unless `CloseUser` stands before a Write that never returns? | 1 administrator, 1 member, 1 terminal, 2 requests; disable, logout, open, a put that fails; the shell may exit before its terminal |
| Lockout (`MCServer`) | what lifts a lock early? | 1 account, 2 passwords, limit 2, lock of 2, clock to 4, delay 1 |
| LostReset (`MCServer`) | does a reset password stay? It does not, see below | 1 administrator, 1 member, 2 requests |
| Terminal (`MCTerminal`) | locking and closing, slots, disconnects, `CloseUser` | 1 session; Writes may never return |
| Session (`MCSessionLifetime`) | are both expiries kept? | 2 requests, idle 3, at most 8, delay 2 |
| Limiter (`MCLoginLimiter`) | is the window exact, and is everybody let in again? | 2 addresses, 3 attempts in 3 |
| AuditLog (`MCAuditLog`) | is what has to go gone, and what of the newest stays? | 5 events, cap 3, retention 2, interval 2, pages of 4, clock set back once, one failure |
| Certificate (`MCCertificate`) | does the service start with a good pair, and does it come up again? | service and one cert-renew, life of 5, margin 2, months of 2 and 3, two mishaps |
| Policy (`MCPasswordPolicy`) | is the verdict the right one? | names to 2 over 4 characters, passwords to 5 over 7, lengths 3 to 4, runs of 3 |
| Frontend (`MCFrontend`) | does a tab act for whom it shows and know what it has? | 2 tabs, one with terminals, 2 accounts, 3 sessions, 1 request, 2 sockets |

## Where the code differs from its documents

**LostReset** shows one of these as a behaviour TLC finds. "Password changed.
Sign in with the new password.", says `app.js:170`. `handleUpdateUser` puts
back the record it has read (`server.go:469`); a `ConsumePasswordReset` that
commits in between is lost, and the old password is the password again
(`PasswordChangedByResetOnly`). The same put can undo a failure count or a
lock.

The others are behaviours of the models too. The properties that are checked
say what is true instead, and name the exception; where nothing worth saying
is left, there is no property:

- "Disconnecting the browser closes the associated shell immediately."
  (`README.md:39`): when the program in the terminal takes no input,
  `forwardInput` sits in `Write` (`manager.go:128`), which has no deadline, and does
  not notice. `DisconnectNoticed`: the session is closed unless that Write
  never returns. The same Write holds `Session.mu`, for which `CloseUser` waits
  (`manager.go:144`), when an account is disabled under `adminMu`; hence the second
  case in `CloseUserReturns` and in `RequestsEnd`.
- "for 90 days" (`README.md:45`), "retention capped at 90 days or 100,000 events"
  (`SECURITY.md:18`): when a prune of a log over its cap has deleted expired
  events, it deletes as many younger ones too, because `KeyN` (`store.go:493`) is
  the count of before; and as the cursor passes over events on a page it
  deletes from, they are not always the oldest. `KeepsNewest`: a prune keeps
  exactly what is due when nothing has expired or the log is within its cap,
  and otherwise the newest events, fewer by what had expired and what the
  cursor may pass over.
- "Server-side session revocation" (`SECURITY.md:14`): `/api/me` sends no CSRF
  token (`server.go:318`), so a page that was reloaded has none, and a tab behind
  which another has logged in has an old one. Its sign-out is refused,
  `app.js:343` drops the error, and session and cookie stay. Likewise when the
  request is lost. No property: without these cases it would be an assignment
  of `HandleLogout`. That a signed-out page has let go of its socket is part of
  `TypeOK` and `OneSocket`.
- "[connection closed]" (`app.js:298`): the close event of the socket of before a
  sign-out clears `state.socket` and the status of the new one (`app.js:294`), and
  a second connection can be opened beside it. `OneSocket` and `StatusIsTrue`
  hold of pages to which this has not happened (`overtaken`).
- "an account locks for 15 minutes after five failures" (`README.md:37`): a
  login that read the account before the fifth failure was counted passes the
  test at `server.go:231` and clears the lock at 236.
  `LockLiftedOnlyByStale`: nothing else does, but a reset.
- "Sign in with the new password.": a login whose password check ran on the
  record of before the reset creates its session (`server.go:241`) after
  `RevokeUserSessions`, and the old password has let it in.
- "Each account can keep two PTY sessions open." (`README.md:39`): background
  processes of a shell that has exited keep its PTY open and forwarded, while
  `remove` has freed the slot. `SlotLimit` holds of the table. For the same
  reason `CloseUser` does not find such a terminal, and a message that
  `forwardInput` had checked may be written to it after the request that
  disabled its user was answered. `ThrownOutCannotType` is therefore said of
  terminals in the table; `ThrownOutIsNotHeard`, that no later message gets
  through, of all.
- "30-minute idle expiry, and 12-hour absolute expiry" (`SECURITY.md:14`): the
  cookie is set once, for `SessionIdle` and an hour (`server.go:714`), so the
  browser drops it an hour and a half after the login, in use or not.
- "Renew the Web-SSH local certificate" (`install.sh:175`): the running service
  does not load it again (`main.go:106`) and answers with the old one until it
  is restarted; a kill between the two files (`main.go:192`) leaves a pair that
  does not match and that `cert-renew` keeps, reporting success, until the
  certificate is in its last 30 days; `UpAgain` says that then it is over.
  `PairOnDisk` holds up to the first mishap, and `DiskHardlyExpired` allows for
  a month of 31 days against a margin of 30.
- "password must not contain your username" (`password.go:30`): it is said of
  every password when the name is of `-` and `_` only (`password.go:55`), and
  never in a reset, which passes no name (`server.go:291`). `NameIsFound` has
  both exceptions.

### Why these bounds

The races are between two actors and one record. Two requests give every
interleaving of two handlers, and `Crash` makes new ones out of them. The last
administrator needs two administrators; a third account makes `excludeID` and
"the others" differ. Two invitation codes and three names let two registrations
share a code, share a name, or share neither. `MaxTime` is bigger than each
lifetime of the run it matters in, so that invitations, locks and sessions do
run out and end exactly at a tick. The failure limit is 2, the smallest for
which a failure that does not lock exists. The goroutines of different terminal
sessions share nothing but the table and the caller of `CloseUser`; liveness is
checked for one session, and what two of them could do to each other is proved
for any number. In Revocation one terminal meets both requests; what is proved
is for any number of them. No run has both creations and updates of accounts:
that the put of a whole record leaves the name index right is the theorem
`IndexAgrees` only.

In Session both expiries, the wait and the cookie have different lengths, and
the idle time runs out several times before the absolute one. In Limiter an
address can fill its window while part of it leaves. In AuditLog the log can be
over its cap with none, some or all of it expired, and a page can be cut at any
event. In Certificate a unit is about ten days: a month is once within the
margin and once longer, and five units let a certificate live through one
renewal check at most; `MaxMishaps` counts kills and runs that
begin while another is under way, of which two suffice for a torn pair that is
torn again. Names and passwords of Policy are short, and so are the limits;
seven kinds of characters are all the cases of `normalize` and of the tests,
one look-alike standing for each. In Frontend the second tab matters for the
cookie only, so one of them opens terminals (`Console`); sockets are two, so
that one can close while another opens; three sessions let a tab hold the token
of a session that is neither the cookie's nor the other tab's. With two
requests (and two sessions) the same properties were checked over 4.6 million
states; the run has one, to end in a minute. With one request answers cannot
arrive out of order: for that the theorems stand, which have any number.

`CHECK_DEADLOCK FALSE` stands where the instance comes to rest: Admission,
Admins, Revocation and LostReset, where clock and keys run out, and Policy,
which ends with its verdict. Elsewhere deadlock is checked.

### Fairness

`Server!Fairness`: the Go scheduler runs each goroutine that can run, store
calls return (bbolt is in the process), and a body is read within the server's
15 s `ReadTimeout`. Fairness is strong because a request may wait for `adminMu` or
for a `Session.mu`, and a `sync.Mutex` hands itself to a goroutine that has waited
a millisecond. Nothing is assumed of clients, the clock, crashes, or a Write.

`Terminal!Fairness`: each goroutine of a session runs when it can, likewise
with strong fairness where it takes `Session.mu`; SIGKILL ends a shell; a write
to a PTY nobody has open returns. Nothing is assumed of the user, the browser,
or the shell: a Write to a PTY that somebody has open and nobody reads need not
return, and the properties name that case. It is the only one: what follows
`~>` is either the event or a Write that goes on for ever.

`Certificate!Fairness`: a process that is not killed runs on; systemd restarts
the service (`Restart=on-failure` and the login or boot that starts it), its
timer fires, and days go by, all strongly, as somebody may run cert-renew by
hand again and again. `LoginLimiter!FairSpec`: time passes, and an address that
could get through tries. The other modules state safety only.

## What is proved

For every value of the constants that satisfies their named assumptions
(`MarksAssumption`: the marks are no records; `DurationAssumption`: durations
are positive, as `Config.Validate` and the constants of `server.go` make them;
`ServerAssumption`), with no bound on accounts, requests, terminals, keys or
time:

- `ServerProofs!TypeCorrect`: `Spec => []TypeOK`, with the extra fact (`FrameOK`)
  that a request which acts on an account knows which one and has a copy.
- `ServerProofs!AdminInvariant`: `Spec => []AdminInv`.
- `ServerProofs!AnAdminRemains`: `Spec => []AdminExists`.
- `ServerProofs!IndexAgrees`: `Spec => []NamesIndex`.
- `ServerProofs!DirectoryImplemented`: `Spec => ImplementsDirectory`.
- `ServerProofs!DirectoryKept`: `(Init \/ Reopened) /\ [][Next]_vars => KeepsDirectory`,
  where `Reopened` is a new process on any database with accounts, an enabled
  administrator among them.
- `ServerProofs!AnInvitationEach`: `Spec => []OneInvitationEach`.
- `ServerProofs!ThrownOutIsSilent`: `Spec => []ThrownOutCannotType`, and
  `ServerProofs!ThrownOutUnheard`: `Spec => ThrownOutIsNotHeard`, both assuming
  that `RevokeUserSessions` does not fail (`"revoke" \notin Faulty`).
- `ServerProofs!LocksHold`: `Spec => LockLiftedOnlyByStale`.

**The argument.** `AdminExists` is not inductive: `PutUser` writes a copy, and
nothing in `AdminExists` speaks of copies. `AdminInv` adds (1) `HoldsAdminMu`:
a request between `ReadTarget` and `PutUser` holds `adminMu`, so there is at
most one; (2) `SafeToPut`: if the target is an enabled administrator now, then
the copy is one too or somebody else is one; (3) `EmptyAtFirst`: without
accounts nothing can be in flight. `SafeToPut` survives the steps of others
because, with (1), roles and access change in no other step than `PutUser` and
the creation of accounts — `RightsKept` in the proof — and creations only add
administrators. `SetRole` and `SetEnabled` establish it from
`lastEnabledAdmin`, whose answer hence stays true until the put. For the
refinement, every step is then `Found`, `Invite`, `Withdraw`, `Join`, `Change`
(the put; an administrator remains by `SafeToPut`), or stutters.

`IndexInv` adds to `NamesIndex` that a copy has the name its account has
(`OwnName`); no step renames an account, so the put leaves the index right.
`OneInvitationEach` is a fact about the directory: `Found` adds an account where
there is none, `Join` spends one open code, so `CountInv`, accounts at most one
more than spent codes, carries over from step to step.

`ThrowInv` follows a terminal back to its session. A token that a request or
terminal uses was made once, for its user, and is never made again. At `check`
(`UserHeard`, for every terminal) the user found enabled is so still, or his
session is gone, or a request stands at `revoke` for him: so a lookup of the
session that succeeds is one before the revocation. At `write` and `writing`
(`StillRight`, for terminals in the table) user and session are still good, or the
request that changed them has yet to take its snapshot or to close this
terminal. That is why the snapshot has to come after the put and the revocation,
and why the second lookup has to be of the session. The shell's exit takes a
terminal out of what is claimed, and nothing puts it back. The assumption is
needed: after an error of `RevokeUserSessions` nobody closes (see "What is not
modelled").

`LockInv` bounds every lock, also those in copies, by `now + lockDuration`. A
failure recorded late hence moves a lock back by `Delay` at most; a shorter one
comes from a put or a login, and both write what they read before the lock.

Each proof goes action by action. All the properties proved are also checked by
TLC.

**Terminal** (`TerminalAssumption`: a finite set of sessions, a positive limit).
`NoWriteAfterClose`, `ClosedOnce`, `RunningIsFound` and `SlotsLimited` follow
from `TerminalInv`, which adds for each session: whoever is past the test in
`Close` has set `closed` and is alone there; `closed` is never set while a
Write holds `mu`, for which `TypeOK` has that `mu` is held by exactly the
sessions at `writing`; the table has the sessions whose `waiter` has yet to
remove them, the running ones included; and nobody refers to a session that was
not opened.

**Certificate** (`CertificateAssumption`). `ServiceStartsFresh`:
`Spec => StartsFresh`. `FreshnessInv` says of each program point what a
process may rely on about the files although others change them: before its
decision that what it read is still there or was replaced by a fresh one,
after it that the certificate on disk is fresh or none. It is inductive
because no time passes in a run and every writer writes a fresh one.
`FilesMatch` and `HardlyExpired` (`PairOnDisk`, `DiskHardlyExpired`) follow from
`CalmInv`: until the first kill or overlap at most one process is under way, the
files are as its program point leaves them (torn only between its own open and
write), and the certificate has what it needs to outlast the time on the timer.
Once a mishap has been spent it claims nothing, and `mishaps` never rises again.

**SessionLifetime** (`LifetimeAssumption`). `UsedInTime`, `RefusedOnlyIdle` and
`RevivedByEarlier` follow from `SessionInv`. Requests commit with old times and
out of order, so `LastSeen` may go back: `seen` is never younger than the last
use and never older by more than `Delay`; and whatever has been refused since
the last use would be refused again, with everything younger, since time only
makes it worse and only an acceptance moves `LastSeen`.

**AuditLog** (`AuditAssumption`). `KeptInTime` needs an invariant about order: a
later event is older than an earlier one by no more than the clock has been set
back (`NearlyInOrder`). The first pass leaves a young event in front, hence
nothing behind it is older than the retention by more than that, and each turn
of the pruner that fails adds an interval (`NotTooOld`). `CapKept` and
`NewestKept` count: the second pass removes the first `Excess` of those it
visits (`FirstOnes`), or all of them; what it passes over is every other event
of one page, which maps into `1..MaxEvents` by halving (`PassedOver`). This is
where the assumption `PageEvents <= 2 * MaxEvents` is needed. What is removed
then lies in front of the newest `MaxEvents` less what had expired and was passed
over.

**LoginLimiter** (`LimiterAssumption`). `LimitIsKept` and `RefusalsHaveCause`
follow from `ExactInv`: the attempts admitted in the window are the remembered
ones that are in the window, and those remembered are never more than `Maximum`.

**PasswordPolicy** (`PolicyAssumption`). `RunsAreFound`: `PolicySpec =>
[]RunIsFound`, from `Counted`: `repeated` is the length of the longest run that
ends at the character last seen, and no earlier one was too long.
`NamesAreFound`: `PolicySpec => []NameIsFound`; what normalization keeps of a
password are the letters at its positions with ranks 1, 2, …, so a word is
contained in it iff some letters, each the next after the one before, spell it.
That their ranks go up by one needs an induction over the word, which is stated
as: there is no least position where they do not (`RanksInStep`, from
`LeastNumber`, the well-foundedness of the naturals). The initial segment that
the first pass of a prune removes is found in the same way (`InitialSegment`).

**Frontend** (`NoneAssumption`). `SocketIsKnown`, `StatusIsShown` and
`ActsForTheAccountShown` follow from `FrontendInv`: unless `crossed`, the token
a page holds and those it has sent belong to the account it shows; unless
`overtaken`, a page that holds a socket has no other, and one that holds none
has at most closing ones; and the status is that socket's. Nothing is proved about
sign-outs: see above.

Each component's `TypeOK` is proved with the rest.

**Only model-checked**: liveness (`RequestsEnd`, `SlotFreed`,
`DisconnectNoticed`, `CloseUserReturns`, `LetInAgain`, `UpAgain`), which is out of
the prover's reach. Every other property of a passing run is a theorem.

## What is not modelled

- `ListAudit` and the other listings, which only read; what an event says.
- `decodeJSON`, `checkOrigin`, `parseDimension` and the headers: they decide
  about one request by itself, and a refused one is no step. (`parseDimension`
  and the PTY's size change nothing that another part reads.)
- Argon2id, random numbers, TLS itself; a hash stands for what it hashes.
- Flags and environment, beyond what `Config.Validate` guarantees. In
  particular `cert-renew` takes its paths from its own flags and environment;
  the model has one pair of files.
- Write errors of the certificate other than a kill (a full disk), and the
  names in it.
- The lists and dialogs of the administration page, the terminal widget, the
  stylesheet; in `Frontend` a terminal has no account, as `Terminal` has one.
- The installer, the release script and CI, but for the units of the service
  and its timer.
- In `ThrownOutCannotType` and `ThrownOutIsNotHeard` revocation is taken to
  succeed: when `RevokeUserSessions` returns an error after the account has been
  disabled, `CloseUser` is skipped and a terminal is closed only at its next message.

## Plan

Done: `Store`, `Server`, `Directory`, `Terminal`, `SessionLifetime`,
`LoginLimiter`, `AuditLog`, `Certificate`, `PasswordPolicy`, `Frontend`, their
runs, and a theorem for every safety property of a passing run. What is left to
model: `decodeJSON` with `parseDimension` as functions against a reference;
`Config.Validate`.
