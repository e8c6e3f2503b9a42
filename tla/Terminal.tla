------------------------------ MODULE Terminal ------------------------------
(***************************************************************************)
(* The terminal sessions of one account: internal/terminal/manager.go and  *)
(* the goroutines handleTerminal of internal/server/server.go starts for   *)
(* each of them.  Around one session there are forwardInput, forwardPTY,   *)
(* the handler that waits for either to end, Session.wait for the shell    *)
(* process, the timer of Session.Close, and anyone who calls CloseUser.    *)
(* They share Session.mu, the manager's table and the PTY.                 *)
(*                                                                         *)
(* Sessions are objects and are not reused: an instance opens as many as   *)
(* the set Session has.  The manager keeps the accounts apart, and holds   *)
(* its own mutex for the whole of Open, remove and CloseUser's copy, so    *)
(* these are single steps.                                                 *)
(***************************************************************************)
EXTENDS Naturals, FiniteSets

CONSTANTS
    Session,     \* the sessions the account opens
    MaxPerUser,  \* Limits.MaxPerUser
    NoSession

ASSUME TerminalAssumption ==
    MaxPerUser \in Nat \ {0} /\ IsFiniteSet(Session) /\ NoSession \notin Session

VARIABLES
    table,     \* manager.sessions of the account
    closed,    \* Session.closed
    file,      \* the PTY master: "none", "open", "closed"
    mu,        \* sessions whose mu is held by a Write in progress
    shell,     \* "none", "running", "exited", "reaped"
    children,  \* processes that outlive the shell have the PTY open
    conn,      \* the WebSocket: "none", "up", "down"
    input,     \* forwardInput: "none", "read", "write", "writing", "over"
    output,    \* forwardPTY: "none", "check", "reading", "over"
    handler,   \* handleTerminal: "none", "wait", "close", "kill", "file", "hangup", "over"
    waiter,    \* Session.wait: "none", "wait", "remove", "over"
    killer,    \* the goroutine of Close: "none", "armed", "over"
    closer     \* CloseUser: its program point, its list and the session at hand

vars == <<table, closed, file, mu, shell, children, conn, input, output, handler,
          waiter, killer, closer>>

procs == <<shell, children>>
loops == <<input, output>>

TypeOK ==
    /\ table \subseteq Session
    /\ closed \in [Session -> BOOLEAN]
    /\ file \in [Session -> {"none", "open", "closed"}]
    /\ mu = {s \in Session : input[s] = "writing"}
    /\ shell \in [Session -> {"none", "running", "exited", "reaped"}]
    /\ children \in [Session -> BOOLEAN]
    /\ conn \in [Session -> {"none", "up", "down"}]
    /\ input \in [Session -> {"none", "read", "write", "writing", "over"}]
    /\ output \in [Session -> {"none", "check", "reading", "over"}]
    /\ handler \in [Session -> {"none", "wait", "close", "kill", "file", "hangup", "over"}]
    /\ waiter \in [Session -> {"none", "wait", "remove", "over"}]
    /\ killer \in [Session -> {"none", "armed", "over"}]
    /\ closer \in [pc : {"idle", "next", "mu", "kill", "file"}, todo : SUBSET Session,
                   at : Session \cup {NoSession}]

Init ==
    /\ table = {}
    /\ closed = [s \in Session |-> FALSE]
    /\ file = [s \in Session |-> "none"]
    /\ mu = {}
    /\ shell = [s \in Session |-> "none"]
    /\ children = [s \in Session |-> FALSE]
    /\ conn = [s \in Session |-> "none"]
    /\ input = [s \in Session |-> "none"]
    /\ output = [s \in Session |-> "none"]
    /\ handler = [s \in Session |-> "none"]
    /\ waiter = [s \in Session |-> "none"]
    /\ killer = [s \in Session |-> "none"]
    /\ closer = [pc |-> "idle", todo |-> {}, at |-> NoSession]

-----------------------------------------------------------------------------
(* Opening: Manager.Open, newSession, handleTerminal *)

\* A shell on a PTY of its own.
newSession(s) ==
    /\ file' = [file EXCEPT ![s] = "open"]
    /\ shell' = [shell EXCEPT ![s] = "running"]

\* handleTerminal, after Open: the two loops, and <-done.
StartLoops(s) ==
    /\ conn' = [conn EXCEPT ![s] = "up"]
    /\ input' = [input EXCEPT ![s] = "read"]
    /\ output' = [output EXCEPT ![s] = "check"]
    /\ handler' = [handler EXCEPT ![s] = "wait"]

Open(s) ==
    /\ shell[s] = "none"
    /\ Cardinality(table) < MaxPerUser
    /\ newSession(s) /\ StartLoops(s)
    /\ table' = table \cup {s}
    /\ waiter' = [waiter EXCEPT ![s] = "wait"]
    /\ UNCHANGED <<closed, mu, children, killer, closer>>

-----------------------------------------------------------------------------
(* forwardInput *)

InputTo(s, point) ==
    /\ input' = [input EXCEPT ![s] = point]
    /\ UNCHANGED <<table, closed, file, procs, conn, output, handler, waiter, killer, closer>>

\* ReadMessage returned a message, and user and session are still good.
Receive(s) == input[s] = "read" /\ conn[s] = "up" /\ InputTo(s, "write") /\ UNCHANGED mu

\* They are not.
Refuse(s) == input[s] = "read" /\ conn[s] = "up" /\ InputTo(s, "over") /\ UNCHANGED mu

\* ReadMessage fails.
ReadFails(s) == input[s] = "read" /\ conn[s] = "down" /\ InputTo(s, "over") /\ UNCHANGED mu

Unlocked(s) == s \notin mu

WriteStart_Bad(s) ==
    /\ input[s] = "write" /\ Unlocked(s)
    /\ InputTo(s, IF closed[s] THEN "over" ELSE "writing")
    /\ UNCHANGED mu

\* Session.Write keeps mu for as long as the PTY takes no more input.
WriteStart(s) ==
    /\ input[s] = "write" /\ Unlocked(s)
    /\ IF closed[s] THEN InputTo(s, "over") /\ UNCHANGED mu
                    ELSE InputTo(s, "writing") /\ mu' = mu \cup {s}

WriteEnd_Bad(s) ==
    /\ input[s] = "writing"
    /\ \/ InputTo(s, "read") /\ mu' = mu \ {s}
       \/ InputTo(s, "over") /\ UNCHANGED mu

\* The PTY has taken the input, or reports an error.
WriteEnd(s) ==
    /\ input[s] = "writing"
    /\ InputTo(s, "read") \/ InputTo(s, "over")
    /\ mu' = mu \ {s}

\* A resize, or a text message that is none; a size the PTY refuses ends the
\* terminal.
Resize(s) ==
    /\ input[s] = "write" /\ Unlocked(s)
    /\ InputTo(s, "over") \/ (~closed[s] /\ InputTo(s, "read"))
    /\ UNCHANGED mu

-----------------------------------------------------------------------------
(* forwardPTY *)

OutputTo(s, point) ==
    /\ output' = [output EXCEPT ![s] = point]
    /\ UNCHANGED <<table, closed, file, mu, procs, conn, input, handler, waiter, killer, closer>>

\* Session.Read looks at closed and takes the file under mu, ...
ReadPTY(s) ==
    /\ output[s] = "check" /\ Unlocked(s)
    /\ OutputTo(s, IF closed[s] THEN "over" ELSE "reading")

\* Some process can still write to the PTY.
Populated(s) == shell[s] = "running" \/ children[s]

\* ... and reads without it.  Sending to a browser that is gone may fail.
Forward(s) ==
    /\ output[s] = "reading" /\ file[s] = "open" /\ Populated(s)
    /\ OutputTo(s, "check") \/ (conn[s] = "down" /\ OutputTo(s, "over"))

OutputEnds(s) ==
    /\ output[s] = "reading"
    /\ file[s] = "closed" \/ ~Populated(s)
    /\ OutputTo(s, "over")

-----------------------------------------------------------------------------
(* Session.Close, called by the handler and by CloseUser *)

First_Bad(s) == Unlocked(s)

\* Only the first caller to get mu goes on to kill and to close the file.
First(s) == Unlocked(s) /\ ~closed[s]
Later(s) == Unlocked(s) /\ closed[s]

SetClosed(s) == closed' = [closed EXCEPT ![s] = TRUE]

\* SIGTERM, which a shell may ignore, and the timer for SIGKILL.
Terminate(s) == killer' = [killer EXCEPT ![s] = "armed"]

CloseFile(s) == file' = [file EXCEPT ![s] = "closed"]

HandlerTo(s, point) ==
    /\ handler' = [handler EXCEPT ![s] = point]
    /\ UNCHANGED <<table, mu, procs, loops, waiter, closer>>

Wake_Bad(s) ==
    /\ handler[s] = "wait"
    /\ output[s] = "over"
    /\ HandlerTo(s, "close")
    /\ UNCHANGED <<closed, file, conn, killer>>

\* <-done: one of the two loops has ended.
Wake(s) ==
    /\ handler[s] = "wait"
    /\ input[s] = "over" \/ output[s] = "over"
    /\ HandlerTo(s, "close")
    /\ UNCHANGED <<closed, file, conn, killer>>

HandlerClose(s) ==
    /\ handler[s] = "close"
    /\ \/ First(s) /\ SetClosed(s) /\ HandlerTo(s, "kill")
       \/ Later(s) /\ HandlerTo(s, "hangup") /\ UNCHANGED closed
    /\ UNCHANGED <<file, conn, killer>>

HandlerKill(s) ==
    /\ handler[s] = "kill"
    /\ Terminate(s) /\ HandlerTo(s, "file")
    /\ UNCHANGED <<closed, file, conn>>

HandlerFile(s) ==
    /\ handler[s] = "file"
    /\ CloseFile(s) /\ HandlerTo(s, "hangup")
    /\ UNCHANGED <<closed, conn, killer>>

Hangup(s) ==
    /\ handler[s] = "hangup"
    /\ conn' = [conn EXCEPT ![s] = "down"]
    /\ HandlerTo(s, "over")
    /\ UNCHANGED <<closed, file, killer>>

CloserTo(point, todo, at) ==
    /\ closer' = [pc |-> point, todo |-> todo, at |-> at]
    /\ UNCHANGED <<table, mu, procs, conn, loops, handler, waiter>>

CloseUser ==
    /\ closer.pc = "idle"
    /\ CloserTo("next", table, NoSession)
    /\ UNCHANGED <<closed, file, killer>>

CloserNext ==
    /\ closer.pc = "next"
    /\ \E s \in closer.todo : CloserTo("mu", closer.todo \ {s}, s)
    /\ UNCHANGED <<closed, file, killer>>

CloserLock ==
    /\ closer.pc = "mu"
    /\ \/ /\ First(closer.at) /\ SetClosed(closer.at)
          /\ CloserTo("kill", closer.todo, closer.at)
       \/ /\ Later(closer.at) /\ UNCHANGED closed
          /\ CloserTo("next", closer.todo, NoSession)
    /\ UNCHANGED <<file, killer>>

CloserKill ==
    /\ closer.pc = "kill"
    /\ Terminate(closer.at) /\ CloserTo("file", closer.todo, closer.at)
    /\ UNCHANGED <<closed, file>>

CloserFile ==
    /\ closer.pc = "file"
    /\ CloseFile(closer.at) /\ CloserTo("next", closer.todo, NoSession)
    /\ UNCHANGED <<closed, killer>>

CloserReturns ==
    /\ closer.pc = "next" /\ closer.todo = {}
    /\ CloserTo("idle", {}, NoSession)
    /\ UNCHANGED <<closed, file, killer>>

-----------------------------------------------------------------------------
(* The shell process: Session.wait, the timer, and what the user does *)

Exit(s) ==
    /\ shell' = [shell EXCEPT ![s] = "exited"]
    /\ \E left \in BOOLEAN : children' = [children EXCEPT ![s] = left]

ShellExits(s) ==
    /\ shell[s] = "running"
    /\ Exit(s)
    /\ UNCHANGED <<table, closed, file, mu, conn, loops, handler, waiter, killer, closer>>

ChildrenExit(s) ==
    /\ children[s]
    /\ children' = [children EXCEPT ![s] = FALSE]
    /\ UNCHANGED <<table, closed, file, mu, shell, conn, loops, handler, waiter, killer, closer>>

TimerFires_Bad(s) ==
    /\ killer[s] = "armed"
    /\ killer' = [killer EXCEPT ![s] = "over"]
    /\ UNCHANGED <<table, closed, file, mu, procs, conn, loops, handler, waiter, closer>>

\* SIGKILL to the shell's process group, two seconds after SIGTERM.
TimerFires(s) ==
    /\ killer[s] = "armed"
    /\ killer' = [killer EXCEPT ![s] = "over"]
    /\ IF shell[s] = "running" THEN Exit(s) ELSE UNCHANGED procs
    /\ UNCHANGED <<table, closed, file, mu, conn, loops, handler, waiter, closer>>

\* s.done was closed before the timer fired.
TimerStopped(s) ==
    /\ killer[s] = "armed" /\ waiter[s] \in {"remove", "over"}
    /\ killer' = [killer EXCEPT ![s] = "over"]
    /\ UNCHANGED <<table, closed, file, mu, procs, conn, loops, handler, waiter, closer>>

Reap_Bad(s) ==
    /\ waiter[s] = "wait"
    /\ waiter' = [waiter EXCEPT ![s] = "remove"]
    /\ UNCHANGED <<table, closed, file, mu, procs, conn, loops, handler, killer, closer>>

\* command.Wait returns; close(s.done).
Reap(s) ==
    /\ waiter[s] = "wait" /\ shell[s] = "exited"
    /\ shell' = [shell EXCEPT ![s] = "reaped"]
    /\ waiter' = [waiter EXCEPT ![s] = "remove"]
    /\ UNCHANGED <<table, closed, file, mu, children, conn, loops, handler, killer, closer>>

Remove(s) ==
    /\ waiter[s] = "remove"
    /\ table' = table \ {s}
    /\ waiter' = [waiter EXCEPT ![s] = "over"]
    /\ UNCHANGED <<closed, file, mu, procs, conn, loops, handler, killer, closer>>

Disconnect(s) ==
    /\ conn[s] = "up"
    /\ conn' = [conn EXCEPT ![s] = "down"]
    /\ UNCHANGED <<table, closed, file, mu, procs, loops, handler, waiter, killer, closer>>

-----------------------------------------------------------------------------

\* What the server's own goroutines do by themselves, for one session.
Serve(s) ==
    \/ ReadFails(s) \/ WriteStart(s) \/ ReadPTY(s) \/ OutputEnds(s)
    \/ Wake(s) \/ HandlerClose(s) \/ HandlerKill(s) \/ HandlerFile(s) \/ Hangup(s)

Watch(s) == TimerFires(s) \/ TimerStopped(s) \/ Reap(s) \/ Remove(s)

Closing == CloserNext \/ CloserLock \/ CloserKill \/ CloserFile \/ CloserReturns

Next ==
    \/ \E s \in Session :
          \/ Open(s) \/ Receive(s) \/ Refuse(s) \/ WriteEnd(s) \/ Resize(s) \/ Forward(s)
          \/ Serve(s) \/ Watch(s)
          \/ ShellExits(s) \/ ChildrenExit(s) \/ Disconnect(s)
    \/ CloseUser \/ Closing

Spec == Init /\ [][Next]_vars

\* Each goroutine that can run does: the loops, the handler, wait, the timer
\* and CloseUser, which may have to wait for mu; and a write to a PTY that no
\* process has open any more returns.  Nothing is assumed of what users and
\* their processes do: a write to a PTY nobody reads from may never return.
Fairness ==
    /\ \A s \in Session :
          /\ WF_vars(ReadFails(s)) /\ WF_vars(OutputEnds(s)) /\ WF_vars(Wake(s))
          /\ SF_vars(WriteStart(s) \/ Resize(s)) /\ SF_vars(ReadPTY(s))
          /\ SF_vars(HandlerClose(s)) /\ WF_vars(HandlerKill(s))
          /\ WF_vars(HandlerFile(s)) /\ WF_vars(Hangup(s))
          /\ WF_vars(Watch(s)) /\ WF_vars(~Populated(s) /\ WriteEnd(s))
    /\ WF_vars(CloserNext) /\ SF_vars(CloserLock) /\ WF_vars(CloserKill) /\ WF_vars(CloserFile)
    /\ WF_vars(CloserReturns)

FairSpec == Spec /\ Fairness

-----------------------------------------------------------------------------
(* Properties *)

\* Manager.Open counts and inserts under one lock: the account never has
\* more sessions in the table than the limit.
SlotLimit == Cardinality(table) <= MaxPerUser

\* Keystrokes are only ever written to a PTY that is still open, although
\* Close is called from other goroutines at any time.
WritesToOpenPTY == \A s \in Session : input[s] = "writing" => file[s] = "open"

\* Of the callers of Close, which race, only one kills and closes the file.
OneClose ==
    \A s \in Session :
        handler[s] \in {"kill", "file"} => ~(closer.pc \in {"kill", "file"} /\ closer.at = s)

\* As long as a shell runs CloseUser can find it.
RunningIsListed == \A s \in Session : shell[s] = "running" => s \in table

\* A closed session gives its slot back even if its shell ignores SIGTERM.
SlotFreed == \A s \in Session : closed[s] ~> s \notin table

\* README: "Disconnecting the browser closes the associated shell
\* immediately."  It does not while a Write holds mu.  What is true: of a
\* browser that has gone, the loops and the handler learn whatever they are
\* doing, and close the session; only a Write that never returns keeps
\* forwardInput from noticing, or the handler from mu.
DisconnectNoticed ==
    \A s \in Session : conn[s] = "down" ~> closed[s] \/ [](input[s] = "writing")

\* CloseUser returns, and with it the request that throws the user out,
\* however the sessions it closes end at the same time; unless it has come to
\* one whose Write never returns.
CloseUserReturns ==
    closer.pc # "idle" ~>
        \/ closer.pc = "idle"
        \/ \E s \in Session : [](closer.at = s /\ input[s] = "writing")

=============================================================================
