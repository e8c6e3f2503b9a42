---------------------------- MODULE TerminalProofs ----------------------------
(***************************************************************************)
(* The terminal sessions of an account keep to the limit, are closed once  *)
(* and never under a Write, and can be found as long as their shell runs:  *)
(* for any number of sessions and any limit.                               *)
(***************************************************************************)
EXTENDS Terminal, FiniteSetTheorems, TLAPS

\* Nobody knows a session that has not been opened.
UnknownAtFirst(s) ==
    shell[s] = "none" =>
        /\ file[s] = "none" /\ ~closed[s] /\ input[s] = "none" /\ handler[s] = "none"
        /\ s \notin closer.todo /\ closer.at # s

\* The table has the sessions that are still to be removed; those include the
\* ones whose shell runs.
Listed(s) ==
    /\ s \in table <=> waiter[s] \in {"wait", "remove"}
    /\ shell[s] = "running" => waiter[s] = "wait"
    /\ shell[s] = "none" => waiter[s] = "none"

\* Whoever is past the test in Close has set closed, and nobody else is past
\* it; closed is never set under a Write.
ClosedByOne(s) ==
    /\ file[s] = "none" => shell[s] = "none"
    /\ file[s] = "closed" => closed[s]
    /\ handler[s] \in {"kill", "file"} => closed[s]
    /\ closer.pc \in {"kill", "file"} /\ closer.at = s =>
          closed[s] /\ handler[s] \notin {"kill", "file"}
    /\ closed[s] => input[s] # "writing"

SessionOK(s) == UnknownAtFirst(s) /\ Listed(s) /\ ClosedByOne(s)

TerminalInv == TypeOK /\ SlotLimit /\ \A s \in Session : SessionOK(s)

USE DEF procs, loops

-------------------------------------------------------------------------------

LEMMA OpenStep ==
  ASSUME TypeOK, \A u \in Session : SessionOK(u), NEW s \in Session, Open(s)
  PROVE  TypeOK' /\ \A u \in Session : SessionOK(u)'
<1>1. TypeOK'
  BY DEF TypeOK, SessionOK, UnknownAtFirst, Open, newSession, StartLoops
<1>2. ASSUME NEW u \in Session PROVE SessionOK(u)'
  BY DEF TypeOK, SessionOK, UnknownAtFirst, Listed, ClosedByOne, Open, newSession, StartLoops
<1> QED
  BY <1>1, <1>2

LEMMA ReceiveStep ==
  ASSUME TypeOK, \A u \in Session : SessionOK(u), NEW s \in Session, Receive(s)
  PROVE  TypeOK' /\ \A u \in Session : SessionOK(u)'
<1>1. TypeOK'
  BY DEF TypeOK, Receive, InputTo
<1>2. ASSUME NEW u \in Session PROVE SessionOK(u)'
  BY DEF TypeOK, SessionOK, UnknownAtFirst, Listed, ClosedByOne, Receive, InputTo
<1> QED
  BY <1>1, <1>2

LEMMA RefuseStep ==
  ASSUME TypeOK, \A u \in Session : SessionOK(u), NEW s \in Session, Refuse(s)
  PROVE  TypeOK' /\ \A u \in Session : SessionOK(u)'
<1>1. TypeOK'
  BY DEF TypeOK, Refuse, InputTo
<1>2. ASSUME NEW u \in Session PROVE SessionOK(u)'
  BY DEF TypeOK, SessionOK, UnknownAtFirst, Listed, ClosedByOne, Refuse, InputTo
<1> QED
  BY <1>1, <1>2

LEMMA ReadFailsStep ==
  ASSUME TypeOK, \A u \in Session : SessionOK(u), NEW s \in Session, ReadFails(s)
  PROVE  TypeOK' /\ \A u \in Session : SessionOK(u)'
<1>1. TypeOK'
  BY DEF TypeOK, ReadFails, InputTo
<1>2. ASSUME NEW u \in Session PROVE SessionOK(u)'
  BY DEF TypeOK, SessionOK, UnknownAtFirst, Listed, ClosedByOne, ReadFails, InputTo
<1> QED
  BY <1>1, <1>2

LEMMA WriteStartStep ==
  ASSUME TypeOK, \A u \in Session : SessionOK(u), NEW s \in Session, WriteStart(s)
  PROVE  TypeOK' /\ \A u \in Session : SessionOK(u)'
<1>1. TypeOK'
  BY DEF TypeOK, WriteStart, Unlocked, InputTo
<1>2. ASSUME NEW u \in Session PROVE SessionOK(u)'
  BY DEF TypeOK, SessionOK, UnknownAtFirst, Listed, ClosedByOne, WriteStart, Unlocked, InputTo
<1> QED
  BY <1>1, <1>2

LEMMA WriteEndStep ==
  ASSUME TypeOK, \A u \in Session : SessionOK(u), NEW s \in Session, WriteEnd(s)
  PROVE  TypeOK' /\ \A u \in Session : SessionOK(u)'
<1>1. TypeOK'
  BY DEF TypeOK, WriteEnd, InputTo
<1>2. ASSUME NEW u \in Session PROVE SessionOK(u)'
  BY DEF TypeOK, SessionOK, UnknownAtFirst, Listed, ClosedByOne, WriteEnd, InputTo
<1> QED
  BY <1>1, <1>2

LEMMA ResizeStep ==
  ASSUME TypeOK, \A u \in Session : SessionOK(u), NEW s \in Session, Resize(s)
  PROVE  TypeOK' /\ \A u \in Session : SessionOK(u)'
<1>1. TypeOK'
  BY DEF TypeOK, Resize, InputTo
<1>2. ASSUME NEW u \in Session PROVE SessionOK(u)'
  BY DEF TypeOK, SessionOK, UnknownAtFirst, Listed, ClosedByOne, Resize, InputTo
<1> QED
  BY <1>1, <1>2

LEMMA ReadPTYStep ==
  ASSUME TypeOK, \A u \in Session : SessionOK(u), NEW s \in Session, ReadPTY(s)
  PROVE  TypeOK' /\ \A u \in Session : SessionOK(u)'
<1>1. TypeOK'
  BY DEF TypeOK, ReadPTY, OutputTo
<1>2. ASSUME NEW u \in Session PROVE SessionOK(u)'
  BY DEF TypeOK, SessionOK, UnknownAtFirst, Listed, ClosedByOne, ReadPTY, OutputTo
<1> QED
  BY <1>1, <1>2

LEMMA ForwardStep ==
  ASSUME TypeOK, \A u \in Session : SessionOK(u), NEW s \in Session, Forward(s)
  PROVE  TypeOK' /\ \A u \in Session : SessionOK(u)'
<1>1. TypeOK'
  BY DEF TypeOK, Forward, OutputTo
<1>2. ASSUME NEW u \in Session PROVE SessionOK(u)'
  BY DEF TypeOK, SessionOK, UnknownAtFirst, Listed, ClosedByOne, Forward, OutputTo
<1> QED
  BY <1>1, <1>2

LEMMA OutputEndsStep ==
  ASSUME TypeOK, \A u \in Session : SessionOK(u), NEW s \in Session, OutputEnds(s)
  PROVE  TypeOK' /\ \A u \in Session : SessionOK(u)'
<1>1. TypeOK'
  BY DEF TypeOK, OutputEnds, OutputTo
<1>2. ASSUME NEW u \in Session PROVE SessionOK(u)'
  BY DEF TypeOK, SessionOK, UnknownAtFirst, Listed, ClosedByOne, OutputEnds, OutputTo
<1> QED
  BY <1>1, <1>2

LEMMA WakeStep ==
  ASSUME TypeOK, \A u \in Session : SessionOK(u), NEW s \in Session, Wake(s)
  PROVE  TypeOK' /\ \A u \in Session : SessionOK(u)'
<1>1. TypeOK'
  BY DEF TypeOK, Wake, HandlerTo
<1>2. ASSUME NEW u \in Session PROVE SessionOK(u)'
  BY DEF TypeOK, SessionOK, UnknownAtFirst, Listed, ClosedByOne, Wake, HandlerTo
<1> QED
  BY <1>1, <1>2

LEMMA HandlerCloseStep ==
  ASSUME TypeOK, \A u \in Session : SessionOK(u), NEW s \in Session, HandlerClose(s)
  PROVE  TypeOK' /\ \A u \in Session : SessionOK(u)'
<1>1. TypeOK'
  <2>1. CASE SetClosed(s) /\ HandlerTo(s, "kill")
    BY <2>1 DEF TypeOK, HandlerClose, HandlerTo, SetClosed
  <2>2. CASE HandlerTo(s, "hangup") /\ UNCHANGED closed
    BY <2>2 DEF TypeOK, HandlerClose, HandlerTo
  <2> QED
    BY <2>1, <2>2 DEF HandlerClose
<1>2. ASSUME NEW u \in Session PROVE SessionOK(u)'
  BY DEF TypeOK, SessionOK, UnknownAtFirst, Listed, ClosedByOne, HandlerClose, HandlerTo, First, Later, Unlocked, SetClosed
<1> QED
  BY <1>1, <1>2

LEMMA HandlerKillStep ==
  ASSUME TypeOK, \A u \in Session : SessionOK(u), NEW s \in Session, HandlerKill(s)
  PROVE  TypeOK' /\ \A u \in Session : SessionOK(u)'
<1>1. TypeOK'
  BY DEF TypeOK, HandlerKill, HandlerTo, Terminate
<1>2. ASSUME NEW u \in Session PROVE SessionOK(u)'
  BY DEF TypeOK, SessionOK, UnknownAtFirst, Listed, ClosedByOne, HandlerKill, HandlerTo, Terminate
<1> QED
  BY <1>1, <1>2

LEMMA HandlerFileStep ==
  ASSUME TypeOK, \A u \in Session : SessionOK(u), NEW s \in Session, HandlerFile(s)
  PROVE  TypeOK' /\ \A u \in Session : SessionOK(u)'
<1>1. TypeOK'
  BY DEF TypeOK, HandlerFile, HandlerTo, CloseFile
<1>2. ASSUME NEW u \in Session PROVE SessionOK(u)'
  BY DEF TypeOK, SessionOK, UnknownAtFirst, Listed, ClosedByOne, HandlerFile, HandlerTo, CloseFile
<1> QED
  BY <1>1, <1>2

LEMMA HangupStep ==
  ASSUME TypeOK, \A u \in Session : SessionOK(u), NEW s \in Session, Hangup(s)
  PROVE  TypeOK' /\ \A u \in Session : SessionOK(u)'
<1>1. TypeOK'
  BY DEF TypeOK, Hangup, HandlerTo
<1>2. ASSUME NEW u \in Session PROVE SessionOK(u)'
  BY DEF TypeOK, SessionOK, UnknownAtFirst, Listed, ClosedByOne, Hangup, HandlerTo
<1> QED
  BY <1>1, <1>2

LEMMA ShellExitsStep ==
  ASSUME TypeOK, \A u \in Session : SessionOK(u), NEW s \in Session, ShellExits(s)
  PROVE  TypeOK' /\ \A u \in Session : SessionOK(u)'
<1>1. TypeOK'
  BY DEF TypeOK, ShellExits, Exit
<1>2. ASSUME NEW u \in Session PROVE SessionOK(u)'
  BY DEF TypeOK, SessionOK, UnknownAtFirst, Listed, ClosedByOne, ShellExits, Exit
<1> QED
  BY <1>1, <1>2

LEMMA ChildrenExitStep ==
  ASSUME TypeOK, \A u \in Session : SessionOK(u), NEW s \in Session, ChildrenExit(s)
  PROVE  TypeOK' /\ \A u \in Session : SessionOK(u)'
<1>1. TypeOK'
  BY DEF TypeOK, ChildrenExit
<1>2. ASSUME NEW u \in Session PROVE SessionOK(u)'
  BY DEF TypeOK, SessionOK, UnknownAtFirst, Listed, ClosedByOne, ChildrenExit
<1> QED
  BY <1>1, <1>2

LEMMA TimerFiresStep ==
  ASSUME TypeOK, \A u \in Session : SessionOK(u), NEW s \in Session, TimerFires(s)
  PROVE  TypeOK' /\ \A u \in Session : SessionOK(u)'
<1>1. TypeOK'
  BY DEF TypeOK, TimerFires, Exit
<1>2. ASSUME NEW u \in Session PROVE SessionOK(u)'
  BY DEF TypeOK, SessionOK, UnknownAtFirst, Listed, ClosedByOne, TimerFires, Exit
<1> QED
  BY <1>1, <1>2

LEMMA TimerStoppedStep ==
  ASSUME TypeOK, \A u \in Session : SessionOK(u), NEW s \in Session, TimerStopped(s)
  PROVE  TypeOK' /\ \A u \in Session : SessionOK(u)'
<1>1. TypeOK'
  BY DEF TypeOK, TimerStopped
<1>2. ASSUME NEW u \in Session PROVE SessionOK(u)'
  BY DEF TypeOK, SessionOK, UnknownAtFirst, Listed, ClosedByOne, TimerStopped
<1> QED
  BY <1>1, <1>2

LEMMA ReapStep ==
  ASSUME TypeOK, \A u \in Session : SessionOK(u), NEW s \in Session, Reap(s)
  PROVE  TypeOK' /\ \A u \in Session : SessionOK(u)'
<1>1. TypeOK'
  BY DEF TypeOK, Reap
<1>2. ASSUME NEW u \in Session PROVE SessionOK(u)'
  BY DEF TypeOK, SessionOK, UnknownAtFirst, Listed, ClosedByOne, Reap
<1> QED
  BY <1>1, <1>2

LEMMA RemoveStep ==
  ASSUME TypeOK, \A u \in Session : SessionOK(u), NEW s \in Session, Remove(s)
  PROVE  TypeOK' /\ \A u \in Session : SessionOK(u)'
<1>1. TypeOK'
  BY DEF TypeOK, Remove
<1>2. ASSUME NEW u \in Session PROVE SessionOK(u)'
  BY DEF TypeOK, SessionOK, UnknownAtFirst, Listed, ClosedByOne, Remove
<1> QED
  BY <1>1, <1>2

LEMMA DisconnectStep ==
  ASSUME TypeOK, \A u \in Session : SessionOK(u), NEW s \in Session, Disconnect(s)
  PROVE  TypeOK' /\ \A u \in Session : SessionOK(u)'
<1>1. TypeOK'
  BY DEF TypeOK, Disconnect
<1>2. ASSUME NEW u \in Session PROVE SessionOK(u)'
  BY DEF TypeOK, SessionOK, UnknownAtFirst, Listed, ClosedByOne, Disconnect
<1> QED
  BY <1>1, <1>2

LEMMA CloseUserStep ==
  ASSUME TypeOK, \A u \in Session : SessionOK(u), CloseUser
  PROVE  TypeOK' /\ \A u \in Session : SessionOK(u)'
<1>1. TypeOK'
  BY TerminalAssumption DEF TypeOK, CloseUser, CloserTo
<1>2. ASSUME NEW u \in Session PROVE SessionOK(u)'
  BY TerminalAssumption DEF TypeOK, SessionOK, UnknownAtFirst, Listed, ClosedByOne, CloseUser, CloserTo
<1> QED
  BY <1>1, <1>2

LEMMA CloserNextStep ==
  ASSUME TypeOK, \A u \in Session : SessionOK(u), CloserNext
  PROVE  TypeOK' /\ \A u \in Session : SessionOK(u)'
<1>1. PICK s \in closer.todo : CloserTo("mu", closer.todo \ {s}, s)
  BY DEF CloserNext
<1>2. TypeOK'
  <2>1. s \in Session /\ closer.todo \subseteq Session
    BY DEF TypeOK
  <2> QED
    BY <1>1, <2>1 DEF TypeOK, CloserNext, CloserTo
<1>3. ASSUME NEW u \in Session PROVE SessionOK(u)'
  BY <1>1 DEF TypeOK, SessionOK, UnknownAtFirst, Listed, ClosedByOne, CloserNext, CloserTo
<1> QED
  BY <1>2, <1>3

LEMMA CloserLockStep ==
  ASSUME TypeOK, \A u \in Session : SessionOK(u), CloserLock
  PROVE  TypeOK' /\ \A u \in Session : SessionOK(u)'
<1>1. TypeOK'
  <2>1. CASE SetClosed(closer.at) /\ CloserTo("kill", closer.todo, closer.at)
    BY <2>1 DEF TypeOK, CloserLock, CloserTo, SetClosed
  <2>2. CASE CloserTo("next", closer.todo, NoSession) /\ UNCHANGED closed
    BY <2>2 DEF TypeOK, CloserLock, CloserTo
  <2> QED
    BY <2>1, <2>2 DEF CloserLock
<1>2. ASSUME NEW u \in Session PROVE SessionOK(u)'
  BY TerminalAssumption DEF TypeOK, SessionOK, UnknownAtFirst, Listed, ClosedByOne,
     CloserLock, CloserTo, First, Later, Unlocked, SetClosed
<1> QED
  BY <1>1, <1>2

LEMMA CloserKillStep ==
  ASSUME TypeOK, \A u \in Session : SessionOK(u), CloserKill
  PROVE  TypeOK' /\ \A u \in Session : SessionOK(u)'
<1>1. TypeOK'
  BY TerminalAssumption DEF TypeOK, CloserKill, CloserTo, Terminate
<1>2. ASSUME NEW u \in Session PROVE SessionOK(u)'
  BY TerminalAssumption DEF TypeOK, SessionOK, UnknownAtFirst, Listed, ClosedByOne, CloserKill, CloserTo, Terminate
<1> QED
  BY <1>1, <1>2

LEMMA CloserFileStep ==
  ASSUME TypeOK, \A u \in Session : SessionOK(u), CloserFile
  PROVE  TypeOK' /\ \A u \in Session : SessionOK(u)'
<1>1. TypeOK'
  BY TerminalAssumption DEF TypeOK, CloserFile, CloserTo, CloseFile
<1>2. ASSUME NEW u \in Session PROVE SessionOK(u)'
  BY TerminalAssumption DEF TypeOK, SessionOK, UnknownAtFirst, Listed, ClosedByOne, CloserFile, CloserTo, CloseFile
<1> QED
  BY <1>1, <1>2

LEMMA CloserReturnsStep ==
  ASSUME TypeOK, \A u \in Session : SessionOK(u), CloserReturns
  PROVE  TypeOK' /\ \A u \in Session : SessionOK(u)'
<1>1. TypeOK'
  BY TerminalAssumption DEF TypeOK, CloserReturns, CloserTo
<1>2. ASSUME NEW u \in Session PROVE SessionOK(u)'
  BY TerminalAssumption DEF TypeOK, SessionOK, UnknownAtFirst, Listed, ClosedByOne, CloserReturns, CloserTo
<1> QED
  BY <1>1, <1>2

-------------------------------------------------------------------------------

LEMMA LimitKept ==
  ASSUME TypeOK, SlotLimit, [Next]_vars
  PROVE  SlotLimit'
<1>1. IsFiniteSet(table) /\ Cardinality(table) \in Nat /\ MaxPerUser \in Nat
  BY TerminalAssumption, FS_Subset, FS_CardinalityType DEF TypeOK
<1>2. \/ table' \subseteq table
      \/ \E s \in Session : Open(s)
  BY DEF Next, vars, Receive, Refuse, WriteEnd, Resize, Forward, Serve, Watch,
         ShellExits, ChildrenExit, Disconnect, CloseUser, Closing, InputTo, OutputTo,
         HandlerTo, CloserTo, ReadFails, WriteStart, ReadPTY, OutputEnds, Wake,
         HandlerClose, HandlerKill, HandlerFile, Hangup, TimerFires, TimerStopped,
         Reap, Remove, CloserNext, CloserLock, CloserKill, CloserFile, CloserReturns
<1>3. CASE table' \subseteq table
  <2>1. Cardinality(table') \in Nat /\ Cardinality(table') <= Cardinality(table)
    BY <1>1, <1>3, FS_Subset, FS_CardinalityType
  <2> QED
    BY <1>1, <2>1 DEF SlotLimit
<1>4. CASE \E s \in Session : Open(s)
  <2>1. PICK s \in Session : table' = table \cup {s} /\ Cardinality(table) < MaxPerUser
    BY <1>4 DEF Open
  <2>2. Cardinality(table') \in {Cardinality(table), Cardinality(table) + 1}
    BY <1>1, <2>1, FS_AddElement
  <2> QED
    BY <1>1, <2>1, <2>2 DEF SlotLimit
<1> QED
  BY <1>2, <1>3, <1>4

LEMMA InitInv == Init => TerminalInv
<1> SUFFICES ASSUME Init PROVE TerminalInv
  OBVIOUS
<1>1. TypeOK
  BY DEF Init, TypeOK
<1>2. SlotLimit
  BY FS_EmptySet, TerminalAssumption DEF Init, SlotLimit
<1>3. \A s \in Session : SessionOK(s)
  BY TerminalAssumption DEF Init, SessionOK, UnknownAtFirst, Listed, ClosedByOne
<1> QED
  BY <1>1, <1>2, <1>3 DEF TerminalInv

LEMMA NextInv == TerminalInv /\ [Next]_vars => TerminalInv'
<1> SUFFICES ASSUME TerminalInv, [Next]_vars PROVE TerminalInv'
  OBVIOUS
<1> USE DEF TerminalInv
<1>1. CASE UNCHANGED vars
  BY <1>1, LimitKept DEF vars, TypeOK, SessionOK, UnknownAtFirst, Listed, ClosedByOne
<1>2. ASSUME NEW s \in Session,
             \/ Open(s) \/ Receive(s) \/ Refuse(s) \/ WriteEnd(s) \/ Resize(s) \/ Forward(s)
             \/ Serve(s) \/ Watch(s)
             \/ ShellExits(s) \/ ChildrenExit(s) \/ Disconnect(s)
      PROVE  TerminalInv'
  <2>1. CASE Serve(s)
    BY <2>1, LimitKept, ReadFailsStep, WriteStartStep, ReadPTYStep, OutputEndsStep,
       WakeStep, HandlerCloseStep, HandlerKillStep, HandlerFileStep, HangupStep DEF Serve
  <2>2. CASE Watch(s)
    BY <2>2, LimitKept, TimerFiresStep, TimerStoppedStep, ReapStep, RemoveStep DEF Watch
  <2> QED
    BY <1>2, <2>1, <2>2, LimitKept, OpenStep, ReceiveStep, RefuseStep, WriteEndStep,
       ResizeStep, ForwardStep, ShellExitsStep, ChildrenExitStep, DisconnectStep
<1>3. CASE CloseUser \/ Closing
  BY <1>3, LimitKept, CloseUserStep, CloserNextStep, CloserLockStep, CloserKillStep,
     CloserFileStep, CloserReturnsStep DEF Closing
<1> QED
  BY <1>1, <1>2, <1>3 DEF Next

\* The strengthening: who is past the test of Close has set closed, which
\* nobody does under a Write, and the table has what is not yet reaped.
THEOREM TerminalInvariant == Spec => []TerminalInv
  BY InitInv, NextInv, PTL DEF Spec

\* Program points and locks are as declared: mu is held by the sessions that
\* are in the middle of a Write and by no other.
THEOREM TypeCorrect == Spec => []TypeOK
  BY TerminalInvariant, PTL DEF TerminalInv

\* Manager.Open never admits a session over the limit.
THEOREM SlotsLimited == Spec => []SlotLimit
  BY TerminalInvariant, PTL DEF TerminalInv

\* No Write goes to a PTY that Close has closed, although a Write takes any
\* time and Close is called from other goroutines.
THEOREM NoWriteAfterClose == Spec => []WritesToOpenPTY
<1>1. TerminalInv => WritesToOpenPTY
  <2> SUFFICES ASSUME TerminalInv, NEW s \in Session, input[s] = "writing"
               PROVE  file[s] = "open"
    BY DEF WritesToOpenPTY
  <2>1. SessionOK(s) /\ file[s] \in {"none", "open", "closed"}
    BY DEF TerminalInv, TypeOK
  <2> QED
    BY <2>1 DEF SessionOK, UnknownAtFirst, ClosedByOne
<1> QED
  BY <1>1, TerminalInvariant, PTL

\* However the handler and CloseUser race, one of them closes the session.
THEOREM ClosedOnce == Spec => []OneClose
<1>1. TerminalInv => OneClose
  BY DEF TerminalInv, SessionOK, ClosedByOne, OneClose
<1> QED
  BY <1>1, TerminalInvariant, PTL

\* CloseUser finds every session whose shell runs.
THEOREM RunningIsFound == Spec => []RunningIsListed
<1>1. TerminalInv => RunningIsListed
  BY DEF TerminalInv, SessionOK, Listed, RunningIsListed
<1> QED
  BY <1>1, TerminalInvariant, PTL

===============================================================================
