-------------------------- MODULE CertificateProofs --------------------------
(***************************************************************************)
(* The service starts with a certificate that has more than Margin to      *)
(* live, whatever other runs do meanwhile and whichever are killed.  Where *)
(* none overlap and none is killed, the files hold a pair that is hardly   *)
(* ever out of date.                                                       *)
(***************************************************************************)
EXTENDS Certificate, TLAPS

\* The certificate on disk, if it is one, has more than Margin to live.
DiskFresh == cert \in Gen => left[cert] > Margin

\* A process that has yet to decide has read what is on disk, or what is on
\* disk now is fresh; one that has decided to keep it, or has truncated it,
\* relies on that; what it has generated or loads is fresh.
FreshInv ==
    \A p \in Proc :
        /\ pc[p] = "decide" => saw[p] = cert \/ DiskFresh
        /\ pc[p] \in {"writeCert", "openKey", "writeKey", "load", "loadKey"} => DiskFresh
        /\ pc[p] \in {"openCert", "writeCert"} => own[p] \in Gen /\ left[own[p]] > Margin
        /\ pc[p] = "loadKey" /\ saw[p] \in Gen => left[saw[p]] > Margin

FreshnessInv == TypeOK /\ FreshInv

\* It holds in a fresh installation.
LEMMA FreshnessInit == Init => FreshnessInv
BY CertificateAssumption DEF Init, FreshnessInv, TypeOK, FreshInv, Content, Point

\* Every step keeps the types.
LEMMA TypeStep == TypeOK /\ [Next]_vars => TypeOK'
<1> SUFFICES ASSUME TypeOK, [Next]_vars PROVE TypeOK'
    OBVIOUS
<1> USE CertificateAssumption DEF TypeOK, Content, Point, Goto, Return
<1>1. CASE UNCHANGED vars
    BY <1>1 DEF vars
<1>2. CASE Tick
    <2>1. Floor \in Int
        <3>1. (CHOOSE t \in Period : \A u \in Period : u <= t) \in Nat
            BY Zenon
        <3> QED
            BY <3>1 DEF Floor
    <2>2. left' \in [Gen -> Int]
        BY <1>2, <2>1 DEF Tick, Aged
    <2> QED
        BY <1>2, <2>2 DEF Tick
<1>3. ASSUME NEW p \in Proc, Start(p) \/ TimerFires(p) PROVE TypeOK'
    <2>1. Begin(p)
        BY <1>3 DEF Start, TimerFires
    <2>2. mishaps' \in 0..MaxMishaps
        BY <2>1 DEF Begin
    <2>3. pc' \in [Proc -> Point]
        BY <2>1 DEF Begin
    <2> QED
        BY <1>3, <2>2, <2>3 DEF Start, TimerFires
<1>4. ASSUME NEW p \in Proc, ReadCert(p) \/ Keep(p) PROVE TypeOK'
    BY <1>4 DEF ReadCert, Keep
<1>5. ASSUME NEW p \in Proc, Generate(p) PROVE TypeOK'
    BY <1>5 DEF Generate
<1>6. ASSUME NEW p \in Proc, OpenCert(p) \/ OpenKey(p) PROVE TypeOK'
    BY <1>6 DEF OpenCert, OpenKey
<1>7. ASSUME NEW p \in Proc, WriteCert(p) PROVE TypeOK'
    <2>1. own[p] \in Gen \cup {Absent}
        OBVIOUS
    <2> QED
        BY <1>7, <2>1 DEF WriteCert, Written
<1>8. ASSUME NEW p \in Proc, WriteKey(p) PROVE TypeOK'
    <2>1. own[p] \in Gen \cup {Absent} /\ key' \in {own[p], Torn}
        BY <1>8 DEF WriteKey, Written
    <2>2. key' \in Content
        BY <1>8, <2>1
    <2> QED
        BY <1>8, <2>2 DEF WriteKey
<1>9. ASSUME NEW p \in Proc, LoadCert(p) \/ LoadKey(p) \/ Stop(p) PROVE TypeOK'
    BY <1>9 DEF LoadCert, LoadKey, Stop
<1>10. ASSUME NEW p \in Proc, Kill(p) PROVE TypeOK'
    BY <1>10 DEF Kill
<1> QED
    BY <1>1, <1>2, <1>3, <1>4, <1>5, <1>6, <1>7, <1>8, <1>9, <1>10 DEF Next, Step

\* Every step keeps the freshness of what the processes rely on.
LEMMA FreshStep == FreshnessInv /\ [Next]_vars => FreshInv'
<1> SUFFICES ASSUME TypeOK, FreshInv, TypeOK', [Next]_vars PROVE FreshInv'
    BY TypeStep DEF FreshnessInv
<1> USE CertificateAssumption DEF TypeOK, Point, Content, FreshInv, DiskFresh, Goto, Return
<1>0. Torn \notin Gen /\ Margin \in Nat /\ Lifetime \in Nat /\ Margin < Lifetime
    OBVIOUS
<1>1. CASE UNCHANGED vars
    BY <1>1 DEF vars
<1>2. CASE Tick
    BY <1>2 DEF Tick, Quiet, AtRest
<1>3. ASSUME NEW p \in Proc, Start(p) \/ TimerFires(p) PROVE FreshInv'
    BY <1>3 DEF Start, TimerFires, Begin
<1>4. ASSUME NEW p \in Proc, ReadCert(p) PROVE FreshInv'
    BY <1>4 DEF ReadCert
<1>5. ASSUME NEW p \in Proc, Keep(p) PROVE FreshInv'
    BY <1>5 DEF Keep, Fresh
<1>6. ASSUME NEW p \in Proc, Generate(p) PROVE FreshInv'
    <2>1. PICK g \in Gen : own' = [own EXCEPT ![p] = g] /\ left' = [left EXCEPT ![g] = Lifetime]
        BY <1>6 DEF Generate
    <2>2. \A h \in Gen : left[h] > Margin => left'[h] > Margin
        BY <2>1
    <2>3. own'[p] \in Gen /\ left'[own'[p]] > Margin
        BY <2>1
    <2> QED
        BY <1>6, <2>1, <2>2, <2>3 DEF Generate
<1>7. ASSUME NEW p \in Proc, OpenCert(p) PROVE FreshInv'
    BY <1>0, <1>7 DEF OpenCert
<1>8. ASSUME NEW p \in Proc, WriteCert(p) PROVE FreshInv'
    <2>1. cert' \in {own[p], Torn} /\ own[p] \in Gen /\ left[own[p]] > Margin
        BY <1>7, <1>8 DEF WriteCert, Written
    <2>2. DiskFresh'
        BY <1>0, <1>8, <2>1 DEF WriteCert
    <2> QED
        BY <1>8, <2>2 DEF WriteCert
<1>9. ASSUME NEW p \in Proc, OpenKey(p) PROVE FreshInv'
    BY <1>9 DEF OpenKey
<1>10. ASSUME NEW p \in Proc, WriteKey(p) PROVE FreshInv'
    BY <1>10 DEF WriteKey
<1>11. ASSUME NEW p \in Proc, LoadCert(p) PROVE FreshInv'
    BY <1>11 DEF LoadCert
<1>12. ASSUME NEW p \in Proc, LoadKey(p) \/ Stop(p) PROVE FreshInv'
    BY <1>12 DEF LoadKey, Stop
<1>13. ASSUME NEW p \in Proc, Kill(p) PROVE FreshInv'
    BY <1>0, <1>13 DEF Kill
<1> QED
    BY <1>1, <1>2, <1>3, <1>4, <1>5, <1>6, <1>7, <1>8, <1>9, <1>10, <1>11, <1>12, <1>13
       DEF Next, Step

\* What the service begins to answer with it has just found, or made, fresh.
LEMMA FreshLoad ==
    FreshnessInv /\ [Next]_vars
    => (loaded' # loaded /\ loaded' # Absent => left[loaded'] > Margin)
<1> SUFFICES ASSUME FreshnessInv, [Next]_vars, loaded' # loaded, loaded' # Absent
             PROVE left[loaded'] > Margin
    OBVIOUS
<1>1. PICK p \in Proc : LoadKey(p)
    BY DEF Next, Step, vars, Tick, Start, TimerFires, Begin, ReadCert, Keep, Generate, OpenCert,
           WriteCert, OpenKey, WriteKey, LoadCert, Stop, Kill
<1> QED
    BY <1>1 DEF LoadKey, FreshnessInv, FreshInv

-----------------------------------------------------------------------------
(* Up to the first mishap *)

Calm == mishaps = MaxMishaps

\* One process is not at rest, at most, and the files are as it leaves them.
Alone == \A p, q \in Proc : ~AtRest(p) /\ ~AtRest(q) => p = q

FilesOf(p) ==
    /\ ~Writing(p) \/ pc[p] = "openCert" => cert = key
    /\ Writing(p) => own[p] \in Gen
    /\ pc[p] = "writeCert" => cert = Torn
    /\ pc[p] \in {"openKey", "writeKey"} => cert = own[p]
    /\ pc[p] = "writeKey" => key = Torn

Files ==
    /\ Quiet => cert = key
    /\ \A p \in Proc : ~AtRest(p) => FilesOf(p)

\* The certificate was fresh when the timer was set, or will be when this run
\* is over.
Due == cert \in Gen => left[cert] >= Margin + 1 + Floor + (IF Quiet THEN timer ELSE 0)

CalmInv == timer <= -Floor /\ (Calm => Alone /\ Files /\ Due)

\* The longest time between two runs of the timer.
LEMMA FloorBounds == -Floor \in Nat /\ Floor \in Int /\ \A t \in Period : t \in Nat /\ t <= -Floor
<1> DEFINE longest == CHOOSE t \in Period : \A u \in Period : u <= t
<1>1. longest \in Period /\ \A u \in Period : u <= longest
    BY CertificateAssumption, Zenon
<1>2. longest \in Nat /\ Period \subseteq Nat
    BY <1>1, CertificateAssumption
<1>3. Floor = -longest
    BY DEF Floor
<1> HIDE DEF longest
<1> QED
    BY <1>1, <1>2, <1>3

LEMMA CalmInit == Init => CalmInv
<1> SUFFICES ASSUME Init PROVE CalmInv
    OBVIOUS
<1>1. Quiet /\ cert = key /\ cert \notin Gen
    BY CertificateAssumption DEF Init, Quiet, AtRest
<1> QED
    BY <1>1, FloorBounds DEF Init, CalmInv, Alone, Files, Due, Quiet

\* A step of a run, or its beginning.
Runs(p) == Start(p) \/ TimerFires(p) \/ Step(p)

\* Nothing is killed and nobody else is under way.
LEMMA OnlyRun ==
    ASSUME TypeOK, CalmInv, NEW p \in Proc, Runs(p), Calm'
    PROVE  /\ Calm /\ \A q \in Proc \ {p} : AtRest(q) /\ pc'[q] = pc[q]
           /\ Quiet <=> AtRest(p)
<1> USE DEF Runs
<1>1. CASE Start(p) \/ TimerFires(p)
    <2>1. Begin(p) /\ AtRest(p)
        BY <1>1 DEF Start, TimerFires, AtRest
    <2>2. Quiet /\ Calm
        BY <2>1, CertificateAssumption DEF Begin, Calm, TypeOK
    <2> QED
        BY <2>1, <2>2 DEF Begin, Goto, Quiet, TypeOK
<1>2. CASE Step(p)
    <2>1. Calm /\ \A q \in Proc \ {p} : pc'[q] = pc[q]
        BY <1>2 DEF Step, ReadCert, Keep, Generate, OpenCert, WriteCert, OpenKey, WriteKey,
                    LoadCert, LoadKey, Goto, Return, Calm, TypeOK
    <2>2. ~AtRest(p)
        BY <1>2 DEF Step, ReadCert, Keep, Generate, OpenCert, WriteCert, OpenKey, WriteKey,
                    LoadCert, LoadKey, AtRest
    <2> QED
        BY <2>1, <2>2 DEF CalmInv, Alone, Quiet
<1> QED
    BY <1>1, <1>2

\* ... so that only this process matters.
LEMMA OnlyFiles ==
    ASSUME NEW p \in Proc, \A q \in Proc \ {p} : AtRest(q)',
           AtRest(p)' => cert' = key', ~AtRest(p)' => FilesOf(p)'
    PROVE  Alone' /\ Files' /\ (Quiet' <=> AtRest(p)')
  BY DEF Alone, Files, Quiet

LEMMA OthersRest ==
    ASSUME NEW q \in Proc, AtRest(q), pc'[q] = pc[q]
    PROVE  AtRest(q)'
  BY DEF AtRest

\* Each step leaves the files as the next expects them.
LEMMA RunFiles ==
    ASSUME TypeOK, CalmInv, NEW p \in Proc, Runs(p), Calm'
    PROVE  (AtRest(p)' => cert' = key') /\ (~AtRest(p)' => FilesOf(p)')
<1>0. /\ Calm /\ \A q \in Proc \ {p} : AtRest(q)
      /\ Quiet => cert = key
      /\ ~AtRest(p) => FilesOf(p)
      /\ Quiet <=> AtRest(p)
    BY OnlyRun DEF CalmInv, Files
<1>1. \A q \in Proc \ {p} : pc[q] \notin {"writeCert", "writeKey"}
    BY <1>0 DEF AtRest
<1> USE DEF TypeOK, Goto, Return, FilesOf, Writing, AtRest
<1>2. CASE Start(p) \/ TimerFires(p)
    BY <1>0, <1>2 DEF Start, TimerFires, Begin
<1>3. CASE ReadCert(p) \/ Keep(p) \/ LoadCert(p) \/ LoadKey(p)
    BY <1>0, <1>3 DEF ReadCert, Keep, LoadCert, LoadKey
<1>4. CASE Generate(p)
    BY <1>0, <1>4 DEF Generate
<1>5. CASE OpenCert(p)
    BY <1>0, <1>5 DEF OpenCert
<1>6. CASE WriteCert(p)
    <2>1. cert' = own[p]
        BY <1>0, <1>1, <1>6 DEF WriteCert, Written
    <2> QED
        BY <1>0, <1>6, <2>1 DEF WriteCert
<1>7. CASE OpenKey(p)
    BY <1>0, <1>7 DEF OpenKey
<1>8. CASE WriteKey(p)
    <2>1. key' = own[p] /\ cert' = cert /\ cert = own[p]
        BY <1>0, <1>1, <1>8 DEF WriteKey, Written
    <2> QED
        BY <1>8, <2>1 DEF WriteKey
<1> QED
    BY <1>2, <1>3, <1>4, <1>5, <1>6, <1>7, <1>8 DEF Runs, Step

\* A run that ends leaves a fresh certificate.
LEMMA RunDue ==
    ASSUME FreshnessInv, FreshnessInv', CalmInv, NEW p \in Proc, Runs(p), Calm'
    PROVE  Due'
<1> SUFFICES ASSUME cert' \in Gen
             PROVE  left'[cert'] >= Margin + 1 + Floor + (IF Quiet' THEN timer' ELSE 0)
    BY FloorBounds DEF Due
<1>0. /\ Calm /\ (\A q \in Proc \ {p} : AtRest(q)) /\ timer <= -Floor
      /\ cert \in Gen => left[cert] >= Margin + 1 + Floor
    <2>1. Calm /\ (\A q \in Proc \ {p} : AtRest(q)) /\ timer <= -Floor /\ Due /\ timer \in Nat
        BY OnlyRun DEF CalmInv, FreshnessInv, TypeOK
    <2>2. left \in [Gen -> Int] /\ Margin \in Nat /\ Floor \in Int
        BY CertificateAssumption, FloorBounds DEF FreshnessInv, TypeOK
    <2> QED
        BY <2>1, <2>2 DEF Due
<1>1. /\ left \in [Gen -> Int] /\ left' \in [Gen -> Int] /\ timer \in Nat /\ timer' \in Nat
      /\ Margin \in Nat /\ Lifetime \in Nat /\ Margin < Lifetime /\ Floor \in Int /\ -Floor \in Nat
      /\ Torn \notin Gen
    BY CertificateAssumption, FloorBounds DEF FreshnessInv, TypeOK
<1>2. \A g \in Gen : left'[g] >= left[g] \/ left'[g] = Lifetime
    BY <1>1 DEF Runs, Start, TimerFires, Begin, Step, ReadCert, Keep, Generate, OpenCert, WriteCert,
                OpenKey, WriteKey, LoadCert, LoadKey
<1>3. cert' = cert \/ WriteCert(p)
    BY <1>1 DEF Runs, Start, TimerFires, Step, ReadCert, Keep, Generate, OpenCert, WriteCert,
           OpenKey, WriteKey, LoadCert, LoadKey
<1>4. CASE ~Quiet' /\ cert' = cert
    BY <1>0, <1>1, <1>2, <1>4
<1>5. CASE WriteCert(p)
    <2>1. pc'[p] = "openKey"
        BY <1>5 DEF WriteCert, Goto, FreshnessInv, TypeOK
    <2>2. ~Quiet' /\ DiskFresh'
        BY <2>1 DEF Quiet, AtRest, FreshnessInv, FreshInv
    <2> QED
        BY <1>1, <2>2 DEF DiskFresh
<1>6. CASE Quiet' /\ cert' = cert
    <2>1. Keep(p) \/ WriteKey(p) \/ LoadKey(p)
        BY <1>6 DEF Runs, Start, TimerFires, Begin, Step, ReadCert, Generate, OpenCert, WriteCert,
                    OpenKey, LoadCert, Goto, Quiet, AtRest, FreshnessInv, TypeOK
    <2>2. left[cert] > Margin
        BY <1>6, <2>1 DEF Keep, Fresh, WriteKey, LoadKey, FreshnessInv, FreshInv, DiskFresh
    <2>3. timer' = timer /\ left' = left
        BY <2>1 DEF Keep, WriteKey, LoadKey
    <2> QED
        BY <1>0, <1>1, <1>6, <2>2, <2>3
<1> QED
    BY <1>3, <1>4, <1>5, <1>6

LEMMA CalmStep ==
    ASSUME FreshnessInv, FreshnessInv', CalmInv, [Next]_vars
    PROVE  CalmInv'
<1>0. /\ TypeOK /\ TypeOK' /\ timer \in Nat /\ Floor \in Int /\ Margin \in Nat
      /\ left \in [Gen -> Int]
    BY CertificateAssumption, FloorBounds DEF FreshnessInv, TypeOK
<1>1. timer' <= -Floor
    BY <1>0, FloorBounds
       DEF CalmInv, Next, Step, vars, Tick, Start, TimerFires, ReadCert, Keep, Generate, OpenCert,
           WriteCert, OpenKey, WriteKey, LoadCert, LoadKey, Stop, Kill
<1>2. ASSUME NEW p \in Proc, Runs(p), Calm' PROVE Alone' /\ Files' /\ Due'
    BY <1>0, <1>2, OnlyRun, OnlyFiles, OthersRest, RunFiles, RunDue
<1>3. ASSUME NEW p \in Proc, Stop(p), Calm' PROVE Alone' /\ Files' /\ Due'
    <2>1. (\A q \in Proc : AtRest(q)' <=> AtRest(q)) /\ Calm
        BY <1>0, <1>3 DEF Stop, Goto, AtRest, TypeOK, Calm
    <2>2. \A q \in Proc : ~AtRest(q) => pc'[q] = pc[q]
        BY <1>0, <1>3 DEF Stop, Goto, AtRest, TypeOK
    <2>3. Quiet' <=> Quiet
        BY <2>1 DEF Quiet
    <2> QED
        BY <1>3, <2>1, <2>2, <2>3 DEF Stop, CalmInv, Alone, Files, Due, FilesOf, Writing
<1>4. ASSUME NEW p \in Proc, Kill(p) PROVE ~Calm'
    BY <1>0, <1>4, CertificateAssumption DEF Kill, Calm, TypeOK
<1>5. CASE Tick /\ Calm'
    <2>1. Calm /\ Quiet /\ Quiet' /\ pc' = pc /\ Alone' /\ Files'
        BY <1>5 DEF Tick, Calm, Quiet, AtRest, CalmInv, Alone, Files
    <2>2. ASSUME cert \in Gen PROVE left'[cert] >= Margin + 1 + Floor + timer'
        <3>1. left[cert] >= Margin + 1 + Floor + timer /\ timer > 0 /\ timer' = timer - 1
            BY <1>5, <2>1, <2>2 DEF Tick, CalmInv, Due
        <3>2. left'[cert] = left[cert] - 1
            BY <1>0, <1>5, <2>2, <3>1 DEF Tick, Aged, InUse
        <3>3. left[cert] \in Int
            BY <1>0, <2>2
        <3> QED
            BY <1>0, <3>1, <3>2, <3>3
    <2>3. Due'
        BY <1>5, <2>1, <2>2 DEF Tick, Due
    <2> QED
        BY <1>1, <2>1, <2>3 DEF CalmInv
<1>6. CASE UNCHANGED vars /\ Calm'
    BY <1>6 DEF vars, Calm, CalmInv, Alone, Files, Due, Quiet, AtRest, FilesOf, Writing
<1> QED
    BY <1>1, <1>2, <1>3, <1>4, <1>5, <1>6 DEF CalmInv, Next, Runs

-----------------------------------------------------------------------------
(* The theorems *)

\* Every reachable state is well typed.
THEOREM TypeCorrect == Spec => []TypeOK
<1>1. Init => TypeOK
    BY FreshnessInit DEF FreshnessInv
<1>2. TypeOK /\ [Next]_vars => TypeOK'
    BY TypeStep
<1> QED
    BY <1>1, <1>2, PTL DEF Spec

\* The invariant holds in every reachable state.
THEOREM FreshnessInvariant == Spec => []FreshnessInv
<1>1. FreshnessInv /\ [Next]_vars => FreshnessInv'
    BY TypeStep, FreshStep DEF FreshnessInv
<1> QED
    BY <1>1, FreshnessInit, PTL DEF Spec

\* The service goes into operation with a certificate that has more than
\* Margin to live, for any number of cert-renew runs at a time, of kills, and
\* any lengths of time.
THEOREM ServiceStartsFresh == Spec => StartsFresh
<1>1. FreshnessInv /\ [Next]_vars
      => [loaded' # loaded /\ loaded' # Absent => left[loaded'] > Margin]_vars
    BY FreshLoad
<1> QED
    BY <1>1, FreshnessInvariant, PTL DEF Spec, StartsFresh

\* CalmInv holds in every reachable state.
THEOREM CalmInvariant == Spec => []CalmInv
<1>1. FreshnessInv /\ FreshnessInv' /\ CalmInv /\ [Next]_vars => CalmInv'
    BY CalmStep
<1> QED
    BY <1>1, CalmInit, FreshnessInvariant, PTL DEF Spec

\* Until the first mishap the two files hold a pair, or nothing, whenever
\* nobody writes them, for any lengths of time.
THEOREM FilesMatch == Spec => []PairOnDisk
<1>1. CalmInv => PairOnDisk
    <2> SUFFICES ASSUME CalmInv, Calm, \A p \in Proc : ~Writing(p) PROVE cert = key
        BY DEF PairOnDisk, Calm
    <2> QED
        BY DEF CalmInv, Files, FilesOf, Quiet
<1> QED
    BY <1>1, CalmInvariant, PTL

\* ... and the certificate is out of date for no longer than the longest
\* month is longer than Margin: each run of the timer leaves a fresh one.
THEOREM HardlyExpired == Spec => []DiskHardlyExpired
<1>1. TypeOK /\ CalmInv => DiskHardlyExpired
    <2> SUFFICES ASSUME TypeOK, CalmInv, Calm, cert \in Gen
                 PROVE  left[cert] >= Margin + 1 + Floor
        BY DEF DiskHardlyExpired, Calm
    <2>1. left[cert] \in Int /\ timer \in Nat /\ Margin \in Nat /\ Floor \in Int
        BY CertificateAssumption, FloorBounds DEF TypeOK
    <2> QED
        BY <2>1 DEF CalmInv, Due
<1> QED
    BY <1>1, CalmInvariant, TypeCorrect, PTL

=============================================================================
