----------------------------- MODULE Certificate -----------------------------
(***************************************************************************)
(* The TLS certificate and its key, cmd/web-ssh/main.go: two files, the    *)
(* service that makes them if it must, loads them and serves, and the      *)
(* command cert-renew, which a timer runs about once a month and which can *)
(* be run by hand.  Nothing orders the two processes, each may be killed   *)
(* between any two steps, and a file is replaced by truncating it and      *)
(* writing it anew.                                                        *)
(*                                                                         *)
(* A certificate and the key made with it are one member of Gen.  A file   *)
(* that does not hold all of what one process wrote is Torn.  Runs of a    *)
(* process take milliseconds, time is counted in days: no time passes      *)
(* while one is under way.                                                 *)
(***************************************************************************)
EXTENDS Integers, FiniteSets

CONSTANTS
    Gen,         \* key pairs; one that is nowhere in use may be made again
    Renew,       \* runs of cert-renew at one time
    Lifetime,    \* 365 days
    Margin,      \* 30 days
    Period,      \* the times between two runs of the timer: 28 to 31 days
    MaxMishaps,  \* bound: processes killed in the middle of a run, and runs
                 \* that begin while another is under way
    Absent, Torn, Service

ASSUME CertificateAssumption ==
    /\ IsFiniteSet(Gen) /\ {Absent, Torn} \cap Gen = {}
    /\ Service \notin Renew
    /\ Lifetime \in Nat /\ Margin \in Nat /\ Margin < Lifetime
    /\ Period \subseteq Nat \ {0} /\ \E t \in Period : \A u \in Period : u <= t
    /\ MaxMishaps \in Nat

Proc == {Service} \cup Renew

VARIABLES
    cert, key,  \* what the two files hold
    left,       \* time each certificate still has; it stops a Period below zero
    pc,         \* the point each process has reached
    saw,        \* the certificate the process has read last
    own,        \* the pair it has generated
    loaded,     \* the pair the running service answers with
    timer,      \* time to the next run of the timer
    mishaps     \* how many more there may be

vars == <<cert, key, left, pc, saw, own, loaded, timer, mishaps>>

Content == Gen \cup {Absent, Torn}
Point == {"idle", "read", "decide", "openCert", "writeCert", "openKey", "writeKey",
          "load", "loadKey", "serving"}

TypeOK ==
    /\ cert \in Content /\ key \in Content
    /\ left \in [Gen -> Int]
    /\ pc \in [Proc -> Point]
    /\ saw \in [Proc -> Content]
    /\ own \in [Proc -> Gen \cup {Absent}]
    /\ loaded \in Gen \cup {Absent}
    /\ timer \in Nat /\ mishaps \in 0..MaxMishaps

AtRest(p) == pc[p] \in {"idle", "serving"}
Quiet == \A p \in Proc : AtRest(p)
Writing(p) == pc[p] \in {"openCert", "writeCert", "openKey", "writeKey"}

-----------------------------------------------------------------------------
(* A fresh installation.                                                   *)

Init ==
    /\ cert = Absent /\ key = Absent /\ loaded = Absent
    /\ left = [g \in Gen |-> Lifetime]
    /\ pc = [p \in Proc |-> "idle"]
    /\ saw = [p \in Proc |-> Absent] /\ own = [p \in Proc |-> Absent]
    /\ timer \in Period /\ mishaps = MaxMishaps

Goto(p, point) == pc' = [pc EXCEPT ![p] = point]

\* ensureCertificate or renewCertificate has returned without an error.
Return(p) == Goto(p, IF p = Service THEN "load" ELSE "idle")

\* A run begins; others may be under way.
Begin(p) ==
    /\ Goto(p, "read")
    /\ IF Quiet THEN UNCHANGED mishaps ELSE mishaps > 0 /\ mishaps' = mishaps - 1

\* systemd starts the service, which restarts on failure; somebody runs
\* cert-renew, as the installer does.
Start(p) ==
    /\ pc[p] = "idle"
    /\ Begin(p)
    /\ UNCHANGED <<cert, key, left, saw, own, loaded, timer>>

TimerFires(p) ==
    /\ timer = 0 /\ p \in Renew /\ pc[p] = "idle"
    /\ timer' \in Period
    /\ Begin(p)
    /\ UNCHANGED <<cert, key, left, saw, own, loaded>>

ReadCert(p) ==
    /\ pc[p] = "read"
    /\ saw' = [saw EXCEPT ![p] = cert]
    /\ Goto(p, "decide")
    /\ UNCHANGED <<cert, key, left, own, loaded, timer, mishaps>>

\* No look at the expiry.
Fresh_Bad(c) == c \in Gen /\ key # Absent

\* A certificate that parses, more than 30 days of life, and any key file.
Fresh(c) == c \in Gen /\ key # Absent /\ left[c] > Margin

Keep(p) ==
    /\ pc[p] = "decide" /\ Fresh(saw[p])
    /\ Return(p)
    /\ saw' = [saw EXCEPT ![p] = Absent]
    /\ UNCHANGED <<cert, key, left, own, loaded, timer, mishaps>>

InUse == {cert, key, loaded} \cup {saw[p] : p \in Proc} \cup {own[p] : p \in Proc}

\* generateCertificate up to the first writePEM.
Generate(p) ==
    /\ pc[p] = "decide" /\ ~Fresh(saw[p])
    /\ \E g \in Gen :
        /\ g = CHOOSE h \in Gen : h \notin InUse
        /\ own' = [own EXCEPT ![p] = g]
        /\ left' = [left EXCEPT ![g] = Lifetime]
    /\ saw' = [saw EXCEPT ![p] = Absent]
    /\ Goto(p, "openCert")
    /\ UNCHANGED <<cert, key, loaded, timer, mishaps>>

\* writePEM: O_TRUNC, then several writes and a Sync.  What is left when
\* somebody else has written the file since, or is still at it, is this
\* process's data or a mixture.
Written(p, content, point) ==
    {own[p]} \cup IF content # Torn \/ \E q \in Proc \ {p} : pc[q] = point THEN {Torn} ELSE {}

OpenCert(p) ==
    /\ pc[p] = "openCert"
    /\ cert' = Torn
    /\ Goto(p, "writeCert")
    /\ UNCHANGED <<key, left, saw, own, loaded, timer, mishaps>>

WriteCert(p) ==
    /\ pc[p] = "writeCert"
    /\ cert' \in Written(p, cert, "writeCert")
    /\ Goto(p, "openKey")
    /\ UNCHANGED <<key, left, saw, own, loaded, timer, mishaps>>

\* A key file that is there is kept.
OpenKey_Bad(p) ==
    /\ pc[p] = "openKey"
    /\ key' = IF key = Absent THEN Torn ELSE key
    /\ IF key = Absent THEN Goto(p, "writeKey") ELSE Return(p)
    /\ UNCHANGED <<cert, left, saw, own, loaded, timer, mishaps>>

OpenKey(p) ==
    /\ pc[p] = "openKey"
    /\ key' = Torn
    /\ Goto(p, "writeKey")
    /\ UNCHANGED <<cert, left, saw, own, loaded, timer, mishaps>>

WriteKey(p) ==
    /\ pc[p] = "writeKey"
    /\ key' \in Written(p, key, "writeKey")
    /\ Return(p)
    /\ own' = [own EXCEPT ![p] = Absent]
    /\ UNCHANGED <<cert, left, saw, loaded, timer, mishaps>>

\* ListenAndServeTLS reads the two files, once.
LoadCert(p) ==
    /\ pc[p] = "load"
    /\ saw' = [saw EXCEPT ![p] = cert]
    /\ Goto(p, "loadKey")
    /\ UNCHANGED <<cert, key, left, own, loaded, timer, mishaps>>

LoadKey(p) ==
    /\ pc[p] = "loadKey"
    /\ IF saw[p] \in Gen /\ key = saw[p]
         THEN loaded' = saw[p] /\ Goto(p, "serving")
         ELSE UNCHANGED loaded /\ Goto(p, "idle")
    /\ saw' = [saw EXCEPT ![p] = Absent]
    /\ UNCHANGED <<cert, key, left, own, timer, mishaps>>

\* The service is stopped: an update, a reboot, a failure.
Stop(p) ==
    /\ pc[p] = "serving"
    /\ loaded' = Absent
    /\ Goto(p, "idle")
    /\ UNCHANGED <<cert, key, left, saw, own, timer, mishaps>>

\* The process is killed in a run; a file it is writing keeps what it has.
Kill(p) ==
    /\ mishaps > 0 /\ ~AtRest(p)
    /\ mishaps' = mishaps - 1
    /\ cert' \in {cert} \cup IF pc[p] = "writeCert" THEN {Torn} ELSE {}
    /\ key' \in {key} \cup IF pc[p] = "writeKey" THEN {Torn} ELSE {}
    /\ saw' = [saw EXCEPT ![p] = Absent] /\ own' = [own EXCEPT ![p] = Absent]
    /\ Goto(p, "idle")
    /\ UNCHANGED <<left, loaded, timer>>

Floor == -(CHOOSE t \in Period : \A u \in Period : u <= t)

Aged == [g \in Gen |->
          IF g \notin InUse THEN Lifetime
          ELSE IF left[g] > Floor THEN left[g] - 1 ELSE Floor]

\* Time passes, although a run of the timer is due.
Tick_Bad ==
    /\ Quiet
    /\ timer' = timer - 1
    /\ left' = Aged
    /\ UNCHANGED <<cert, key, pc, saw, own, loaded, mishaps>>

Tick ==
    /\ Quiet
    /\ timer > 0
    /\ timer' = timer - 1
    /\ left' = Aged
    /\ UNCHANGED <<cert, key, pc, saw, own, loaded, mishaps>>

Step(p) ==
    \/ ReadCert(p) \/ Keep(p) \/ Generate(p)
    \/ OpenCert(p) \/ WriteCert(p) \/ OpenKey(p) \/ WriteKey(p)
    \/ LoadCert(p) \/ LoadKey(p)

Next ==
    \/ \E p \in Proc : Start(p) \/ TimerFires(p) \/ Step(p) \/ Stop(p) \/ Kill(p)
    \/ Tick

Spec == Init /\ [][Next]_vars

\* A process that is not killed runs on, systemd starts the service again,
\* the timer fires and time passes, also when somebody keeps running
\* cert-renew by hand.
Fairness ==
    /\ \A p \in Proc : WF_vars(Step(p)) /\ SF_vars(TimerFires(p))
    /\ SF_vars(Start(Service)) /\ SF_vars(Tick)

FairSpec == Spec /\ Fairness

-----------------------------------------------------------------------------
(* Properties.                                                             *)

\* The service goes into operation with a certificate that has more than
\* Margin to live, whatever was killed or overlapped before: the files may
\* have been changed between its check and its loading of them, but only for
\* the better (ensureCertificate against ListenAndServeTLS).
StartsFresh == [][loaded' # loaded /\ loaded' # Absent => left[loaded'] > Margin]_vars

\* As long as no run has overlapped another or been killed, the files hold a
\* pair or nothing at any time that nobody is writing (generateCertificate).
PairOnDisk ==
    mishaps = MaxMishaps /\ (\A p \in Proc : ~Writing(p)) => cert = key

\* ... and the certificate in the file is out of date for no longer than a
\* month is longer than the Margin of 30 days.
DiskHardlyExpired ==
    mishaps = MaxMishaps /\ cert \in Gen => left[cert] >= Margin + 1 + Floor

\* Kills and overlaps leave the service down for a time at most: when the
\* certificate comes into its last days the pair is made anew.
UpAgain == []<>(pc[Service] = "serving")

=============================================================================
