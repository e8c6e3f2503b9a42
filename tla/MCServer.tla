------------------------------ MODULE MCServer ------------------------------
(***************************************************************************)
(* Small instances of Server.  A run starts from an empty database or, to  *)
(* spend its states on what comes later, from one that already holds       *)
(* accounts and is opened by a new process: one value then stands for the  *)
(* account's id, its name, the token of a session it has and, when         *)
(* ResetCode holds it, a reset code it was given.                          *)
(***************************************************************************)
EXTENDS Server

CONSTANTS Admins, Members  \* the accounts the database already holds

Seeded == Admins \cup Members

FirstPassword == CHOOSE pw \in Password : TRUE

MCInit ==
    /\ users = [u \in UserId |->
          IF u \in Seeded
          THEN NewUser(u, FirstPassword, IF u \in Admins THEN "admin" ELSE "user")
          ELSE None]
    /\ names = [n \in Name |-> IF n \in Seeded THEN n ELSE None]
    /\ sessions = [t \in Token |->
          IF t \in Seeded THEN [user |-> t, lastSeen |-> 1, expires |-> 1 + SessionMax]
                          ELSE None]
    /\ invites = [c \in InviteCode |-> None]
    /\ resets = [c \in ResetCode |->
          IF c \in Seeded THEN [user |-> c, expires |-> 1 + ResetLife, used |-> FALSE]
                          ELSE None]
    /\ ServerInit

MCSpec == MCInit /\ [][Next]_vars

MCFairSpec == MCSpec /\ Fairness

=============================================================================
