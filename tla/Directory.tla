----------------------------- MODULE Directory -----------------------------
(***************************************************************************)
(* What the administration of accounts promises, without requests,         *)
(* sessions, locks or time: the first account is the only one that makes   *)
(* itself an administrator, every other account is let in by an invitation *)
(* of its own, and no change of role or access leaves a system that has    *)
(* accounts without an enabled administrator.                              *)
(***************************************************************************)
EXTENDS Naturals

CONSTANTS UserId, InviteCode, None

VARIABLES
    accounts,    \* role and access of each account, or None
    invitations  \* "new", "open" or "spent", for each code

Account == [role : {"admin", "user"}, enabled : BOOLEAN]

InCharge(account) == account # None /\ account.role = "admin" /\ account.enabled

Init ==
    /\ accounts = [u \in UserId |-> None]
    /\ invitations = [c \in InviteCode |-> "new"]

Found(u) ==
    /\ \A v \in UserId : accounts[v] = None
    /\ accounts' = [accounts EXCEPT ![u] = [role |-> "admin", enabled |-> TRUE]]
    /\ UNCHANGED invitations

Invite(c) ==
    /\ invitations[c] = "new"
    /\ invitations' = [invitations EXCEPT ![c] = "open"]
    /\ UNCHANGED accounts

Withdraw(c) ==
    /\ invitations[c] = "open"
    /\ invitations' = [invitations EXCEPT ![c] = "spent"]
    /\ UNCHANGED accounts

Join(u, c) ==
    /\ accounts[u] = None
    /\ invitations[c] = "open"
    /\ accounts' = [accounts EXCEPT ![u] = [role |-> "user", enabled |-> TRUE]]
    /\ invitations' = [invitations EXCEPT ![c] = "spent"]

Change(u, account) ==
    /\ accounts[u] # None
    /\ accounts' = [accounts EXCEPT ![u] = account]
    /\ \E v \in UserId : InCharge(accounts'[v])
    /\ UNCHANGED invitations

Next ==
    \/ \E u \in UserId : Found(u)
    \/ \E c \in InviteCode : Invite(c) \/ Withdraw(c)
    \/ \E u \in UserId, c \in InviteCode : Join(u, c)
    \/ \E u \in UserId, account \in Account : Change(u, account)

Spec == Init /\ [][Next]_<<accounts, invitations>>

=============================================================================
