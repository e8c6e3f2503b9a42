--------------------------- MODULE PasswordPolicy ---------------------------
(***************************************************************************)
(* ValidatePassword of internal/auth/password.go as the handlers of        *)
(* internal/server/server.go call it: one request, from its input to the   *)
(* answer.  The tests before the loop are one step, each turn of the loop  *)
(* another.  Characters are strings of one character, one or two for each  *)
(* case the code tells apart; names and passwords are sequences of them.   *)
(***************************************************************************)
EXTENDS Integers, Sequences, Positions

CONSTANTS
    Names,                  \* names and passwords a client sends
    Passwords,
    MinName, MaxName,       \* 3 and 32
    MinLength, MaxLength,   \* 16 and 128
    MaxRun,                 \* 4
    Common                  \* commonPasswords, normalized
None == "none"

NameChar == {"a", "o", "A", "4", "2", "-", "_"}
Char == NameChar \cup {"@", "!", " ", "tab", "bell"}
Space == {" ", "tab"}
Control == {"tab", "bell"}

ASSUME PolicyAssumption ==
    /\ Names \subseteq Seq(Char) /\ Passwords \subseteq Seq(Char)
    /\ MinName \in Nat \ {0} /\ MaxName \in Nat
    /\ MinLength \in Nat \ {0} /\ MaxLength \in Nat
    /\ MaxRun \in Nat \ {0, 1}
    /\ Common \subseteq Seq(Char)

VARIABLES
    name, password,  \* of the request
    policyName,      \* what the handler passes as the user's name
    verdict,         \* None, "ok", or the error
    index,           \* the loop: runes seen,
    repeated,        \* the variables of the code
    previous

policyVars == <<name, password, policyName, verdict, index, repeated, previous>>

-----------------------------------------------------------------------------

\* ToLower, and the characters that look like letters.
Lookalike(c) == CASE c \in {"A", "4", "@"} -> "a" [] c = "!" -> "i" [] OTHER -> c

IsWord(c) == c \in {"a", "o", "i", "2"}

\* Drops before it replaces: "@" and "!" are no letters yet.
normalize_Bad(value) ==
    LET kept == {i \in 1..Len(value) : IsWord(value[i]) \/ value[i] \in {"A", "4"}}
    IN  ElementsAt([i \in 1..Len(value) |-> Lookalike(value[i])], kept)

normalize(value) ==
    LET kept == {i \in 1..Len(value) : IsWord(Lookalike(value[i]))}
    IN  ElementsAt([i \in 1..Len(value) |-> Lookalike(value[i])], kept)

Contains(s, part) ==
    \E i \in 0..Len(s) - Len(part) : \A j \in 1..Len(part) : s[i + j] = part[j]

validateUsername(n) ==
    /\ Len(n) \in MinName..MaxName
    /\ \A i \in 1..Len(n) : n[i] \in NameChar

\* What TrimSpace would cut.
Trimmable(p) == Len(p) > 0 /\ (p[1] \in Space \/ p[Len(p)] \in Space)

HasControl(p) == \E i \in 1..Len(p) : p[i] \in Control

\* handleBootstrap and handleRegister pass the name they were sent,
\* handlePasswordReset passes none.
PolicyInit ==
    /\ name \in {n \in Names : validateUsername(n)}
    /\ password \in Passwords
    /\ policyName \in {name, <<>>}
    /\ verdict = None
    /\ index = 0 /\ repeated = 1 /\ previous = None

Answer(result) ==
    /\ verdict' = result
    /\ UNCHANGED <<name, password, policyName, index, repeated, previous>>

\* The tests before the loop, in their order.
FirstError ==
    IF Len(password) < MinLength THEN "too short"
    ELSE IF Len(password) > MaxLength THEN "too long"
    ELSE IF Trimmable(password) THEN "whitespace"
    ELSE IF HasControl(password) THEN "control"
    ELSE IF policyName # <<>> /\ Contains(normalize(password), normalize(policyName))
         THEN "contains name"
    ELSE IF normalize(password) \in Common THEN "common"
    ELSE None

Tests ==
    /\ verdict = None /\ index = 0
    /\ FirstError # None
    /\ Answer(FirstError)

Looping == verdict = None /\ index < Len(password) /\ (index = 0 => FirstError = None)

\* The count never starts again.
Rune_Bad ==
    /\ Looping
    /\ index' = index + 1 /\ previous' = password[index + 1]
    /\ repeated' = IF index > 0 /\ password[index + 1] = previous
                   THEN repeated + 1 ELSE repeated
    /\ verdict' = IF repeated' >= MaxRun THEN "repeated" ELSE None
    /\ UNCHANGED <<name, password, policyName>>

\* One turn of the loop; the return in it leaves the rest alone.
Rune ==
    /\ Looping
    /\ index' = index + 1 /\ previous' = password[index + 1]
    /\ repeated' = IF index > 0 /\ password[index + 1] = previous
                   THEN repeated + 1 ELSE 1
    /\ verdict' = IF repeated' >= MaxRun THEN "repeated" ELSE None
    /\ UNCHANGED <<name, password, policyName>>

Accept ==
    /\ verdict = None /\ index = Len(password) /\ index > 0
    /\ Answer("ok")

PolicyNext == Tests \/ Rune \/ Accept

PolicySpec == PolicyInit /\ [][PolicyNext]_policyVars

-----------------------------------------------------------------------------
(* Properties.                                                             *)

Errors == {"too short", "too long", "whitespace", "control", "contains name",
           "common", "repeated"}

PolicyTypeOK ==
    /\ name \in Seq(Char) /\ password \in Seq(Char) /\ policyName \in Seq(Char)
    /\ verdict \in Errors \cup {None, "ok"}
    /\ index \in 0..Len(password)
    /\ repeated \in 1..MaxRun
    /\ previous \in Char \cup {None}

\* Characters i-n+1 to i are the same.
SameRun(i, n) ==
    n <= i /\ \A j \in 1..Len(password) : i - n < j /\ j <= i => password[j] = password[i]

HasRun == \E i \in 1..Len(password) : SameRun(i, MaxRun)

\* A password is accepted only if no character comes four times in a row,
\* and refused for that only if one does (the loop of ValidatePassword).
RunIsFound ==
    /\ verdict = "ok" => ~HasRun
    /\ verdict = "repeated" => HasRun

\* The characters of the name, as letters and digits that look alike, are
\* found in this order and next to each other.
SpellsName(n) ==
    LET word == normalize(n)
        letters == {i \in 1..Len(password) : IsWord(Lookalike(password[i]))}
    IN  word # <<>> /\ \E at \in [1..Len(word) -> letters] :
            /\ \A k \in 1..Len(word) : Lookalike(password[at[k]]) = word[k]
            /\ \A k \in 1..Len(word) - 1 :
                  at[k] < at[k + 1] /\ \A i \in letters : ~(at[k] < i /\ i < at[k + 1])

\* A password is refused for the name if it spells it, whatever stands
\* between the letters, and for nothing else: but for a name without a letter
\* or digit every password is refused, and a reset looks at no name
\* (normalize, handlePasswordReset).
NameIsFound ==
    /\ verdict = "ok" /\ policyName = name => ~SpellsName(name)
    /\ verdict = "contains name" => SpellsName(name) \/ normalize(name) = <<>>

=============================================================================
