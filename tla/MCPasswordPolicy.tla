-------------------------- MODULE MCPasswordPolicy --------------------------
(***************************************************************************)
(* PasswordPolicy, for TLC: every name and password up to a length over    *)
(* an alphabet.                                                            *)
(***************************************************************************)
EXTENDS PasswordPolicy

CONSTANTS NameAlphabet, Alphabet, Longest

Strings(alphabet, longest) == UNION {[1..n -> alphabet] : n \in 0..longest}

AllNames == Strings(NameAlphabet, MaxName)
AllPasswords == Strings(Alphabet, Longest)
Blocked == {<<"a", "o", "a">>}

=============================================================================
