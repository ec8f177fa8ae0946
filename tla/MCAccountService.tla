-------------------------- MODULE MCAccountService --------------------------
(* Instances of AccountService for TLC.                                     *)
EXTENDS AccountService, TLC

PasswordRoutes == {"login", "reset", "provision", "ready"}

\* Emails, passwords, tokens and requests are told apart only by equality.
Symmetry == Permutations(Users) \cup Permutations(Passwords)
            \cup Permutations(Tokens) \cup Permutations(Requests)

=============================================================================
