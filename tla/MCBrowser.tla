------------------------------ MODULE MCBrowser ------------------------------
(* Instances of Browser for TLC.                                            *)
EXTENDS Browser, TLC

CONSTANTS alice, bob

\* Tabs that overwrite one another's state cookie; the requests of the signed-in
\* page, answered in any order; and these among those of a handshake.
Instances ==
    {[requests |-> 1, handshakes |-> 2, accounts |-> {alice, bob}],
     [requests |-> 2, handshakes |-> 0, accounts |-> {alice, bob}],
     [requests |-> 2, handshakes |-> 1, accounts |-> {alice}]}

Symmetry ==
    Permutations(Tokens) \cup Permutations(States) \cup Permutations(Codes)
        \cup Permutations(Tabs) \cup Permutations(Slots)

=============================================================================
