--------------------------- MODULE AccountContract ---------------------------
(***************************************************************************)
(* What the accounts promise, without saying how a request is split into   *)
(* statements.                                                             *)
(*                                                                         *)
(* An open request has an offer: what it came with.  While it is open it   *)
(* may gain rights from the state of the accounts, "be" to act as a user   *)
(* and "change" to replace the user's password, and no session is created  *)
(* and no password replaced without the right to.  Rights end with the     *)
(* request, so a credential that stops being valid serves at most the      *)
(* requests that were open at that moment.                                 *)
(***************************************************************************)
CONSTANTS Users, Passwords, Tokens, Requests, NoUser, NoPassword, NoToken

VARIABLES
    password, mustReset, session,
    offer,    \* what each open request came with, NoOffer when it is closed
    rights,   \* pairs <<right, user>> gained by each open request
    entered   \* who each closed request was let into the application as

vars == <<password, mustReset, session, offer, rights, entered>>

Kinds == {"login", "google", "session", "logout", "reset", "ready", "provision"}

Offers == [kind : Kinds, token : Tokens \cup {NoToken},
           user : Users \cup {NoUser}, current : Passwords \cup {NoPassword}]

NoOffer == [kind |-> "none", token |-> NoToken, user |-> NoUser,
            current |-> NoPassword]

HasAccount(u) == password[u] # NoPassword
Open(r)       == offer[r] # NoOffer

Init ==
    /\ password = [u \in Users |-> NoPassword]
    /\ mustReset = [u \in Users |-> FALSE]
    /\ session = [t \in Tokens |-> NoUser]
    /\ offer = [r \in Requests |-> NoOffer]
    /\ rights = [r \in Requests |-> {}]
    /\ entered = [r \in Requests |-> NoUser]

\* Whom the accounts, as they are now, let r be, given what it came with.
MayBe(r) ==
    LET o == offer[r] IN
    {u \in Users :
        \/ o.kind = "login" /\ o.user = u /\ HasAccount(u) /\ password[u] = o.current
        \/ o.kind = "google" /\ o.user = u /\ HasAccount(u)
        \/ o.kind \in {"session", "reset"} /\ session[o.token] = u}

\* Whose password they let r replace.
MayChange(r) ==
    LET o == offer[r] IN
    {u \in Users :
        /\ o.kind = "reset"
        /\ \/ session[o.token] = u /\ mustReset[u]
           \/ <<"be", u>> \in rights[r] /\ password[u] = o.current}

Justified(r) == ({"be"} \X MayBe(r)) \cup ({"change"} \X MayChange(r))

Close(r) ==
    /\ offer' = [offer EXCEPT ![r] = NoOffer]
    /\ rights' = [rights EXCEPT ![r] = {}]

Begin(r) ==
    /\ ~Open(r)
    /\ offer'[r] \in Offers
    /\ offer' = [offer EXCEPT ![r] = offer'[r]]
    /\ entered' = [entered EXCEPT ![r] = NoUser]
    /\ UNCHANGED <<password, mustReset, session, rights>>

Gain(r) ==
    /\ Open(r)
    /\ rights' = [rights EXCEPT ![r] = rights'[r]]
    /\ rights[r] \subseteq rights'[r]
    /\ rights'[r] \subseteq rights[r] \cup Justified(r)
    /\ UNCHANGED <<password, mustReset, session, offer, entered>>

End(r) ==
    /\ Open(r) /\ Close(r)
    /\ UNCHANGED <<password, mustReset, session, entered>>

\* Closed at once: nothing was asked of the accounts.
Refuse(r) ==
    /\ ~Open(r)
    /\ entered' = [entered EXCEPT ![r] = NoUser]
    /\ UNCHANGED <<password, mustReset, session, offer, rights>>

\* Into the application only with a live session of an account whose owner has
\* chosen the password.
Enter(r) ==
    /\ Open(r) /\ offer[r].kind = "ready"
    /\ LET u == session[offer[r].token] IN
        /\ u # NoUser /\ ~mustReset[u]
        /\ entered' = [entered EXCEPT ![r] = u]
    /\ Close(r)
    /\ UNCHANGED <<password, mustReset, session>>

SignIn(r, u, t) ==
    /\ Open(r) /\ <<"be", u>> \in rights[r]
    /\ offer[r].kind \in {"login", "google"}
    /\ session[t] = NoUser
    /\ session' = [session EXCEPT ![t] = u]
    /\ Close(r) \/ UNCHANGED <<offer, rights>>
    /\ UNCHANGED <<password, mustReset, entered>>

ChangePassword(r, u, p) ==
    /\ Open(r) /\ <<"change", u>> \in rights[r]
    /\ password' = [password EXCEPT ![u] = p]
    /\ mustReset' = [mustReset EXCEPT ![u] = FALSE]
    /\ UNCHANGED <<session, offer, rights, entered>>

\* Signing out ends one session, and no other.
SignOut(r) ==
    /\ Open(r) /\ offer[r].kind = "logout"
    /\ session' = [session EXCEPT ![offer[r].token] = NoUser]
    /\ Close(r)
    /\ UNCHANGED <<password, mustReset, entered>>

\* An account starts with a password its owner has to replace.
Provision(r, u, p) ==
    /\ Open(r) /\ offer[r].kind = "provision"
    /\ ~HasAccount(u)
    /\ password' = [password EXCEPT ![u] = p]
    /\ mustReset' = [mustReset EXCEPT ![u] = TRUE]
    /\ Close(r)
    /\ UNCHANGED <<session, entered>>

Expire(t) ==
    /\ session' = [session EXCEPT ![t] = NoUser]
    /\ UNCHANGED <<password, mustReset, offer, rights, entered>>

Next ==
    \/ \E t \in Tokens : Expire(t)
    \/ \E r \in Requests :
        \/ Refuse(r) \/ Begin(r) \/ Gain(r) \/ End(r) \/ Enter(r) \/ SignOut(r)
        \/ \E u \in Users :
            \/ \E t \in Tokens : SignIn(r, u, t)
            \/ \E p \in Passwords : ChangePassword(r, u, p) \/ Provision(r, u, p)

Spec == Init /\ [][Next]_vars

=============================================================================
