------------------------------ MODULE Registry ------------------------------
(***************************************************************************)
(* What the user and wallet features promise their callers, with no        *)
(* transaction, request or table in sight: a registry of accounts.         *)
(* Registering an e-mail adds the user and her wallet in one indivisible   *)
(* step, a positive answer is given only for an account that is there, and *)
(* "already exists" only for an e-mail that is taken.  Accounts.tla, the   *)
(* model of the code, is shown to implement this specification.            *)
(***************************************************************************)
EXTENDS Naturals, Sequences

CONSTANTS
    Ids,      \* the identifiers the users_id_seq sequence can hand out
    Emails,   \* the e-mail addresses callers use
    Legacy    \* e-mails of the users older than the wallets table, by id

VARIABLES
    users,    \* the registered users, [id, email]
    wallets,  \* the ids of the users that own a wallet
    acked,    \* the ids CreateUser has returned to a caller
    refused   \* the e-mails some caller was told are taken

vars == <<users, wallets, acked, refused>>

User == [id : Ids, email : Emails]

LegacyUsers == {[id |-> i, email |-> Legacy[i]] : i \in DOMAIN Legacy}

Init ==
    /\ users = LegacyUsers
    /\ wallets = {}
    /\ acked = {}
    /\ refused = {}

\* A new account: the user and the wallet appear together, under an id and
\* an e-mail that nobody had.
Register(u) ==
    /\ \A v \in users : v.id # u.id /\ v.email # u.email
    /\ users' = users \cup {u}
    /\ wallets' = wallets \cup {u.id}
    /\ UNCHANGED <<acked, refused>>

\* The only users that can still lack a wallet are the legacy ones.
OpenWallet(i) ==
    /\ i \in DOMAIN Legacy \ wallets
    /\ wallets' = wallets \cup {i}
    /\ UNCHANGED <<users, acked, refused>>

\* A caller learns that her account is complete.
Acknowledge(u) ==
    /\ u \in users
    /\ u.id \in wallets
    /\ acked' = acked \cup {u.id}
    /\ UNCHANGED <<users, wallets, refused>>

\* A caller learns that an e-mail is taken.
Refuse(e) ==
    /\ \E u \in users : u.email = e
    /\ refused' = refused \cup {e}
    /\ UNCHANGED <<users, wallets, acked>>

Next ==
    \/ \E u \in User : Register(u)
    \/ \E i \in DOMAIN Legacy : OpenWallet(i)
    \/ \E u \in users : Acknowledge(u)
    \/ \E e \in Emails : Refuse(e)

Spec == Init /\ [][Next]_vars

=============================================================================
