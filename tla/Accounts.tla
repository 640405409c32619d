------------------------------ MODULE Accounts ------------------------------
(***************************************************************************)
(* The user and wallet features of the service, run by concurrent requests *)
(* against one PostgreSQL database.                                        *)
(*                                                                         *)
(* Each request is a goroutine.  CreateUser and CreateWallet run their     *)
(* statements inside UnitOfWork.Do, so on the transaction the context      *)
(* carries; GetUser and GetWallet run on the connection pool, one          *)
(* statement at a time.  Any request may fail between two statements (a    *)
(* broken connection, the deadline of the request's context, a panic), and *)
(* the whole process may crash.                                            *)
(*                                                                         *)
(* The database is PostgreSQL at READ COMMITTED.  A row carries the        *)
(* transaction that wrote it (xmin) and is visible to others once that     *)
(* transaction has committed; an INSERT that collides with a row of a      *)
(* running transaction waits for it; a row is in the unique index before   *)
(* the trigger of its foreign key looks for what it refers to; a statement *)
(* that fails aborts its transaction; a sequence never takes a number back.*)
(***************************************************************************)
EXTENDS Naturals, Sequences

CONSTANTS
    Requests,  \* the requests the service receives, each one once
    Calls,     \* the RPCs those requests call
    Emails,    \* the e-mail addresses callers use
    Ids,       \* the ids of the BIGSERIAL column users.id
    Legacy,    \* e-mails of the users older than the wallets table, by id
    Frozen,    \* the transaction id of rows that were committed on their own
    NoEmail    \* the e-mail of a request that has none

CreateOps == {"CreateUser", "CreateWallet"}
ReadOps == {"GetUser", "GetWallet"}

ASSUME AccountsAssumption ==
    /\ Calls \subseteq CreateOps \cup ReadOps
    /\ Ids \subseteq Nat \ {0}
    /\ Legacy \in Seq(Emails)
    /\ \A i, j \in 1..Len(Legacy) : Legacy[i] = Legacy[j] => i = j
    /\ 1..Len(Legacy) \subseteq Ids
    /\ Frozen \notin Requests
    /\ NoEmail \notin Emails

VARIABLES
    users,       \* the table users: rows [id, email, xmin]
    wallets,     \* the table wallets: rows [user_id, xmin]
    userSeq,     \* the next value of the sequence users_id_seq
    xact,        \* the state of each transaction
    pc,          \* the next statement of each request
    op,          \* the RPC each request calls
    email,       \* req.Email
    uid,         \* req.Id, req.UserId, or u.ID once CreateUser has one
    reply,       \* the answer each request was given
    walletRead   \* what GetUser learned from GetBalanceByUserID

db == <<users, wallets, userSeq>>
args == <<op, email>>
vars == <<users, wallets, userSeq, xact, pc, op, email, uid, reply, walletRead>>

Xids == Requests \cup {Frozen}
XactState == {"none", "active", "committed", "aborted"}

\* The statements that run between Begin and Commit.
TxPhases ==
    {"existsUser", "nextval", "insertUser", "existsWallet", "insertWallet", "checkUser", "commit"}
ReadPhases == {"getUser", "getBalance", "getWallet"}
Phases == {"idle", "begin", "ack", "done", "lost"} \cup TxPhases \cup ReadPhases

UserRow == [id : Ids, email : Emails, xmin : Xids]
WalletRow == [user_id : Ids, xmin : Xids]

TypeOK ==
    /\ users \subseteq UserRow
    /\ wallets \subseteq WalletRow
    /\ userSeq \in Nat \ {0}
    /\ xact \in [Xids -> XactState]
    /\ pc \in [Requests -> Phases]
    /\ op \in [Requests -> CreateOps \cup ReadOps \cup {"none"}]
    /\ email \in [Requests -> Emails \cup {NoEmail}]
    /\ uid \in [Requests -> Ids \cup {0}]
    /\ reply \in [Requests -> {"none", "ok", "exists", "notfound", "error"}]
    /\ walletRead \in [Requests -> {"unread", "found", "missing", "failed"}]

Init ==
    /\ users = {[id |-> i, email |-> Legacy[i], xmin |-> Frozen] : i \in 1..Len(Legacy)}
    /\ wallets = {}
    /\ userSeq = Len(Legacy) + 1
    /\ xact = [x \in Xids |-> IF x = Frozen THEN "committed" ELSE "none"]
    /\ pc = [r \in Requests |-> "idle"]
    /\ op = [r \in Requests |-> "none"]
    /\ email = [r \in Requests |-> NoEmail]
    /\ uid = [r \in Requests |-> 0]
    /\ reply = [r \in Requests |-> "none"]
    /\ walletRead = [r \in Requests |-> "unread"]

-----------------------------------------------------------------------------
(* What statements see and wait for.                                       *)

Committed(rows) == {row \in rows : xact[row.xmin] = "committed"}
Running(rows) == {row \in rows : xact[row.xmin] = "active"}
Live(rows) == {row \in rows : xact[row.xmin] \in {"active", "committed"}}

\* The rows a statement of transaction x sees: the committed ones and its own.
Seen(rows, x) == {row \in rows : row.xmin = x \/ xact[row.xmin] = "committed"}

\* (Faulty: the transaction the context carries is ignored.)
ConnPool(r) == Frozen

\* database.DB: the transaction the context carries, else the pool, on which
\* each statement commits on its own.
Conn(r) == IF xact[r] = "active" THEN r ELSE Frozen

\* The rows that stand in the way of a new one under the UNIQUE constraints.
SameEmail(rows, r) == {u \in rows : u.email = email[r]}
SameUser(rows, r) == {w \in rows : w.user_id = uid[r]}

\* (Faulty: the reference is left out of the migration.)
NoForeignKey(r) == TRUE

\* wallets.user_id REFERENCES users(id): the user of r's wallet, as r sees her.
ForeignKeyHolds(r) == \E u \in Seen(users, Conn(r)) : u.id = uid[r]

-----------------------------------------------------------------------------
(* The steps of a request.                                                 *)

Goto(r, phase) == pc' = [pc EXCEPT ![r] = phase]

Answer(r, status) ==
    /\ Goto(r, "done")
    /\ reply' = [reply EXCEPT ![r] = status]

\* (Faulty: an error path that does not roll back.)
RollbackForgotten(r) == UNCHANGED xact

\* The deferred tx.Rollback, or the abort the server made of it already.
Rollback(r) ==
    xact' = [xact EXCEPT ![r] = IF @ = "active" THEN "aborted" ELSE @]

\* The transport hands a request to Service, which forwards it to UseCase.
ReceiveCreateUser(r, e) ==
    /\ pc[r] = "idle"
    /\ "CreateUser" \in Calls
    /\ op' = [op EXCEPT ![r] = "CreateUser"]
    /\ email' = [email EXCEPT ![r] = e]
    /\ Goto(r, "begin")
    /\ UNCHANGED <<db, xact, uid, reply, walletRead>>

ReceiveCreateWallet(r, i) ==
    /\ pc[r] = "idle"
    /\ "CreateWallet" \in Calls
    /\ op' = [op EXCEPT ![r] = "CreateWallet"]
    /\ uid' = [uid EXCEPT ![r] = i]
    /\ Goto(r, "begin")
    /\ UNCHANGED <<db, xact, email, reply, walletRead>>

ReceiveGetUser(r, i) ==
    /\ pc[r] = "idle"
    /\ "GetUser" \in Calls
    /\ op' = [op EXCEPT ![r] = "GetUser"]
    /\ uid' = [uid EXCEPT ![r] = i]
    /\ Goto(r, "getUser")
    /\ UNCHANGED <<db, xact, email, reply, walletRead>>

ReceiveGetWallet(r, i) ==
    /\ pc[r] = "idle"
    /\ "GetWallet" \in Calls
    /\ op' = [op EXCEPT ![r] = "GetWallet"]
    /\ uid' = [uid EXCEPT ![r] = i]
    /\ Goto(r, "getWallet")
    /\ UNCHANGED <<db, xact, email, reply, walletRead>>

\* UnitOfWork.Do opens a transaction and calls the use case's function with
\* a scope whose context carries it.
Begin(r) ==
    /\ pc[r] = "begin"
    /\ xact' = [xact EXCEPT ![r] = "active"]
    /\ Goto(r, IF op[r] = "CreateUser" THEN "existsUser" ELSE "existsWallet")
    /\ UNCHANGED <<db, args, uid, reply, walletRead>>

\* (Faulty: the check is left to the unique index.)
ExistsByEmailUnchecked(r) ==
    /\ pc[r] = "existsUser"
    /\ Goto(r, "nextval")
    /\ UNCHANGED <<db, xact, args, uid, reply, walletRead>>

\* Repo.ExistsByEmail, and the early return when the e-mail is taken.
ExistsByEmail(r) ==
    /\ pc[r] = "existsUser"
    /\ IF SameEmail(Seen(users, Conn(r)), r) # {}
         THEN Answer(r, "exists") /\ Rollback(r)
         ELSE Goto(r, "nextval") /\ UNCHANGED <<xact, reply>>
    /\ UNCHANGED <<db, args, uid, walletRead>>

\* (Faulty: the id the database chose is not read back.)
NextValUnread(r) ==
    /\ pc[r] = "nextval"
    /\ userSeq \in Ids
    /\ userSeq' = userSeq + 1
    /\ Goto(r, "insertUser")
    /\ UNCHANGED <<users, wallets, xact, args, uid, reply, walletRead>>

\* INSERT INTO users takes its id from the sequence before it looks for
\* conflicts; a sequence is not transactional.
NextVal(r) ==
    /\ pc[r] = "nextval"
    /\ userSeq \in Ids
    /\ uid' = [uid EXCEPT ![r] = userSeq]
    /\ userSeq' = userSeq + 1
    /\ Goto(r, "insertUser")
    /\ UNCHANGED <<users, wallets, xact, args, reply, walletRead>>

\* (Faulty: users.email is not UNIQUE.)
InsertUserUnchecked(r) ==
    /\ pc[r] = "insertUser"
    /\ users' = users \cup {[id |-> uid[r], email |-> email[r], xmin |-> Conn(r)]}
    /\ Goto(r, "insertWallet")
    /\ UNCHANGED <<wallets, userSeq, xact, args, uid, reply, walletRead>>

\* (Faulty: the repository is given the caller's context, not the scope's.)
InsertUserOutside(r) ==
    /\ pc[r] = "insertUser"
    /\ SameEmail(Live(users), r) = {}
    /\ users' = users \cup {[id |-> uid[r], email |-> email[r], xmin |-> Frozen]}
    /\ Goto(r, "insertWallet")
    /\ UNCHANGED <<wallets, userSeq, xact, args, uid, reply, walletRead>>

\* The insertion of the row, once no live row has the e-mail.
InsertUser(r) ==
    /\ pc[r] = "insertUser"
    /\ SameEmail(Live(users), r) = {}
    /\ users' = users \cup {[id |-> uid[r], email |-> email[r], xmin |-> Conn(r)]}
    /\ Goto(r, "insertWallet")
    /\ UNCHANGED <<wallets, userSeq, xact, args, uid, reply, walletRead>>

\* The insertion fails: another transaction committed the e-mail after this
\* request's ExistsByEmail.
InsertUserRejected(r) ==
    /\ pc[r] = "insertUser"
    /\ SameEmail(Committed(users), r) # {}
    /\ Answer(r, "error")
    /\ Rollback(r)
    /\ UNCHANGED <<db, args, uid, walletRead>>

\* Repo.ExistsByUserID, and the early return when the wallet is there.
ExistsByUserID(r) ==
    /\ pc[r] = "existsWallet"
    /\ IF SameUser(Seen(wallets, Conn(r)), r) # {}
         THEN Answer(r, "exists") /\ Rollback(r)
         ELSE Goto(r, "insertWallet") /\ UNCHANGED <<xact, reply>>
    /\ UNCHANGED <<db, args, uid, walletRead>>

\* (Faulty: wallets.user_id is not UNIQUE.)
InsertWalletUnchecked(r) ==
    /\ pc[r] = "insertWallet"
    /\ wallets' = wallets \cup {[user_id |-> uid[r], xmin |-> Conn(r)]}
    /\ Goto(r, "checkUser")
    /\ UNCHANGED <<users, userSeq, xact, args, uid, reply, walletRead>>

\* wallet.Repo.Create, reached by CreateWallet directly and by CreateUser
\* through Facade.CreateByUserID: the row enters the table and its unique index.
InsertWallet(r) ==
    /\ pc[r] = "insertWallet"
    /\ SameUser(Live(wallets), r) = {}
    /\ wallets' = wallets \cup {[user_id |-> uid[r], xmin |-> Conn(r)]}
    /\ Goto(r, "checkUser")
    /\ UNCHANGED <<users, userSeq, xact, args, uid, reply, walletRead>>

\* The insertion fails: the user has a committed wallet.
InsertWalletRejected(r) ==
    /\ pc[r] = "insertWallet"
    /\ SameUser(Committed(wallets), r) # {}
    /\ Answer(r, "error")
    /\ Rollback(r)
    /\ UNCHANGED <<db, args, uid, walletRead>>

\* The end of the same INSERT: the AFTER trigger of the reference looks for the
\* user, and without her the statement fails and its row goes.
CheckUser(r) ==
    /\ pc[r] = "checkUser"
    /\ IF ForeignKeyHolds(r)
         THEN Goto(r, "commit") /\ UNCHANGED <<xact, reply>>
         ELSE Answer(r, "error") /\ Rollback(r)
    /\ UNCHANGED <<db, args, uid, walletRead>>

\* The use case's function returned nil, so the transaction is committed.
Commit(r) ==
    /\ pc[r] = "commit"
    /\ xact' = [xact EXCEPT ![r] = "committed"]
    /\ Goto(r, "ack")
    /\ UNCHANGED <<db, args, uid, reply, walletRead>>

\* (Faulty: the answer does not wait for the commit.)
AckUncommitted(r) ==
    /\ pc[r] \in {"commit", "ack"}
    /\ Answer(r, "ok")
    /\ UNCHANGED <<db, xact, args, uid, walletRead>>

\* The server's acknowledgement arrives and the response goes out.
Ack(r) ==
    /\ pc[r] = "ack"
    /\ Answer(r, "ok")
    /\ UNCHANGED <<db, xact, args, uid, walletRead>>

\* The acknowledgement is lost: the caller gets an error for a transaction
\* that is committed.
AckLost(r) ==
    /\ pc[r] = "ack"
    /\ Answer(r, "error")
    /\ UNCHANGED <<db, xact, args, uid, walletRead>>

\* (Faulty: whatever befalls the INSERT is reported as a conflict.)
TxFailsAsConflict(r) ==
    /\ pc[r] \in TxPhases \cup {"begin"}
    /\ Answer(r, IF pc[r] = "insertUser" THEN "exists" ELSE "error")
    /\ Rollback(r)
    /\ UNCHANGED <<db, args, uid, walletRead>>

\* Before the server has committed, an error of the driver, the deadline of
\* the request's context or a panic ends the transaction with a rollback.
TxFails(r) ==
    /\ pc[r] \in TxPhases \cup {"begin"}
    /\ Answer(r, "error")
    /\ Rollback(r)
    /\ UNCHANGED <<db, args, uid, walletRead>>

\* The first read of GetUser.
GetByID(r) ==
    /\ pc[r] = "getUser"
    /\ IF \E u \in Seen(users, Conn(r)) : u.id = uid[r]
         THEN Goto(r, "getBalance") /\ UNCHANGED reply
         ELSE Answer(r, "notfound")
    /\ UNCHANGED <<db, xact, args, uid, walletRead>>

\* The second read of GetUser; its error is dropped.
GetBalanceByUserID(r) ==
    /\ pc[r] = "getBalance"
    /\ walletRead' = [walletRead EXCEPT ![r] =
           IF SameUser(Seen(wallets, Conn(r)), r) # {} THEN "found" ELSE "missing"]
    /\ Answer(r, "ok")
    /\ UNCHANGED <<db, xact, args, uid>>

GetByUserID(r) ==
    /\ pc[r] = "getWallet"
    /\ Answer(r, IF SameUser(Seen(wallets, Conn(r)), r) # {} THEN "ok" ELSE "notfound")
    /\ UNCHANGED <<db, xact, args, uid, walletRead>>

\* A read fails: GetUser and GetWallet take any error of the first read for
\* an absent row, and GetUser ignores an error of the second.
ReadFails(r) ==
    /\ pc[r] \in ReadPhases
    /\ IF pc[r] = "getBalance"
         THEN Answer(r, "ok") /\ walletRead' = [walletRead EXCEPT ![r] = "failed"]
         ELSE Answer(r, "notfound") /\ UNCHANGED walletRead
    /\ UNCHANGED <<db, xact, args, uid>>

\* The process dies: its requests get no answer, and the server aborts the
\* transactions whose connections it lost.
Crash ==
    /\ pc' = [r \in Requests |-> IF pc[r] \in {"idle", "done"} THEN pc[r] ELSE "lost"]
    /\ xact' = [x \in Xids |-> IF xact[x] = "active" THEN "aborted" ELSE xact[x]]
    /\ UNCHANGED <<db, args, uid, reply, walletRead>>

Receive(r) ==
    \/ \E e \in Emails : ReceiveCreateUser(r, e)
    \/ \E i \in Ids : ReceiveCreateWallet(r, i) \/ ReceiveGetUser(r, i) \/ ReceiveGetWallet(r, i)

\* What a request does by itself, as long as nothing fails.
Step(r) ==
    \/ Begin(r) \/ Commit(r) \/ Ack(r)
    \/ ExistsByEmail(r) \/ NextVal(r) \/ InsertUser(r) \/ InsertUserRejected(r)
    \/ ExistsByUserID(r) \/ InsertWallet(r) \/ InsertWalletRejected(r) \/ CheckUser(r)
    \/ GetByID(r) \/ GetBalanceByUserID(r) \/ GetByUserID(r)

Fault(r) == TxFails(r) \/ AckLost(r) \/ ReadFails(r)

Next ==
    \/ \E r \in Requests : Receive(r) \/ Step(r) \/ Fault(r)
    \/ Crash

Spec == Init /\ [][Next]_vars

\* A request that has been received is worked on: goroutines are scheduled,
\* and PostgreSQL wakes those that wait for a transaction that has ended.
RequestRuns(r) == WF_vars(Step(r))
Fairness == \A r \in Requests : RequestRuns(r)

FairSpec == Spec /\ Fairness

-----------------------------------------------------------------------------
(* Safety.                                                                 *)

LegacyIds == 1..Len(Legacy)

\* No two registered users share an e-mail, however many CreateUser calls
\* pass ExistsByEmail before the first of them inserts.
OneUserPerEmail ==
    \A u, v \in Committed(users) : u.email = v.email => u = v

\* CreateUser adds the user and the wallet together: at no moment, after no
\* failure, is there a user with no wallet or with two, except for those
\* older than the wallets table, who have one at most.
UserHasWallet ==
    \A u \in Committed(users) :
        LET own == {w \in Committed(wallets) : w.user_id = u.id}
        IN  /\ \A w, x \in own : w = x
            /\ u.id \notin LegacyIds => own # {}

\* Every wallet is the wallet of a registered user, whether CreateUser or
\* CreateWallet opened it.
WalletHasUser ==
    \A w \in Committed(wallets) : \E u \in Committed(users) : u.id = w.user_id

\* What a caller was told is there is there: the user CreateUser returned,
\* with her wallet, and the wallet CreateWallet returned.  No later failure
\* or crash takes it away.
AckedIsDurable ==
    \A r \in Requests : reply[r] = "ok" /\ op[r] \in CreateOps =>
        /\ \E w \in Committed(wallets) : w.user_id = uid[r]
        /\ op[r] = "CreateUser" =>
             \E u \in Committed(users) : u.id = uid[r] /\ u.email = email[r]

\* USER_ALREADY_EXISTS and WALLET_ALREADY_EXISTS are said only of an e-mail
\* or a wallet that is there, not of one a transaction may still take back.
ConflictIsReal ==
    \A r \in Requests : reply[r] = "exists" =>
        IF op[r] = "CreateUser"
          THEN SameEmail(Committed(users), r) # {}
          ELSE SameUser(Committed(wallets), r) # {}

\* A retry is safe, although nothing recognises it as one: once a CreateUser has
\* committed, however it was answered, by an error for a lost acknowledgement, or
\* not at all, no other request for the e-mail commits one or is told that it
\* did, and none that is still to look for the e-mail gets past the check.
RetryIsStopped ==
    [][\A r \in Requests : op[r] = "CreateUser" /\ xact[r] = "committed" =>
          \A s \in Requests \ {r} : op[s] = "CreateUser" /\ email[s] = email[r] =>
              /\ xact'[s] # "committed" /\ reply'[s] # "ok"
              /\ pc'[s] = "nextval" => pc[s] = "nextval"]_vars

\* CreateWallet never gets ahead of CreateUser: it opens wallets of legacy
\* users alone, so CreateUser never finds its new user's wallet taken.
WalletsOpenedForLegacyOnly ==
    \A r \in Requests :
        op[r] = "CreateWallet" /\ xact[r] = "committed" => uid[r] \in LegacyIds

\* GetUser reads the user and the wallet in two statements with no
\* transaction around them, yet it never sees a new user without a wallet.
ReadsCompleteAccounts ==
    \A r \in Requests : walletRead[r] = "missing" => uid[r] \in LegacyIds

\* r waits for s: r's next insertion collides with a row s has not committed.
WaitsFor(r, s) ==
    \/ pc[r] = "insertUser" /\ \E u \in SameEmail(Running(users), r) : u.xmin = s
    \/ pc[r] = "insertWallet" /\ \E w \in SameUser(Running(wallets), r) : w.xmin = s

\* CreateWallet for the id a running CreateUser has drawn makes her wait, and
\* whoever waits for her e-mail with her, only until it is refused: a
\* transaction that others wait for waits itself for nobody but a CreateWallet
\* that has inserted a row for a user it cannot see.  So waits never go round.
HoldersWaitForDoomed ==
    \A r, s, t \in Requests : WaitsFor(r, s) /\ WaitsFor(s, t) =>
        op[t] = "CreateWallet" /\ pc[t] = "checkUser" /\ ~ForeignKeyHolds(t)

\* The next statement of r does not wait.
CanRun(r) == ENABLED <<Step(r)>>_vars

\* Nobody is stuck: a request that was received can run its next statement, or
\* the one it waits for can, or the one that this one waits for.
NobodyIsStuck ==
    \A r \in Requests : pc[r] \notin {"idle", "done", "lost"} =>
        \/ CanRun(r)
        \/ \E s \in Requests : WaitsFor(r, s) /\ CanRun(s)
        \/ \E s, t \in Requests : WaitsFor(r, s) /\ WaitsFor(s, t) /\ CanRun(t)

-----------------------------------------------------------------------------
(* Liveness and refinement.                                                *)

\* Every request that was received is answered, or dies with the process:
\* none waits for ever for a transaction that nobody ends.
Answered ==
    \A r \in Requests : pc[r] # "idle" ~> pc[r] \in {"done", "lost"}

\* The registry the tables and the answers amount to.
Registered == {[id |-> u.id, email |-> u.email] : u \in Committed(users)}
WalletOwners == {w.user_id : w \in Committed(wallets)}
ToldOk == {r \in Requests : op[r] = "CreateUser" /\ reply[r] = "ok"}
ToldTaken == {r \in Requests : op[r] = "CreateUser" /\ reply[r] = "exists"}
Acked == {uid[r] : r \in ToldOk}
Refused == {email[r] : r \in ToldTaken}

Promise == INSTANCE Registry WITH
    users <- Registered, wallets <- WalletOwners, acked <- Acked, refused <- Refused

\* Concurrent requests with all their failures implement the registry, in
\* which an account appears as a whole.
ImplementsRegistry == Promise!Spec

-----------------------------------------------------------------------------
(* The inductive invariant.  The safety properties speak of committed rows *)
(* and of answers; what makes them hold step by step is how far a request  *)
(* has come, and which rows it has already written.                        *)

UserRowOf(r) == [id |-> uid[r], email |-> email[r], xmin |-> r]
WalletRowOf(r) == [user_id |-> uid[r], xmin |-> r]

\* The transaction and the answer a request has, by the statement it is at.
PhasesAgree ==
    /\ xact[Frozen] = "committed"
    /\ \A r \in Requests :
        /\ pc[r] = "idle" => op[r] = "none" /\ uid[r] = 0
        /\ op[r] = "CreateUser" => email[r] \in Emails
        /\ op[r] = "CreateWallet" => uid[r] \in Ids
        /\ pc[r] \in {"existsUser", "nextval", "insertUser"} => op[r] = "CreateUser"
        /\ pc[r] = "existsWallet" => op[r] = "CreateWallet"
        /\ pc[r] \in {"begin", "insertWallet", "checkUser", "commit", "ack"} => op[r] \in CreateOps
        /\ pc[r] \in ReadPhases => op[r] \in ReadOps
        /\ pc[r] \in TxPhases <=> xact[r] = "active"
        /\ pc[r] \in {"idle", "begin"} \cup ReadPhases => xact[r] = "none"
        /\ pc[r] = "ack" => xact[r] = "committed"
        /\ xact[r] = "committed" => op[r] \in CreateOps
        /\ reply[r] # "none" => pc[r] = "done"
        /\ walletRead[r] # "unread" => pc[r] = "done"
        /\ reply[r] = "ok" /\ op[r] \in CreateOps => xact[r] = "committed"

\* The sequence gives every CreateUser an id of its own, above the legacy ones.
IdsAreFresh ==
    /\ userSeq > Len(Legacy)
    /\ \A r \in Requests : op[r] = "CreateUser" =>
        /\ uid[r] # 0 => uid[r] > Len(Legacy) /\ uid[r] < userSeq
        /\ pc[r] = "insertUser" => uid[r] # 0
    /\ \A r, s \in Requests :
        op[r] = "CreateUser" /\ op[s] = "CreateUser" /\ uid[r] = uid[s] /\ uid[r] # 0 => r = s

\* Who wrote which row, and when.
RowsHaveAuthors ==
    /\ \A u \in users : u.xmin = Frozen => u.id \in LegacyIds
    /\ \A u \in users : u.xmin # Frozen =>
        /\ u = UserRowOf(u.xmin)
        /\ op[u.xmin] = "CreateUser"
        /\ pc[u.xmin] \in {"insertWallet", "checkUser", "commit", "ack", "done", "lost"}
    /\ \A w \in wallets :
        /\ w.xmin # Frozen
        /\ w = WalletRowOf(w.xmin)
        /\ op[w.xmin] \in CreateOps
        /\ pc[w.xmin] \in {"checkUser", "commit", "ack", "done", "lost"}

\* What a request has written by the time it gets to its last statements.
WorkIsDone ==
    \A r \in Requests :
        /\ op[r] = "CreateUser"
           /\ (pc[r] \in {"insertWallet", "checkUser", "commit"} \/ xact[r] = "committed")
             => UserRowOf(r) \in users
        /\ pc[r] \in {"checkUser", "commit"} \/ xact[r] = "committed" => WalletRowOf(r) \in wallets
        /\ op[r] = "CreateWallet" /\ (pc[r] = "commit" \/ xact[r] = "committed")
             => uid[r] \in LegacyIds

\* The constraints of the two tables, over the rows of running transactions too;
\* the reference holds of a wallet once its INSERT has ended.
ConstraintsHold ==
    /\ \A u, v \in Live(users) : u.email = v.email => u = v
    /\ \A w, x \in Live(wallets) : w.user_id = x.user_id => w = x
    /\ \A w \in Live(wallets) : pc[w.xmin] # "checkUser" =>
        \E u \in users :
            u.id = w.user_id /\ (xact[u.xmin] = "committed" \/ u.xmin = w.xmin)

\* What a request has seen stays true.
SightsLast ==
    /\ ConflictIsReal
    /\ ReadsCompleteAccounts
    /\ \A r \in Requests : pc[r] = "getBalance" => \E u \in Committed(users) : u.id = uid[r]

\* Every reachable state satisfies this, and every step keeps it: the rows in
\* the tables are accounted for by how far the request that wrote each of
\* them has come, in every interleaving and after every failure.
IndInv ==
    /\ TypeOK
    /\ PhasesAgree
    /\ IdsAreFresh
    /\ RowsHaveAuthors
    /\ WorkIsDone
    /\ ConstraintsHold
    /\ SightsLast

-----------------------------------------------------------------------------
(* What the design document and the error catalogue say, and the code does *)
(* not do.                                                                 *)

\* "User not found" is said only of a user that is not there.
NotFoundMeansAbsent ==
    [][\A r \in Requests :
          op[r] = "GetUser" /\ reply'[r] = "notfound" /\ reply[r] # "notfound" =>
              \A u \in Committed(users) : u.id # uid[r]]_vars

\* A CreateUser that fails because its e-mail is registered says so.
TakenEmailIsConflict ==
    [][\A r \in Requests :
          InsertUserRejected(r) => reply'[r] = "exists"]_vars

=============================================================================
