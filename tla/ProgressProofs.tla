--------------------------- MODULE ProgressProofs ---------------------------
(***************************************************************************)
(* Proofs that the requests of Accounts get on, for any set of requests,   *)
(* e-mails, ids and legacy users: each has a bounded number of statements  *)
(* left, who waits waits for a request that runs, the sequence of ids does *)
(* not run out, a retry opens nothing, and finitely many requests are all  *)
(* answered.                                                               *)
(***************************************************************************)
EXTENDS AccountsProofs, FiniteSetTheorems

-----------------------------------------------------------------------------
(* What a request has left to do.                                          *)

AtWork(r) == pc[r] \notin {"idle", "done", "lost"}

\* How many steps a request has left, at most, by the statement it is at.
Left(r) ==
    IF pc[r] \in {"done", "lost"} THEN 0
    ELSE IF pc[r] \in {"ack", "getBalance", "getWallet"} THEN 1
    ELSE IF pc[r] \in {"commit", "getUser"} THEN 2
    ELSE IF pc[r] = "checkUser" THEN 3
    ELSE IF pc[r] = "insertWallet" THEN 4
    ELSE IF pc[r] \in {"insertUser", "existsWallet"} THEN 5
    ELSE IF pc[r] = "nextval" THEN 6
    ELSE IF pc[r] = "existsUser" THEN 7
    ELSE IF pc[r] = "begin" THEN 8
    ELSE 9

\* A request at work has from one to eight steps left.
LEMMA LeftType ==
    ASSUME IndInv, NEW r \in Requests
    PROVE  /\ Left(r) \in 0..9
           /\ AtWork(r) => Left(r) \in 1..8
           /\ Left(r) \in 1..8 => AtWork(r)
  <1>1. pc[r] \in Phases
    BY DEF IndInv, TypeOK
  <1> USE <1>1 DEF Left, AtWork, Phases, TxPhases, ReadPhases
  <1>2. Left(r) \in 0..9
    OBVIOUS
  <1>3. AtWork(r) => Left(r) \in 1..8
    OBVIOUS
  <1>4. Left(r) \in 1..8 => AtWork(r)
    OBVIOUS
  <1> QED BY <1>2, <1>3, <1>4

\* Whatever a request does, statement, error or panic, it has less left then.
LEMMA MovesOn ==
    ASSUME IndInv, NEW r \in Requests, Receive(r) \/ Step(r) \/ Fault(r)
    PROVE  /\ \A s \in Requests : s # r => pc'[s] = pc[s]
           /\ Left(r)' \in 0..(Left(r) - 1)
           /\ pc'[r] # "idle"
  <1>0. pc \in [Requests -> Phases]
    BY DEF IndInv, TypeOK
  <1> USE <1>0 DEF Goto, Answer, Left
  <1>1. CASE Receive(r)
    BY <1>1 DEF Receive, ReceiveCreateUser, ReceiveCreateWallet, ReceiveGetUser, ReceiveGetWallet
  <1>2. CASE Begin(r) \/ Commit(r) \/ Ack(r) \/ NextVal(r)
    BY <1>2 DEF Begin, Commit, Ack, NextVal
  <1>3. CASE ExistsByEmail(r) \/ InsertUser(r) \/ InsertUserRejected(r)
    BY <1>3 DEF ExistsByEmail, InsertUser, InsertUserRejected
  <1>4. CASE ExistsByUserID(r) \/ InsertWallet(r) \/ InsertWalletRejected(r) \/ CheckUser(r)
    BY <1>4 DEF ExistsByUserID, InsertWallet, InsertWalletRejected, CheckUser
  <1>5. CASE GetByID(r) \/ GetBalanceByUserID(r) \/ GetByUserID(r)
    BY <1>5 DEF GetByID, GetBalanceByUserID, GetByUserID
  <1>6. CASE TxFails(r) \/ AckLost(r) \/ ReadFails(r)
    BY <1>6 DEF TxFails, AckLost, ReadFails, TxPhases, ReadPhases
  <1> QED BY <1>1, <1>2, <1>3, <1>4, <1>5, <1>6 DEF Step, Fault

\* A crash ends everybody's work.
LEMMA CrashEndsWork ==
    ASSUME IndInv, Crash, NEW r \in Requests
    PROVE  /\ AtWork(r) => Left(r)' = 0
           /\ ~AtWork(r) => pc'[r] = pc[r]
  BY DEF Crash, AtWork, Left

\* A crash with nobody at work changes nothing: nothing is open then.
LEMMA IdleCrash ==
    ASSUME IndInv, Crash, \A r \in Requests : ~AtWork(r)
    PROVE  UNCHANGED vars
  <1>1. pc' = pc
    BY DEF Crash, AtWork, IndInv, TypeOK
  <1>2. \A x \in Xids : xact[x] # "active"
    BY DEF IndInv, PhasesAgree, AtWork, Xids, TxPhases
  <1>3. xact' = xact
    BY <1>2 DEF Crash, IndInv, TypeOK
  <1> QED BY <1>1, <1>3 DEF Crash, vars, db, args

\* No step of anybody sets a request back, and none is received twice.
LEMMA NobodyGoesBack ==
    ASSUME IndInv, [Next]_vars, NEW r \in Requests
    PROVE  Left(r)' \in 0..Left(r) /\ (pc[r] # "idle" => pc'[r] # "idle")
  <1>0. Left(r) \in 0..9
    BY LeftType
  <1>1. ASSUME pc'[r] = pc[r] PROVE Left(r)' \in 0..Left(r) /\ (pc[r] # "idle" => pc'[r] # "idle")
    <2>1. Left(r)' = Left(r)
      BY <1>1 DEF Left
    <2> QED BY <1>0, <1>1, <2>1
  <1>2. CASE Receive(r) \/ Step(r) \/ Fault(r)
    BY <1>0, <1>2, MovesOn
  <1>3. CASE \E s \in Requests \ {r} : Receive(s) \/ Step(s) \/ Fault(s)
    BY <1>1, <1>3, MovesOn
  <1>4. CASE Crash
    <2>1. CASE AtWork(r)
      BY <1>0, <1>4, <2>1, CrashEndsWork DEF Crash, AtWork
    <2> QED BY <1>1, <1>4, <2>1, CrashEndsWork
  <1>5. CASE UNCHANGED vars
    BY <1>1, <1>5 DEF vars
  <1> QED BY <1>2, <1>3, <1>4, <1>5 DEF Next

\* Somebody has less left to do, and nobody more.
WorkRunsDown ==
    /\ \A r \in Requests : Left(r)' <= Left(r)
    /\ \E r \in Requests : Left(r)' < Left(r)

\* Every step of the system takes it nearer to its end: no request starts over
\* or retries, so a finite number of requests, which have at most nine steps
\* each, is over after finitely many steps, whatever fails.
THEOREM WorkRunsOut == Spec => [][WorkRunsDown]_vars
  <1>1. IndInv /\ [Next]_vars => [WorkRunsDown]_vars
    <2> SUFFICES ASSUME IndInv, Next, ~UNCHANGED vars PROVE WorkRunsDown
      OBVIOUS
    <2>1. \A r \in Requests : Left(r) \in 0..9 /\ Left(r)' \in 0..Left(r)
      BY LeftType, NobodyGoesBack
    <2>2. \E r \in Requests : Left(r)' \in 0..(Left(r) - 1)
      <3>1. CASE Crash
        <4>1. PICK r \in Requests : AtWork(r)
          BY <3>1, IdleCrash
        <4> QED BY <3>1, <4>1, LeftType, CrashEndsWork
      <3> QED BY <3>1, MovesOn DEF Next
    <2> QED BY <2>1, <2>2 DEF WorkRunsDown
  <1> QED BY <1>1, Invariance, PTL DEF Spec

-----------------------------------------------------------------------------
(* Who waits, and for whom.                                                *)

\* r waits for nobody.
Free(r) == \A s \in Requests : ~WaitsFor(r, s)

\* A request that has written its last row waits for nobody.
Closing(r) == pc[r] \in {"checkUser", "commit"}

LEMMA ClosingIsFree == ASSUME NEW r \in Requests, Closing(r) PROVE Free(r)
  BY DEF Closing, Free, WaitsFor

\* A row that is in the way belongs to a request that is about to write its
\* wallet, or has written it; the row of a wallet to one that has.
LEMMA HoldersWork ==
    ASSUME IndInv, NEW r \in Requests, NEW s \in Requests, WaitsFor(r, s)
    PROVE  /\ s # r /\ AtWork(r) /\ Left(r) \in {4, 5}
           /\ pc[s] = "insertWallet" \/ Closing(s)
           /\ Left(s) \in 2..4
           /\ Left(r) = 4 \/ Left(s) < 4 => Closing(s)
  <1>1. xact[s] = "active" /\ s # Frozen
    BY DEF WaitsFor, SameEmail, SameUser, Running, IndInv, PhasesAgree
  <1>2. pc[s] \in TxPhases
    BY <1>1 DEF IndInv, PhasesAgree
  <1>3. /\ s # r /\ AtWork(r)
        /\ \/ pc[r] = "insertUser" /\ (pc[s] = "insertWallet" \/ Closing(s))
           \/ pc[r] = "insertWallet" /\ Closing(s)
    <2>1. CASE pc[r] = "insertUser" /\ \E u \in SameEmail(Running(users), r) : u.xmin = s
      BY <1>1, <1>2, <2>1 DEF SameEmail, Running, IndInv, RowsHaveAuthors, TxPhases, AtWork, Closing
    <2>2. CASE pc[r] = "insertWallet" /\ \E w \in SameUser(Running(wallets), r) : w.xmin = s
      BY <1>1, <1>2, <2>2 DEF SameUser, Running, IndInv, RowsHaveAuthors, TxPhases, AtWork, Closing
    <2> QED BY <2>1, <2>2 DEF WaitsFor
  <1> QED BY <1>3 DEF Left, Closing

\* Under the unique constraints one row at most is in the way.
LEMMA OneHolder ==
    ASSUME IndInv, NEW r \in Requests, NEW s \in Requests, NEW t \in Requests,
           WaitsFor(r, s), WaitsFor(r, t)
    PROVE  s = t
  BY DEF WaitsFor, SameEmail, SameUser, Running, Live, IndInv, ConstraintsHold

\* A request works on its own arguments and its own transaction.
LEMMA OthersAreLeftAlone ==
    ASSUME IndInv, NEW r \in Requests, NEW s \in Requests, s # r,
           Receive(s) \/ Step(s) \/ Fault(s)
    PROVE  /\ pc'[r] = pc[r] /\ email'[r] = email[r] /\ uid'[r] = uid[r]
           /\ \A x \in Xids \ {s} : xact'[x] = xact[x]
  <1>0. /\ email \in [Requests -> Emails \cup {NoEmail}] /\ uid \in [Requests -> Ids \cup {0}]
        /\ xact \in [Xids -> XactState]
    BY DEF IndInv, TypeOK
  <1>1. pc'[r] = pc[r]
    BY MovesOn
  <1> SUFFICES /\ email'[r] = email[r] /\ uid'[r] = uid[r]
               /\ \A x \in Xids \ {s} : xact'[x] = xact[x]
    BY <1>1
  <1> USE <1>0 DEF args, Rollback
  <1>2. CASE Receive(s)
    BY <1>2 DEF Receive, ReceiveCreateUser, ReceiveCreateWallet, ReceiveGetUser, ReceiveGetWallet
  <1>3. CASE Begin(s) \/ Commit(s) \/ Ack(s) \/ NextVal(s)
    BY <1>3 DEF Begin, Commit, Ack, NextVal
  <1>4. CASE ExistsByEmail(s) \/ InsertUser(s) \/ InsertUserRejected(s)
    BY <1>4 DEF ExistsByEmail, InsertUser, InsertUserRejected
  <1>5. CASE ExistsByUserID(s) \/ InsertWallet(s) \/ InsertWalletRejected(s) \/ CheckUser(s)
    BY <1>5 DEF ExistsByUserID, InsertWallet, InsertWalletRejected, CheckUser
  <1>6. CASE GetByID(s) \/ GetBalanceByUserID(s) \/ GetByUserID(s)
    BY <1>6 DEF GetByID, GetBalanceByUserID, GetByUserID
  <1>7. CASE TxFails(s) \/ AckLost(s) \/ ReadFails(s)
    BY <1>7 DEF TxFails, AckLost, ReadFails
  <1> QED BY <1>2, <1>3, <1>4, <1>5, <1>6, <1>7 DEF Step, Fault

\* The tables and the running transactions, by what a request does to them.
LEMMA TablesAndTransactions ==
    ASSUME IndInv, NEW s \in Requests, Receive(s) \/ Step(s) \/ Fault(s)
    PROVE  \/ UNCHANGED <<users, wallets, xact>>
           \/ UNCHANGED <<users, wallets>> /\ xact'[s] # "active"
           \/ UNCHANGED <<users, wallets>> /\ pc[s] = "begin"
           \/ InsertUser(s)
           \/ InsertWallet(s)
  <1>0. xact \in [Xids -> XactState] /\ s \in Xids
    BY DEF IndInv, TypeOK, Xids
  <1> USE <1>0 DEF db, Rollback
  <1>2. CASE Receive(s)
    BY <1>2 DEF Receive, ReceiveCreateUser, ReceiveCreateWallet, ReceiveGetUser, ReceiveGetWallet
  <1>3. CASE Begin(s) \/ Commit(s) \/ Ack(s) \/ NextVal(s)
    BY <1>3 DEF Begin, Commit, Ack, NextVal
  <1>4. CASE ExistsByEmail(s) \/ InsertUserRejected(s)
    BY <1>4 DEF ExistsByEmail, InsertUserRejected
  <1>5. CASE ExistsByUserID(s) \/ InsertWalletRejected(s) \/ CheckUser(s)
    BY <1>5 DEF ExistsByUserID, InsertWalletRejected, CheckUser
  <1>6. CASE GetByID(s) \/ GetBalanceByUserID(s) \/ GetByUserID(s)
    BY <1>6 DEF GetByID, GetBalanceByUserID, GetByUserID
  <1>7. CASE TxFails(s) \/ AckLost(s) \/ ReadFails(s)
    BY <1>7 DEF TxFails, AckLost, ReadFails
  <1> QED BY <1>2, <1>3, <1>4, <1>5, <1>6, <1>7 DEF Step, Fault

\* Who waits waits on, until the one transaction in its way ends or it fails.
LEMMA WaitGoesOn ==
    ASSUME IndInv, [Next]_vars, NEW r \in Requests, NEW s \in Requests, WaitsFor(r, s)
    PROVE  \/ Left(r)' \in 0..(Left(r) - 1)
           \/ Left(r)' = Left(r) /\ (WaitsFor(r, s)' \/ Free(r)')
  <1>0. Left(r) \in 1..8 /\ xact[s] = "active" /\ s # Frozen /\ s \in Xids
    <2>1. Left(r) \in 1..8
      BY HoldersWork, LeftType
    <2>2. xact[s] = "active"
      BY DEF WaitsFor, SameEmail, SameUser, Running
    <2> QED BY <2>1, <2>2, AccountsAssumption DEF Xids
  <1>1. CASE Receive(r) \/ Step(r) \/ Fault(r)
    BY <1>1, MovesOn
  <1>2. CASE UNCHANGED vars
    <2>1. Left(r)' = Left(r) /\ WaitsFor(r, s)'
      BY <1>2 DEF vars, Left, WaitsFor, SameEmail, SameUser, Running
    <2> QED BY <2>1
  <1>3. CASE Crash
    BY <1>0, <1>3, LeftType, CrashEndsWork
  <1>4. ASSUME NEW t \in Requests \ {r}, Receive(t) \/ Step(t) \/ Fault(t)
        PROVE  Left(r)' = Left(r) /\ (WaitsFor(r, s)' \/ Free(r)')
    <2>1. /\ pc'[r] = pc[r] /\ email'[r] = email[r] /\ uid'[r] = uid[r]
          /\ \A x \in Xids \ {t} : xact'[x] = xact[x]
      BY <1>4, OthersAreLeftAlone
    <2>2. Left(r)' = Left(r)
      BY <2>1 DEF Left
    <2>3. \/ users \subseteq users' /\ wallets \subseteq wallets' /\ xact' = xact
          \/ UNCHANGED <<users, wallets>> /\ xact'[t] # "active"
          \/ UNCHANGED <<users, wallets>> /\ pc[t] = "begin"
      BY <1>4, TablesAndTransactions DEF InsertUser, InsertWallet
    <2>4. CASE xact'[s] = "active"
      <3>1. users \subseteq users' /\ wallets \subseteq wallets'
        BY <2>3
      <3>2. WaitsFor(r, s)'
        BY <2>1, <2>4, <3>1 DEF WaitsFor, SameEmail, SameUser, Running
      <3> QED BY <2>2, <3>2
    <2>5. CASE xact'[s] # "active"
      <3>1. t = s /\ UNCHANGED <<users, wallets>>
        BY <1>0, <2>1, <2>3, <2>5 DEF IndInv, PhasesAgree
      <3>2. ASSUME NEW q \in Requests, WaitsFor(r, q)' PROVE FALSE
        <4>1. q # s
          BY <2>5, <3>2 DEF WaitsFor, SameEmail, SameUser, Running
        <4>2. xact'[q] = xact[q]
          BY <2>1, <3>1, <4>1 DEF Xids
        <4>3. WaitsFor(r, q)
          BY <2>1, <3>1, <3>2, <4>2 DEF WaitsFor, SameEmail, SameUser, Running
        <4> QED BY <4>1, <4>3, OneHolder
      <3> QED BY <2>2, <3>2 DEF Free
    <2> QED BY <2>4, <2>5
  <1> QED BY <1>1, <1>2, <1>3, <1>4 DEF Next

\* s takes what r is about to insert: the e-mail, or the wallet of the user.
Overtaken(r) ==
    \/ /\ pc[r] = "insertUser"
       /\ \E s \in Requests \ {r} : InsertUser(s) /\ email[s] = email[r]
    \/ /\ pc[r] = "insertWallet"
       /\ \E s \in Requests \ {r} : InsertWallet(s) /\ uid[s] = uid[r]

\* Who does not wait comes to wait by being overtaken only.
LEMMA FreeUnlessOvertaken ==
    ASSUME IndInv, [Next]_vars, NEW r \in Requests, AtWork(r), Free(r),
           ~Overtaken(r) \/ UNCHANGED vars
    PROVE  \/ Left(r)' \in 0..(Left(r) - 1)
           \/ Left(r)' = Left(r) /\ Free(r)'
  <1>0. Left(r) \in 1..8
    BY LeftType
  <1>1. CASE Receive(r) \/ Step(r) \/ Fault(r)
    BY <1>1, MovesOn
  <1>2. CASE UNCHANGED vars
    <2>1. Left(r)' = Left(r)
      BY <1>2 DEF vars, Left
    <2>2. \A q \in Requests : WaitsFor(r, q)' => WaitsFor(r, q)
      BY <1>2 DEF vars, WaitsFor, SameEmail, SameUser, Running
    <2> QED BY <2>1, <2>2 DEF Free
  <1>3. CASE Crash
    BY <1>0, <1>3, LeftType, CrashEndsWork
  <1>4. ASSUME NEW t \in Requests \ {r}, Receive(t) \/ Step(t) \/ Fault(t), ~Overtaken(r)
        PROVE  Left(r)' = Left(r) /\ Free(r)'
    <2>1. /\ pc'[r] = pc[r] /\ email'[r] = email[r] /\ uid'[r] = uid[r]
          /\ \A x \in Xids \ {t} : xact'[x] = xact[x]
      BY <1>4, OthersAreLeftAlone
    <2>2. Left(r)' = Left(r)
      BY <2>1 DEF Left
    <2>3. ASSUME NEW q \in Requests, WaitsFor(r, q)' PROVE FALSE
      <3>0. xact'[q] = "active" /\ q # Frozen /\ q \in Xids
        BY <2>3, AccountsAssumption DEF WaitsFor, SameEmail, SameUser, Running, Xids
      <3>1. CASE UNCHANGED <<users, wallets, xact>>
        <4>1. WaitsFor(r, q)
          BY <2>1, <2>3, <3>1 DEF WaitsFor, SameEmail, SameUser, Running
        <4> QED BY <4>1 DEF Free
      <3>2. CASE UNCHANGED <<users, wallets>> /\ xact'[t] # "active"
        <4>1. q # t /\ xact'[q] = xact[q]
          BY <2>1, <3>0, <3>2
        <4>2. WaitsFor(r, q)
          BY <2>1, <2>3, <3>2, <4>1 DEF WaitsFor, SameEmail, SameUser, Running
        <4> QED BY <4>2 DEF Free
      <3>3. CASE UNCHANGED <<users, wallets>> /\ pc[t] = "begin"
        <4>1. (\A u \in users : u.xmin # t) /\ (\A w \in wallets : w.xmin # t)
          BY <3>3, AccountsAssumption DEF IndInv, RowsHaveAuthors
        <4>2. q # t /\ xact'[q] = xact[q]
          BY <2>1, <2>3, <3>0, <3>3, <4>1 DEF WaitsFor, SameEmail, SameUser, Running
        <4>3. WaitsFor(r, q)
          BY <2>1, <2>3, <3>3, <4>2 DEF WaitsFor, SameEmail, SameUser, Running
        <4> QED BY <4>3 DEF Free
      <3>4. CASE InsertUser(t)
        <4>1. /\ xact' = xact /\ wallets' = wallets
              /\ users' = users \cup {[id |-> uid[t], email |-> email[t], xmin |-> Conn(t)]}
          BY <3>4 DEF InsertUser
        <4>2. pc[r] = "insertUser" => email[t] # email[r]
          BY <1>4, <3>4 DEF Overtaken
        <4>3. WaitsFor(r, q)
          BY <2>1, <2>3, <4>1, <4>2 DEF WaitsFor, SameEmail, SameUser, Running
        <4> QED BY <4>3 DEF Free
      <3>5. CASE InsertWallet(t)
        <4>1. /\ xact' = xact /\ users' = users
              /\ wallets' = wallets \cup {[user_id |-> uid[t], xmin |-> Conn(t)]}
          BY <3>5 DEF InsertWallet
        <4>2. pc[r] = "insertWallet" => uid[t] # uid[r]
          BY <1>4, <3>5 DEF Overtaken
        <4>3. WaitsFor(r, q)
          BY <2>1, <2>3, <4>1, <4>2 DEF WaitsFor, SameEmail, SameUser, Running
        <4> QED BY <4>3 DEF Free
      <3> QED BY <1>4, <3>1, <3>2, <3>3, <3>4, <3>5, TablesAndTransactions
    <2> QED BY <2>2, <2>3 DEF Free
  <1> QED BY <1>1, <1>2, <1>3, <1>4 DEF Next

\* Who waits, waits for one request.  If this one waits too, it is for a third
\* that waits for nobody, a CreateWallet on its way to being refused.
OneShortWait ==
    \A r, s \in Requests : WaitsFor(r, s) =>
        /\ \A t \in Requests : WaitsFor(r, t) => t = s
        /\ \A t \in Requests : WaitsFor(s, t) =>
             t # r /\ Free(t) /\ pc[t] = "checkUser" /\ ~ForeignKeyHolds(t)

\* Waits chain at most once, and never in a circle: every request waits for one
\* other at most, which can get on by itself or waits for one that can.
THEOREM WaitsAreShort == Spec => []OneShortWait
  <1>1. IndInv => OneShortWait
    <2> SUFFICES ASSUME IndInv, NEW r \in Requests, NEW s \in Requests, WaitsFor(r, s)
                 PROVE  /\ \A t \in Requests : WaitsFor(r, t) => t = s
                        /\ \A t \in Requests : WaitsFor(s, t) =>
                             t # r /\ Free(t) /\ pc[t] = "checkUser" /\ ~ForeignKeyHolds(t)
      BY DEF OneShortWait
    <2>1. \A t \in Requests : WaitsFor(s, t) => pc[t] = "checkUser" /\ ~ForeignKeyHolds(t)
      BY HoldersWait DEF HoldersWaitForDoomed
    <2>2. pc[r] # "checkUser"
      BY DEF WaitsFor
    <2> QED BY <2>1, <2>2, OneHolder, ClosingIsFree DEF Closing
  <1> QED BY <1>1, Invariance, PTL

-----------------------------------------------------------------------------
(* The sequence of ids.                                                    *)

\* The CreateUser requests that took an id.
Numbered == {r \in Requests : op[r] = "CreateUser" /\ uid[r] # 0}

\* The sequence has moved by one for each of them, and those who are not at
\* their INSERT yet have none.
IdsAreCounted ==
    /\ userSeq = Len(Legacy) + 1 + Cardinality(Numbered)
    /\ \A r \in Requests :
        op[r] = "CreateUser" /\ pc[r] \in {"begin", "existsUser", "nextval"} => uid[r] = 0

\* An id for each legacy user and one for each request.
EnoughIds ==
    /\ IsFiniteSet(Requests)
    /\ 1..(Len(Legacy) + Cardinality(Requests)) \subseteq Ids

\* They are finitely many, if the requests are.
LEMMA NumberedIsFinite ==
    ASSUME IsFiniteSet(Requests)
    PROVE  /\ IsFiniteSet(Numbered) /\ Cardinality(Numbered) \in Nat
           /\ Cardinality(Requests) \in Nat
  BY FS_Subset, FS_CardinalityType DEF Numbered

\* Nobody has a number at first, and the sequence follows the legacy users.
LEMMA InitCounts == Init => IdsAreCounted
  <1> SUFFICES ASSUME Init PROVE IdsAreCounted
    OBVIOUS
  <1>1. Numbered = {}
    BY DEF Init, Numbered
  <1>2. Cardinality(Numbered) = 0
    BY <1>1, FS_EmptySet
  <1> QED BY <1>2, LegacyLen DEF Init, IdsAreCounted

\* A request that receives its call has no number yet.
LEMMA ReceiveCounts ==
    ASSUME IndInv, IdsAreCounted, NEW s \in Requests, Receive(s)
    PROVE  IdsAreCounted'
  <1>0. /\ op \in [Requests -> CreateOps \cup ReadOps \cup {"none"}]
        /\ uid \in [Requests -> Ids \cup {0}] /\ pc \in [Requests -> Phases]
    BY DEF IndInv, TypeOK
  <1>1. pc[s] = "idle" /\ op[s] = "none" /\ uid[s] = 0
    BY DEF Receive, ReceiveCreateUser, ReceiveCreateWallet, ReceiveGetUser, ReceiveGetWallet,
       IndInv, PhasesAgree
  <1>2. /\ userSeq' = userSeq
        /\ \A r \in Requests \ {s} : op'[r] = op[r] /\ uid'[r] = uid[r] /\ pc'[r] = pc[r]
        /\ op'[s] = "CreateUser" => uid'[s] = 0
    BY <1>0, <1>1 DEF Receive, ReceiveCreateUser, ReceiveCreateWallet, ReceiveGetUser,
       ReceiveGetWallet, db, args, Goto
  <1>3. Numbered' = Numbered
    BY <1>1, <1>2 DEF Numbered
  <1> QED BY <1>2, <1>3 DEF IdsAreCounted

\* An INSERT takes one number and gives it to a request that has none.
LEMMA NextValCounts ==
    ASSUME IsFiniteSet(Requests), IndInv, IdsAreCounted, NEW s \in Requests, NextVal(s)
    PROVE  IdsAreCounted'
  <1>0. /\ uid \in [Requests -> Ids \cup {0}] /\ pc \in [Requests -> Phases] /\ userSeq \in Nat \ {0}
    BY DEF IndInv, TypeOK
  <1>1. op[s] = "CreateUser" /\ uid[s] = 0
    BY DEF NextVal, IndInv, PhasesAgree, IdsAreCounted
  <1>2. /\ userSeq' = userSeq + 1 /\ op' = op
        /\ \A r \in Requests \ {s} : uid'[r] = uid[r] /\ pc'[r] = pc[r]
        /\ uid'[s] # 0 /\ pc'[s] = "insertUser"
    BY <1>0 DEF NextVal, args, Goto
  <1>3. Numbered' = Numbered \cup {s} /\ s \notin Numbered
    BY <1>1, <1>2 DEF Numbered
  <1>4. Cardinality(Numbered') = Cardinality(Numbered) + 1
    BY <1>3, NumberedIsFinite, FS_AddElement
  <1>5. userSeq' = Len(Legacy) + 1 + Cardinality(Numbered')
    BY <1>2, <1>4, LegacyLen, NumberedIsFinite DEF IdsAreCounted
  <1> QED BY <1>2, <1>5 DEF IdsAreCounted

\* Nothing else gives or takes a number.
LEMMA OthersCount ==
    ASSUME IndInv, IdsAreCounted, NEW s \in Requests, Step(s) \/ Fault(s), ~NextVal(s)
    PROVE  IdsAreCounted'
  <1>0. pc \in [Requests -> Phases]
    BY DEF IndInv, TypeOK
  <1>1. /\ userSeq' = userSeq /\ op' = op /\ uid' = uid
        /\ \A r \in Requests \ {s} : pc'[r] = pc[r]
        /\ pc'[s] \in {"begin", "existsUser", "nextval"} => pc[s] \in {"begin", "existsUser"}
    <2> USE <1>0 DEF db, args, Goto, Answer
    <2>1. CASE Begin(s) \/ Commit(s) \/ Ack(s)
      BY <2>1 DEF Begin, Commit, Ack
    <2>2. CASE ExistsByEmail(s) \/ InsertUser(s) \/ InsertUserRejected(s)
      BY <2>2 DEF ExistsByEmail, InsertUser, InsertUserRejected
    <2>3. CASE ExistsByUserID(s) \/ InsertWallet(s) \/ InsertWalletRejected(s) \/ CheckUser(s)
      BY <2>3 DEF ExistsByUserID, InsertWallet, InsertWalletRejected, CheckUser
    <2>4. CASE GetByID(s) \/ GetBalanceByUserID(s) \/ GetByUserID(s)
      BY <2>4 DEF GetByID, GetBalanceByUserID, GetByUserID
    <2>5. CASE TxFails(s) \/ AckLost(s) \/ ReadFails(s)
      BY <2>5 DEF TxFails, AckLost, ReadFails
    <2> QED BY <2>1, <2>2, <2>3, <2>4, <2>5 DEF Step, Fault
  <1>2. Numbered' = Numbered
    BY <1>1 DEF Numbered
  <1> QED BY <1>1, <1>2 DEF IdsAreCounted

\* Nor does a crash.
LEMMA CrashCounts ==
    ASSUME IndInv, IdsAreCounted, Crash
    PROVE  IdsAreCounted'
  <1>1. /\ userSeq' = userSeq /\ op' = op /\ uid' = uid
        /\ \A r \in Requests : pc'[r] \notin {"begin", "existsUser", "nextval"}
    BY DEF Crash, db, args
  <1>2. Numbered' = Numbered
    BY <1>1 DEF Numbered
  <1> QED BY <1>1, <1>2 DEF IdsAreCounted

\* The sequence is at the number of CreateUser requests that took an id, however
\* their transactions end, for it takes none back.
THEOREM SequenceCounts == ASSUME IsFiniteSet(Requests) PROVE Spec => []IdsAreCounted
  <1>1. IndInv /\ IdsAreCounted /\ [Next]_vars => IdsAreCounted'
    <2> SUFFICES ASSUME IndInv, IdsAreCounted, [Next]_vars PROVE IdsAreCounted'
      OBVIOUS
    <2>1. CASE UNCHANGED vars
      <3>1. Numbered' = Numbered
        BY <2>1 DEF vars, Numbered
      <3> QED BY <2>1, <3>1 DEF vars, IdsAreCounted
    <2> QED BY <2>1, ReceiveCounts, NextValCounts, OthersCount, CrashCounts DEF Next
  <1> QED BY <1>1, InitCounts, Invariance, PTL DEF Spec

\* An INSERT never finds the ids used up, if there is one for each legacy user
\* and for each request: the bound the guard of NextVal puts on the BIGSERIAL
\* column holds nobody up.
IdsNeverRunOut == \A r \in Requests : pc[r] = "nextval" => userSeq \in Ids

\* With that many ids the guard of NextVal is true whenever a request gets to it.
THEOREM IdsSuffice == ASSUME EnoughIds PROVE Spec => []IdsNeverRunOut
  <1>1. IndInv /\ IdsAreCounted => IdsNeverRunOut
    <2> SUFFICES ASSUME IndInv, IdsAreCounted, NEW r \in Requests, pc[r] = "nextval"
                 PROVE  userSeq \in Ids
      BY DEF IdsNeverRunOut
    <2>1. IsFiniteSet(Requests) /\ Cardinality(Requests) \in Nat /\ Cardinality(Numbered) \in Nat
      BY NumberedIsFinite DEF EnoughIds
    <2>2. r \notin Numbered /\ Numbered \subseteq Requests
      BY DEF IndInv, PhasesAgree, IdsAreCounted, Numbered
    <2>3. Cardinality(Numbered) < Cardinality(Requests)
      BY <2>1, <2>2, FS_Subset
    <2>4. userSeq \in 1..(Len(Legacy) + Cardinality(Requests))
      BY <2>1, <2>3, LegacyLen DEF IdsAreCounted
    <2> QED BY <2>4 DEF EnoughIds
  <1>2. Spec => []IdsAreCounted
    BY SequenceCounts DEF EnoughIds
  <1> QED BY <1>1, <1>2, Invariance, PTL

\* A request that waits for nobody has its next statement's condition: either
\* it can insert, or the row that stops it is committed and it is refused.
OnlyWaitingStops ==
    \A r \in Requests : Free(r) =>
        /\ pc[r] = "nextval" => userSeq \in Ids
        /\ pc[r] = "insertUser" =>
             SameEmail(Live(users), r) = {} \/ SameEmail(Committed(users), r) # {}
        /\ pc[r] = "insertWallet" =>
             SameUser(Live(wallets), r) = {} \/ SameUser(Committed(wallets), r) # {}

\* Waiting for a transaction is the only thing that stops a request: what is
\* left of NobodyIsStuck once the waits are known to be short, without ENABLED.
THEOREM WaitingIsAll == ASSUME EnoughIds PROVE Spec => []OnlyWaitingStops
  <1>1. IndInv /\ IdsNeverRunOut => OnlyWaitingStops
    <2> SUFFICES ASSUME IndInv, IdsNeverRunOut, NEW r \in Requests, Free(r)
                 PROVE  /\ pc[r] = "nextval" => userSeq \in Ids
                        /\ pc[r] = "insertUser" =>
                             SameEmail(Live(users), r) = {} \/ SameEmail(Committed(users), r) # {}
                        /\ pc[r] = "insertWallet" =>
                             SameUser(Live(wallets), r) = {} \/ SameUser(Committed(wallets), r) # {}
      BY DEF OnlyWaitingStops
    <2>1. pc[r] = "nextval" => userSeq \in Ids
      BY DEF IdsNeverRunOut
    <2>2. ASSUME pc[r] = "insertUser", NEW u \in SameEmail(Live(users), r)
          PROVE  SameEmail(Committed(users), r) # {}
      <3>1. xact[u.xmin] = "active" => u.xmin \in Requests
        BY <2>2 DEF SameEmail, Live, IndInv, TypeOK, PhasesAgree, UserRow, Xids
      <3>2. xact[u.xmin] # "active"
        BY <2>2, <3>1 DEF Free, WaitsFor, SameEmail, Live, Running
      <3> QED BY <2>2, <3>2 DEF SameEmail, Live, Committed
    <2>3. ASSUME pc[r] = "insertWallet", NEW w \in SameUser(Live(wallets), r)
          PROVE  SameUser(Committed(wallets), r) # {}
      <3>1. xact[w.xmin] = "active" => w.xmin \in Requests
        BY <2>3 DEF SameUser, Live, IndInv, TypeOK, PhasesAgree, WalletRow, Xids
      <3>2. xact[w.xmin] # "active"
        BY <2>3, <3>1 DEF Free, WaitsFor, SameUser, Live, Running
      <3> QED BY <2>3, <3>2 DEF SameUser, Live, Committed
    <2> QED BY <2>1, <2>2, <2>3
  <1> QED BY <1>1, IdsSuffice, Invariance, PTL

-----------------------------------------------------------------------------
(* Retries.  A caller whose acknowledgement was lost does not know of its  *)
(* account, and sends a second request.                                    *)

Opened(r) == op[r] = "CreateUser" /\ xact[r] = "committed"

\* A request keeps what it was asked, and what it has committed.
LEMMA ArgumentsLast ==
    ASSUME IndInv, [Next]_vars, NEW r \in Requests, op[r] = "CreateUser"
    PROVE  /\ op'[r] = "CreateUser" /\ email'[r] = email[r]
           /\ xact[r] = "committed" => xact'[r] = "committed"
  <1>1. pc[r] # "idle" /\ r \in Xids
    BY DEF IndInv, PhasesAgree, Xids
  <1>2. xact \in [Xids -> XactState] /\ op \in [Requests -> {"none"} \cup CreateOps \cup ReadOps]
    BY DEF IndInv, TypeOK
  <1>3. CASE UNCHANGED vars \/ Crash
    BY <1>1, <1>2, <1>3 DEF vars, args, Crash
  <1>4. ASSUME NEW t \in Requests, Receive(t) PROVE UNCHANGED xact /\ pc[t] = "idle"
                                    /\ \A q \in Requests \ {t} : op'[q] = op[q] /\ email'[q] = email[q]
    BY <1>4, <1>2 DEF Receive, ReceiveCreateUser, ReceiveCreateWallet, ReceiveGetUser,
       ReceiveGetWallet, IndInv, TypeOK
  <1>5. ASSUME NEW t \in Requests, Step(t) \/ Fault(t)
        PROVE  /\ UNCHANGED args
               /\ \A x \in Xids : xact[x] = "committed" => xact'[x] = "committed"
    <2> USE <1>2 DEF Rollback
    <2>1. t \in Xids /\ (pc[t] \in TxPhases => xact[t] = "active")
      BY DEF Xids, IndInv, PhasesAgree
    <2>2. CASE Begin(t) \/ Commit(t) \/ Ack(t) \/ NextVal(t)
      <3>1. pc[t] = "begin" => xact[t] = "none"
        BY DEF IndInv, PhasesAgree
      <3> QED BY <2>1, <2>2, <3>1 DEF Begin, Commit, Ack, NextVal
    <2>3. CASE ExistsByEmail(t) \/ InsertUser(t) \/ InsertUserRejected(t)
      BY <2>3 DEF ExistsByEmail, InsertUser, InsertUserRejected
    <2>4. CASE ExistsByUserID(t) \/ InsertWallet(t) \/ InsertWalletRejected(t) \/ CheckUser(t)
      BY <2>4 DEF ExistsByUserID, InsertWallet, InsertWalletRejected, CheckUser
    <2>5. CASE GetByID(t) \/ GetBalanceByUserID(t) \/ GetByUserID(t)
      BY <2>5 DEF GetByID, GetBalanceByUserID, GetByUserID
    <2>6. CASE TxFails(t) \/ AckLost(t) \/ ReadFails(t)
      BY <2>6 DEF TxFails, AckLost, ReadFails
    <2> QED BY <1>5, <2>2, <2>3, <2>4, <2>5, <2>6 DEF Step, Fault
  <1> QED BY <1>1, <1>3, <1>4, <1>5 DEF Next, args

\* Only the check leads to the insertion.
LEMMA CheckedBefore ==
    ASSUME IndInv, [Next]_vars, NEW s \in Requests, pc'[s] = "nextval", pc[s] # "nextval"
    PROVE  ExistsByEmail(s)
  <1>0. pc \in [Requests -> Phases]
    BY DEF IndInv, TypeOK
  <1>1. CASE UNCHANGED vars \/ Crash
    BY <1>1 DEF vars, Crash
  <1>2. CASE \E r \in Requests \ {s} : Receive(r) \/ Step(r) \/ Fault(r)
    BY <1>2, MovesOn
  <1>3. CASE Receive(s) \/ Step(s) \/ Fault(s)
    BY <1>0, <1>3 DEF Receive, ReceiveCreateUser, ReceiveCreateWallet, ReceiveGetUser,
       ReceiveGetWallet, Step, Begin, NextVal, InsertUser, InsertUserRejected, ExistsByUserID,
       InsertWallet, InsertWalletRejected, CheckUser, Commit, Ack, GetByID, GetBalanceByUserID, GetByUserID,
       Fault, TxFails, AckLost, ReadFails, Goto, Answer
  <1> QED BY <1>1, <1>2, <1>3 DEF Next

\* Whatever became of the first request, a retry is stopped at the check.
THEOREM RetriesAreSafe == Spec => RetryIsStopped
  <1> DEFINE Stopped ==
                 \A r \in Requests : op[r] = "CreateUser" /\ xact[r] = "committed" =>
                     \A s \in Requests \ {r} : op[s] = "CreateUser" /\ email[s] = email[r] =>
                         /\ xact'[s] # "committed" /\ reply'[s] # "ok"
                         /\ pc'[s] = "nextval" => pc[s] = "nextval"
  <1>1. ASSUME IndInv, [Next]_vars PROVE Stopped
    <2> SUFFICES ASSUME NEW r \in Requests, Opened(r), NEW s \in Requests \ {r},
                        op[s] = "CreateUser", email[s] = email[r]
                 PROVE  /\ xact'[s] # "committed" /\ reply'[s] # "ok"
                        /\ pc'[s] = "nextval" => pc[s] = "nextval"
      BY DEF Opened
    <2>1. /\ op'[r] = "CreateUser" /\ xact'[r] = "committed" /\ op'[s] = "CreateUser"
          /\ email'[r] = email'[s]
      BY <1>1, ArgumentsLast DEF Opened
    <2>2. IndInv'
      BY <1>1, NextKeeps
    <2>3. xact'[s] # "committed"
      <3>1. xact'[s] = "committed" =>
                UserRowOf(r)' \in Live(users)' /\ UserRowOf(s)' \in Live(users)'
        BY <2>1, <2>2 DEF IndInv, WorkIsDone, Live, UserRowOf
      <3>2. UserRowOf(r)' # UserRowOf(s)' /\ UserRowOf(r)'.email = UserRowOf(s)'.email
        BY <2>1 DEF UserRowOf
      <3> QED BY <2>2, <3>1, <3>2 DEF IndInv, ConstraintsHold
    <2>4. reply'[s] # "ok"
      BY <2>1, <2>2, <2>3 DEF IndInv, PhasesAgree, CreateOps
    <2>5. ASSUME pc'[s] = "nextval", pc[s] # "nextval" PROVE FALSE
      <3>1. ExistsByEmail(s)
        BY <1>1, <2>5, CheckedBefore
      <3>2. UserRowOf(r) \in SameEmail(Seen(users, Conn(s)), s)
        BY <1>1 DEF IndInv, WorkIsDone, Opened, UserRowOf, SameEmail, Seen
      <3> QED BY <1>1, <2>5, <3>1, <3>2 DEF ExistsByEmail, Answer, Goto, IndInv, TypeOK
    <2> QED BY <2>3, <2>4, <2>5
  <1>2. IndInv /\ [Next]_vars => [Stopped]_vars
    BY <1>1
  <1> QED BY <1>2, Invariance, PTL DEF Spec, RetryIsStopped

-----------------------------------------------------------------------------
(* Liveness.  Fairness is stated for every moment ([]Fairness), which is   *)
(* the same: weak fairness of a step does not depend on where one starts.  *)

\* What is so at every moment of a behavior.
Ongoing == []IndInv /\ [][Next]_vars /\ []Fairness /\ []NobodyIsStuck

\* A wait for a request that waits for nobody ends.
CloserWaitOver(r, s) == WaitsFor(r, s) /\ Left(s) < 4 ~> ~WaitsFor(r, s)

LEMMA CloserEnds ==
    ASSUME NEW r \in Requests, NEW s \in Requests
    PROVE  Ongoing => CloserWaitOver(r, s)
  <1>1. IndInv /\ WaitsFor(r, s) => Left(s) \in 2..4
    BY HoldersWork
  <1>2. ASSUME NEW n \in 2..3
        PROVE  Ongoing => (WaitsFor(r, s) /\ Left(s) = n ~> ~WaitsFor(r, s) \/ Left(s) < n)
    <2>1. IndInv /\ Left(s) = n /\ [Next]_vars => (Left(s) = n)' \/ (Left(s) < n)'
      BY NobodyGoesBack
    <2>2. IndInv /\ Left(s) = n /\ <<Step(s)>>_vars => (Left(s) < n)'
      BY MovesOn
    <2>3. IndInv /\ NobodyIsStuck /\ WaitsFor(r, s) /\ Left(s) = n => CanRun(s)
      <3> SUFFICES ASSUME IndInv, NobodyIsStuck, WaitsFor(r, s), Left(s) = n PROVE CanRun(s)
        OBVIOUS
      <3>1. Closing(s)
        BY HoldersWork
      <3>2. pc[s] \notin {"idle", "done", "lost"} /\ \A t \in Requests : ~WaitsFor(s, t)
        BY <3>1, ClosingIsFree DEF Closing, Free
      <3> QED BY <3>2 DEF NobodyIsStuck
    <2>4. Fairness => RequestRuns(s)
      BY DEF Fairness
    <2> QED BY <2>1, <2>2, <2>3, <2>4, PTL DEF Ongoing, RequestRuns, CanRun
  <1> DEFINE G(n) == Ongoing => (WaitsFor(r, s) /\ Left(s) = n ~> ~WaitsFor(r, s) \/ Left(s) < n)
  <1>3. \A n \in 2..3 : G(n)
    BY <1>2
  <1>4. 2 \in 2..3 /\ 3 \in 2..3
    OBVIOUS
  <1> HIDE DEF G
  <1>5. G(2) /\ G(3)
    BY <1>3, <1>4
  <1>6. /\ IndInv /\ WaitsFor(r, s) /\ Left(s) < 4 => Left(s) = 3 \/ Left(s) = 2
        /\ IndInv /\ WaitsFor(r, s) /\ Left(s) < 3 => Left(s) = 2
        /\ IndInv /\ WaitsFor(r, s) => ~(Left(s) < 2)
    BY <1>1
  <1> QED BY <1>5, <1>6, PTL DEF G, Ongoing, CloserWaitOver

\* None of the waits of r, with n steps left, is for ever.
WaitOver(r, n, s) == Left(r) = n /\ WaitsFor(r, s) ~> ~(Left(r) = n /\ WaitsFor(r, s))
WaitsOver(r, n) == \A s \in Requests : WaitOver(r, n, s)

\* r is overtaken again and again, and nobody is.
OvertakenForever(r) == []<><<Overtaken(r)>>_vars
NobodyOvertakenForever == \A r \in Requests : ~OvertakenForever(r)

\* Whoever it waits for, a request waits no more one day, or it failed.
LEMMA WaitEnds ==
    ASSUME NEW r \in Requests, NEW n \in 1..8
    PROVE  Ongoing /\ []WaitsOver(r, n) =>
               (Left(r) = n /\ ~Free(r) ~> (Left(r) = n /\ Free(r)) \/ Left(r) < n)
  <1> DEFINE Over == <>((Left(r) = n /\ Free(r)) \/ Left(r) < n)
  <1> DEFINE Waits(s) == Left(r) = n /\ WaitsFor(r, s)
  <1>1. ASSUME NEW s \in Requests
        PROVE  Ongoing /\ WaitOver(r, n, s) => (Waits(s) => Over)
    <2>1. IndInv /\ Left(r) = n /\ WaitsFor(r, s) /\ [Next]_vars =>
              \/ (Left(r) = n /\ WaitsFor(r, s))'
              \/ (Left(r) = n /\ Free(r))'
              \/ (Left(r) < n)'
      BY WaitGoesOn
    <2> QED BY <2>1, PTL DEF Ongoing, WaitOver
  <1>2. Left(r) = n /\ ~Free(r) => \E s \in Requests : Waits(s)
    BY DEF Free
  <1> HIDE DEF Over, Waits
  <1>3. Ongoing /\ WaitsOver(r, n) => ((\E s \in Requests : Waits(s)) => Over)
    BY <1>1 DEF WaitsOver
  <1> QED BY <1>2, <1>3, PTL DEF Ongoing, Over

\* A request whose waits end, and that is not overtaken again and again, takes
\* its next step.
StepsOn(r, n) == Left(r) = n ~> Left(r) < n
StepsOnAfterWaits(r, n) ==
    Ongoing /\ []WaitsOver(r, n) /\ ~OvertakenForever(r) => StepsOn(r, n)

LEMMA GetsOnAfterWaits ==
    ASSUME NEW r \in Requests, NEW n \in 1..8
    PROVE  StepsOnAfterWaits(r, n)
  <1>1. IndInv /\ Left(r) = n => AtWork(r)
    BY LeftType
  <1>2. IndInv /\ Left(r) = n /\ Free(r) /\ [Next]_vars /\ [~Overtaken(r)]_vars =>
            (Left(r) = n /\ Free(r))' \/ (Left(r) < n)'
    BY <1>1, FreeUnlessOvertaken
  <1>3. IndInv /\ Left(r) = n /\ <<Step(r)>>_vars => (Left(r) < n)'
    BY MovesOn
  <1>4. IndInv /\ NobodyIsStuck /\ Left(r) = n /\ Free(r) => CanRun(r)
    BY <1>1 DEF NobodyIsStuck, AtWork, Free
  <1>5. Fairness => RequestRuns(r)
    BY DEF Fairness
  <1>6. IndInv /\ Left(r) = n /\ [Next]_vars => (Left(r) = n)' \/ (Left(r) < n)'
    BY NobodyGoesBack
  <1>7. Ongoing /\ []WaitsOver(r, n) =>
            (Left(r) = n /\ ~Free(r) ~> (Left(r) = n /\ Free(r)) \/ Left(r) < n)
    BY WaitEnds
  <1> QED BY <1>2, <1>3, <1>4, <1>5, <1>6, <1>7, PTL
      DEF Ongoing, OvertakenForever, RequestRuns, CanRun, StepsOnAfterWaits, StepsOn

\* Who holds a row and is to write its wallet gets to do so.
LEMMA HolderGetsOn ==
    ASSUME NEW s \in Requests
    PROVE  Ongoing /\ ~OvertakenForever(s) => StepsOn(s, 4)
  <1>1. ASSUME NEW t \in Requests PROVE Ongoing => WaitOver(s, 4, t)
    <2>1. IndInv /\ Left(s) = 4 /\ WaitsFor(s, t) => Left(t) < 4
      BY HoldersWork DEF Closing, Left
    <2>2. Ongoing => CloserWaitOver(s, t)
      BY CloserEnds
    <2> QED BY <2>1, <2>2, PTL DEF Ongoing, WaitOver, CloserWaitOver
  <1>2. Ongoing => WaitsOver(s, 4)
    BY <1>1 DEF WaitsOver
  <1>3. 4 \in 1..8
    OBVIOUS
  <1>4. StepsOnAfterWaits(s, 4)
    BY <1>3, GetsOnAfterWaits
  <1> QED BY <1>2, <1>4, PTL DEF Ongoing, StepsOnAfterWaits

\* Who waits for s waits no more once s has ended its transaction.
LEMMA HolderEnds ==
    ASSUME NEW r \in Requests, NEW s \in Requests
    PROVE  Ongoing /\ ~OvertakenForever(s) => (WaitsFor(r, s) ~> ~WaitsFor(r, s))
  <1>1. IndInv /\ WaitsFor(r, s) => Left(s) = 4 \/ Left(s) < 4
    BY HoldersWork
  <1>2. IndInv /\ Left(s) < 4 /\ [Next]_vars => (Left(s) < 4)'
    BY NobodyGoesBack, LeftType
  <1>3. Ongoing /\ ~OvertakenForever(s) => StepsOn(s, 4)
    BY HolderGetsOn
  <1>4. Ongoing => CloserWaitOver(r, s)
    BY CloserEnds
  <1> QED BY <1>1, <1>2, <1>3, <1>4, PTL DEF Ongoing, OvertakenForever, StepsOn, CloserWaitOver

\* A request takes its next step, if nobody is overtaken again and again.
LEMMA GetsOn ==
    ASSUME NEW r \in Requests, NEW n \in 1..8
    PROVE  Ongoing /\ []NobodyOvertakenForever => StepsOn(r, n)
  <1>1. ASSUME NEW s \in Requests PROVE Ongoing /\ ~OvertakenForever(s) => WaitOver(r, n, s)
    <2>1. Ongoing /\ ~OvertakenForever(s) => (WaitsFor(r, s) ~> ~WaitsFor(r, s))
      BY HolderEnds
    <2> QED BY <2>1, PTL DEF WaitOver
  <1>2. Ongoing /\ NobodyOvertakenForever => WaitsOver(r, n)
    <2> HIDE DEF Ongoing, OvertakenForever, WaitOver
    <2> QED BY <1>1 DEF NobodyOvertakenForever, WaitsOver
  <1>3. NobodyOvertakenForever => ~OvertakenForever(r)
    <2> HIDE DEF OvertakenForever
    <2> QED BY DEF NobodyOvertakenForever
  <1>4. StepsOnAfterWaits(r, n)
    BY GetsOnAfterWaits
  <1> QED BY <1>2, <1>3, <1>4, PTL DEF Ongoing, StepsOnAfterWaits

\* Every request that was received is answered, or dies with the process, unless
\* others insert what it is about to insert for ever: the transaction in its
\* way ends, since the request that runs it gets on, and then it is its own turn.
THEOREM AnsweredUnlessOvertaken ==
    Spec /\ []Fairness /\ []NobodyIsStuck /\ []NobodyOvertakenForever => Answered
  <1> SUFFICES ASSUME NEW r \in Requests
               PROVE  Spec /\ []Fairness /\ []NobodyIsStuck /\ []NobodyOvertakenForever =>
                          (pc[r] # "idle" ~> pc[r] \in {"done", "lost"})
    BY DEF Answered
  <1> DEFINE G(n) == Ongoing /\ []NobodyOvertakenForever => StepsOn(r, n)
  <1>1. \A n \in 1..8 : G(n)
    BY GetsOn
  <1>2. /\ 1 \in 1..8 /\ 2 \in 1..8 /\ 3 \in 1..8 /\ 4 \in 1..8 /\ 5 \in 1..8 /\ 6 \in 1..8 /\ 7 \in 1..8
        /\ 8 \in 1..8
    OBVIOUS
  <1> HIDE DEF G
  <1>3. G(1) /\ G(2) /\ G(3) /\ G(4) /\ G(5) /\ G(6) /\ G(7) /\ G(8)
    BY <1>1, <1>2
  <1> DEFINE Over == pc[r] \in {"done", "lost"}
             L(n) == Left(r) = n
  <1>4. IndInv /\ pc[r] # "idle" => L(8) \/ Left(r) < 8
    <2> SUFFICES ASSUME IndInv, pc[r] # "idle" PROVE L(8) \/ Left(r) < 8
      OBVIOUS
    <2>1. CASE AtWork(r)
      BY <2>1, LeftType
    <2>2. CASE ~AtWork(r)
      BY <2>2 DEF AtWork, Left
    <2> QED BY <2>1, <2>2
  <1>5. IndInv /\ pc[r] # "idle" =>
            /\ Left(r) < 8 => L(7) \/ Left(r) < 7
            /\ Left(r) < 7 => L(6) \/ Left(r) < 6
            /\ Left(r) < 6 => L(5) \/ Left(r) < 5
            /\ Left(r) < 5 => L(4) \/ Left(r) < 4
            /\ Left(r) < 4 => L(3) \/ Left(r) < 3
            /\ Left(r) < 3 => L(2) \/ Left(r) < 2
            /\ Left(r) < 2 => L(1) \/ Left(r) < 1
            /\ Left(r) < 1 => Over
    BY LeftType DEF AtWork
  <1>6. IndInv /\ pc[r] # "idle" /\ [Next]_vars => (pc[r] # "idle")'
    BY NobodyGoesBack
  <1> QED BY <1>3, <1>4, <1>5, <1>6, Invariance, PTL DEF G, Ongoing, StepsOn, Spec

\* The steps that are left, one by one, and how many they are.
Work == {w \in Requests \X (1..9) : w[2] <= Left(w[1])}
Size == Cardinality(Work)

\* Finitely many requests have finitely many steps left.
LEMMA SizeType ==
    ASSUME IsFiniteSet(Requests)
    PROVE  IsFiniteSet(Work) /\ Size \in Nat
  <1>0. 1 \in Int /\ 9 \in Int
    OBVIOUS
  <1>1. IsFiniteSet(1..9)
    BY <1>0, FS_Interval
  <1>2. IsFiniteSet(Requests \X (1..9))
    BY <1>1, FS_Product
  <1>3. Work \in SUBSET (Requests \X (1..9))
    BY DEF Work
  <1>4. IsFiniteSet(Work)
    BY <1>2, <1>3, FS_Subset
  <1> QED BY <1>4, FS_CardinalityType DEF Size

\* Whoever has less to do, all together have.
LEMMA SizeFalls ==
    ASSUME IsFiniteSet(Requests), IndInv, [Next]_vars, ~UNCHANGED vars,
           [WorkRunsDown]_vars
    PROVE  Size' \in 0..(Size - 1)
  <1>1. \A r \in Requests : Left(r) \in 0..9 /\ Left(r)' \in 0..Left(r)
    BY LeftType, NobodyGoesBack
  <1>2. PICK r \in Requests : Left(r)' < Left(r)
    BY DEF WorkRunsDown
  <1>3. Work' \subseteq Work
    <2> SUFFICES ASSUME NEW w \in Work' PROVE w \in Work
      OBVIOUS
    <2>1. w \in Requests \X (1..9) /\ w[2] <= Left(w[1])'
      BY DEF Work
    <2>2. w[1] \in Requests /\ w[2] \in 1..9
      BY <2>1
    <2>3. w[2] <= Left(w[1])
      BY <1>1, <2>1, <2>2
    <2> QED BY <2>1, <2>3 DEF Work
  <1>4. <<r, Left(r)>> \in Work /\ <<r, Left(r)>> \notin Work'
    BY <1>1, <1>2 DEF Work
  <1>5. Work' # Work
    BY <1>4
  <1>6. IsFiniteSet(Work) /\ Size \in Nat /\ Work' \in SUBSET Work
    BY <1>3, SizeType
  <1>7. IsFiniteSet(Work') /\ Cardinality(Work') <= Cardinality(Work)
        /\ (Cardinality(Work) = Cardinality(Work') => Work = Work')
    BY <1>6, FS_Subset
  <1>8. Cardinality(Work') \in Nat
    BY <1>7, FS_CardinalityType
  <1> QED BY <1>5, <1>6, <1>7, <1>8 DEF Size

\* A rule of temporal logic, for the steps that are left: a natural number that
\* no step raises falls finitely often.
SizeSettles == [](Size \in Nat) /\ [][Size' <= Size]_vars => <>[][Size' = Size]_vars

\* Finitely many requests are all answered, or die with the process.  Each waits
\* for one transaction at a time, which ends, and since every step of anybody
\* uses up one of the steps that are left, nobody can be overtaken for ever.
THEOREM RequestsAreAnswered ==
    ASSUME IsFiniteSet(Requests)
    PROVE  Spec /\ []Fairness /\ []NobodyIsStuck /\ SizeSettles => Answered
  <1>1. Size \in Nat
    BY SizeType
  <1>2. IndInv /\ [Next]_vars /\ [WorkRunsDown]_vars => [Size' <= Size]_vars
    BY <1>1, SizeFalls
  <1> DEFINE Settling == /\ []IndInv /\ [][Next]_vars /\ [][WorkRunsDown]_vars
                         /\ <>[][Size' = Size]_vars
  <1>3. ASSUME NEW r \in Requests
        PROVE  Settling => ~OvertakenForever(r)
    <2>1. IndInv /\ [Next]_vars /\ [WorkRunsDown]_vars /\ [Size' = Size]_vars => [~Overtaken(r)]_vars
      BY <1>1, SizeFalls
    <2> QED BY <2>1, PTL DEF OvertakenForever
  <1>4. Settling => NobodyOvertakenForever
    <2> HIDE DEF Settling
    <2> QED BY <1>3 DEF NobodyOvertakenForever
  <1>5. Spec /\ SizeSettles => Settling
    BY <1>1, <1>2, Invariance, WorkRunsOut, PTL DEF Spec, SizeSettles
  <1>6. Settling => []NobodyOvertakenForever
    BY <1>4, PTL
  <1> QED BY <1>5, <1>6, AnsweredUnlessOvertaken

=============================================================================
