--------------------------- MODULE AccountsProofs ---------------------------
(***************************************************************************)
(* Proofs about Accounts, for any set of requests, e-mails, ids and legacy *)
(* users: IndInv is an inductive invariant, the safety properties follow   *)
(* from it, and every step of the code is a step of Registry or changes    *)
(* nothing the registry shows.                                             *)
(***************************************************************************)
EXTENDS Accounts, TLAPS

-----------------------------------------------------------------------------
(* What the assumption on the constants says, in the form the provers use. *)

\* There are finitely many legacy users.
LEMMA LegacyLen == Len(Legacy) \in Nat
  BY AccountsAssumption

\* Ids are natural numbers, and so is the 0 of a request without one.
LEMMA IdsAreNumbers == \A i \in Ids \cup {0} : i \in Nat
  BY AccountsAssumption

-----------------------------------------------------------------------------
(* What the inductive invariant implies.                                   *)

\* Live rows have different e-mails, so committed rows have.
LEMMA EmailsDiffer == IndInv => OneUserPerEmail
  BY DEF IndInv, ConstraintsHold, OneUserPerEmail, Committed, Live

\* The owner of a committed row has written all of its rows.
LEMMA CompleteAccounts == IndInv => UserHasWallet
  <1> SUFFICES ASSUME IndInv, NEW u \in Committed(users)
       PROVE /\ \A w, x \in Committed(wallets) : w.user_id = u.id /\ x.user_id = u.id => w = x
             /\ u.id \notin LegacyIds => \E w \in Committed(wallets) : w.user_id = u.id
    BY DEF UserHasWallet
  <1>1. \A w, x \in Committed(wallets) : w.user_id = u.id /\ x.user_id = u.id => w = x
    BY DEF IndInv, ConstraintsHold, Committed, Live
  <1>2. ASSUME u.id \notin LegacyIds PROVE \E w \in Committed(wallets) : w.user_id = u.id
    <2>1. u.xmin \in Requests /\ xact[u.xmin] = "committed" /\ u.id = uid[u.xmin]
      BY <1>2 DEF IndInv, RowsHaveAuthors, UserRowOf, Committed, TypeOK, UserRow, Xids
    <2>2. WalletRowOf(u.xmin) \in Committed(wallets)
      BY <2>1 DEF IndInv, WorkIsDone, WalletRowOf, Committed
    <2> QED BY <2>1, <2>2 DEF WalletRowOf
  <1> QED BY <1>1, <1>2

\* The user of a committed wallet is committed: its INSERT has ended.
LEMMA OwnersExist == IndInv => WalletHasUser
  <1> SUFFICES ASSUME IndInv, NEW w \in Committed(wallets)
               PROVE  \E u \in Committed(users) : u.id = w.user_id
    BY DEF WalletHasUser
  <1>1. w \in wallets /\ xact[w.xmin] = "committed" /\ w \in Live(wallets)
    BY DEF Committed, Live
  <1>2. w.xmin \in Requests
    BY <1>1 DEF IndInv, RowsHaveAuthors, TypeOK, WalletRow, Xids
  <1>3. pc[w.xmin] # "checkUser"
    BY <1>1, <1>2 DEF IndInv, PhasesAgree, TxPhases
  <1> QED BY <1>1, <1>3 DEF IndInv, ConstraintsHold, Committed

\* Who was told "ok" has committed, with all of its rows written.
LEMMA AckedIsThere == IndInv => AckedIsDurable
  <1> SUFFICES ASSUME IndInv, NEW r \in Requests, reply[r] = "ok", op[r] \in CreateOps
               PROVE /\ \E w \in Committed(wallets) : w.user_id = uid[r]
                     /\ op[r] = "CreateUser" =>
                          \E u \in Committed(users) : u.id = uid[r] /\ u.email = email[r]
    BY DEF AckedIsDurable
  <1>1. xact[r] = "committed"
    BY DEF IndInv, PhasesAgree
  <1>2. WalletRowOf(r) \in Committed(wallets)
    BY <1>1 DEF IndInv, WorkIsDone, Committed, WalletRowOf
  <1>3. op[r] = "CreateUser" => UserRowOf(r) \in Committed(users)
    BY <1>1 DEF IndInv, WorkIsDone, Committed, UserRowOf
  <1> QED BY <1>2, <1>3 DEF WalletRowOf, UserRowOf

\* A CreateWallet that got to its commit is for a legacy user.
LEMMA OpenedForLegacy == IndInv => WalletsOpenedForLegacyOnly
  BY DEF IndInv, WorkIsDone, WalletsOpenedForLegacyOnly

\* A transaction that holds a row and waits is a CreateUser waiting for its own
\* user's wallet.  Nobody else sees that user, so whoever holds the wallet is a
\* CreateWallet, and its INSERT has not ended.
LEMMA HoldersWait == IndInv => HoldersWaitForDoomed
  <1> SUFFICES ASSUME IndInv, NEW r \in Requests, NEW s \in Requests, NEW t \in Requests,
                      WaitsFor(r, s), WaitsFor(s, t)
               PROVE  op[t] = "CreateWallet" /\ pc[t] = "checkUser" /\ ~ForeignKeyHolds(t)
    BY DEF HoldersWaitForDoomed
  <1>1. (\E u \in users : u.xmin = s) \/ (\E w \in wallets : w.xmin = s)
    BY DEF WaitsFor, SameEmail, SameUser, Running
  <1>2. pc[s] = "insertWallet" /\ op[s] = "CreateUser"
    BY <1>1, AccountsAssumption DEF IndInv, RowsHaveAuthors, WaitsFor
  <1>3. PICK w \in wallets : w.user_id = uid[s] /\ w.xmin = t /\ xact[t] = "active"
    BY <1>2 DEF WaitsFor, SameUser, Running
  <1>4. op[t] \in CreateOps /\ uid[t] = uid[s] /\ pc[t] \in {"checkUser", "commit"} /\ t # s
    BY <1>2, <1>3, AccountsAssumption
        DEF IndInv, RowsHaveAuthors, WalletRowOf, PhasesAgree, TxPhases
  <1>5. UserRowOf(s) \in users /\ xact[s] = "active"
    BY <1>2 DEF IndInv, WorkIsDone, PhasesAgree, TxPhases
  <1>6. uid[s] # 0 /\ uid[s] \notin LegacyIds
    BY <1>2, <1>5, AccountsAssumption
        DEF IndInv, IdsAreFresh, TypeOK, UserRow, UserRowOf, LegacyIds
  <1>7. op[t] = "CreateWallet"
    BY <1>2, <1>4, <1>6 DEF IndInv, IdsAreFresh, CreateOps
  <1>8. pc[t] = "checkUser"
    BY <1>4, <1>6, <1>7 DEF IndInv, WorkIsDone
  <1>9. ASSUME NEW u \in users, u.id = uid[s] PROVE u.xmin = s
    BY <1>2, <1>6, <1>9
        DEF IndInv, RowsHaveAuthors, IdsAreFresh, UserRowOf, TypeOK, UserRow, Xids
  <1>10. ~ForeignKeyHolds(t)
    BY <1>3, <1>4, <1>5, <1>9, AccountsAssumption DEF ForeignKeyHolds, Seen, Conn
  <1> QED BY <1>7, <1>8, <1>10

-----------------------------------------------------------------------------
(* The invariant holds initially and is kept by every action.              *)

\* The legacy users are the only rows, and no request has started.
LEMMA InitEstablishes == Init => IndInv
  <1> SUFFICES ASSUME Init PROVE IndInv
    OBVIOUS
  <1> USE AccountsAssumption DEF Init
  <1>1. TypeOK
    <2>1. \A i \in 1..Len(Legacy) : i \in Ids /\ Legacy[i] \in Emails
      OBVIOUS
    <2> QED BY <2>1 DEF TypeOK, UserRow, Xids, XactState, Phases
  <1>2. PhasesAgree
    BY DEF PhasesAgree, Xids, TxPhases, ReadPhases
  <1>3. IdsAreFresh
    BY DEF IdsAreFresh
  <1>4. RowsHaveAuthors
    BY DEF RowsHaveAuthors, LegacyIds
  <1>5. WorkIsDone
    BY DEF WorkIsDone, Xids
  <1>6. ConstraintsHold
    BY DEF ConstraintsHold, Live
  <1>7. SightsLast
    BY DEF SightsLast, ConflictIsReal, ReadsCompleteAccounts
  <1> QED BY <1>1, <1>2, <1>3, <1>4, <1>5, <1>6, <1>7 DEF IndInv

\* What a request does without writing keeps the constraints, unless it ends
\* the INSERT of a wallet.
LEMMA ReadsKeepConstraints ==
    ASSUME IndInv, UNCHANGED <<users, wallets>>,
           \A x \in Xids : /\ xact'[x] \in {"active", "committed"} => xact[x] \in {"active", "committed"}
                           /\ xact[x] = "committed" => xact'[x] = "committed",
           \A q \in Requests : pc[q] = "checkUser" /\ xact'[q] \in {"active", "committed"}
                                  => pc'[q] = "checkUser"
    PROVE  ConstraintsHold'
  <1>1. /\ \A u \in users : u.xmin \in Xids
        /\ \A w \in wallets : w.xmin \in Xids /\ w.xmin \in Requests
    BY DEF IndInv, RowsHaveAuthors, TypeOK, UserRow, WalletRow, Xids
  <1>2. Live(users)' \subseteq Live(users) /\ Live(wallets)' \subseteq Live(wallets)
    BY <1>1 DEF Live
  <1>3. ASSUME NEW w \in Live(wallets)', pc'[w.xmin] # "checkUser"
        PROVE  \E u \in users' : u.id = w.user_id /\ (xact'[u.xmin] = "committed" \/ u.xmin = w.xmin)
    <2>1. w \in Live(wallets) /\ pc[w.xmin] # "checkUser"
      BY <1>1, <1>2, <1>3 DEF Live
    <2> QED BY <1>1, <2>1 DEF IndInv, ConstraintsHold
  <1> QED BY <1>2, <1>3 DEF IndInv, ConstraintsHold

\* A request that arrives has written nothing and been told nothing.
LEMMA ReceiveCreateUserKeeps ==
    ASSUME IndInv, NEW r \in Requests, NEW e \in Emails, ReceiveCreateUser(r, e)
    PROVE  IndInv'
  <1> USE AccountsAssumption DEF IndInv, ReceiveCreateUser, Goto, db
  <1>1. TypeOK'
    BY DEF TypeOK, Phases
  <1>2. PhasesAgree'
    BY DEF PhasesAgree, TypeOK, TxPhases, ReadPhases, CreateOps
  <1>3. IdsAreFresh'
    BY DEF IdsAreFresh, PhasesAgree
  <1>4. RowsHaveAuthors'
    BY DEF RowsHaveAuthors, UserRowOf, WalletRowOf
  <1>5. WorkIsDone'
    BY DEF WorkIsDone, PhasesAgree, UserRowOf, WalletRowOf
  <1>6. ConstraintsHold'
    BY DEF ConstraintsHold, Live
  <1>7. SightsLast'
    BY DEF SightsLast, ConflictIsReal, ReadsCompleteAccounts, PhasesAgree, Committed,
        SameEmail, SameUser, ReadPhases
  <1> QED BY <1>1, <1>2, <1>3, <1>4, <1>5, <1>6, <1>7

\* The same for a CreateWallet, whose argument is a user id.
LEMMA ReceiveCreateWalletKeeps ==
    ASSUME IndInv, NEW r \in Requests, NEW i \in Ids, ReceiveCreateWallet(r, i)
    PROVE  IndInv'
  <1> USE AccountsAssumption DEF IndInv, ReceiveCreateWallet, Goto, db
  <1>1. TypeOK'
    BY DEF TypeOK, Phases
  <1>2. PhasesAgree'
    BY DEF PhasesAgree, TypeOK, TxPhases, ReadPhases, CreateOps
  <1>3. IdsAreFresh'
    BY DEF IdsAreFresh, PhasesAgree
  <1>4. RowsHaveAuthors'
    BY DEF RowsHaveAuthors, UserRowOf, WalletRowOf
  <1>5. WorkIsDone'
    BY DEF WorkIsDone, PhasesAgree, UserRowOf, WalletRowOf
  <1>6. ConstraintsHold'
    BY DEF ConstraintsHold, Live
  <1>7. SightsLast'
    BY DEF SightsLast, ConflictIsReal, ReadsCompleteAccounts, PhasesAgree, Committed,
        SameEmail, SameUser, ReadPhases
  <1> QED BY <1>1, <1>2, <1>3, <1>4, <1>5, <1>6, <1>7

\* The same for a GetUser.
LEMMA ReceiveGetUserKeeps ==
    ASSUME IndInv, NEW r \in Requests, NEW i \in Ids, ReceiveGetUser(r, i)
    PROVE  IndInv'
  <1> USE AccountsAssumption DEF IndInv, ReceiveGetUser, Goto, db
  <1>1. TypeOK'
    BY DEF TypeOK, Phases, ReadPhases
  <1>2. PhasesAgree'
    BY DEF PhasesAgree, TypeOK, TxPhases, CreateOps
  <1>3. IdsAreFresh'
    BY DEF IdsAreFresh, PhasesAgree
  <1>4. RowsHaveAuthors'
    BY DEF RowsHaveAuthors, UserRowOf, WalletRowOf
  <1>5. WorkIsDone'
    BY DEF WorkIsDone, PhasesAgree, UserRowOf, WalletRowOf
  <1>6. ConstraintsHold'
    BY DEF ConstraintsHold, Live
  <1>7. SightsLast'
    BY DEF SightsLast, ConflictIsReal, ReadsCompleteAccounts, PhasesAgree, Committed,
        SameEmail, SameUser, Xids, ReadPhases
  <1> QED BY <1>1, <1>2, <1>3, <1>4, <1>5, <1>6, <1>7

\* The same for a GetWallet.
LEMMA ReceiveGetWalletKeeps ==
    ASSUME IndInv, NEW r \in Requests, NEW i \in Ids, ReceiveGetWallet(r, i)
    PROVE  IndInv'
  <1> USE AccountsAssumption DEF IndInv, ReceiveGetWallet, Goto, db
  <1>1. TypeOK'
    BY DEF TypeOK, Phases, ReadPhases
  <1>2. PhasesAgree'
    BY DEF PhasesAgree, TypeOK, TxPhases, CreateOps
  <1>3. IdsAreFresh'
    BY DEF IdsAreFresh, PhasesAgree
  <1>4. RowsHaveAuthors'
    BY DEF RowsHaveAuthors, UserRowOf, WalletRowOf
  <1>5. WorkIsDone'
    BY DEF WorkIsDone, PhasesAgree, UserRowOf, WalletRowOf
  <1>6. ConstraintsHold'
    BY DEF ConstraintsHold, Live
  <1>7. SightsLast'
    BY DEF SightsLast, ConflictIsReal, ReadsCompleteAccounts, PhasesAgree, Committed,
        SameEmail, SameUser, Xids, ReadPhases
  <1> QED BY <1>1, <1>2, <1>3, <1>4, <1>5, <1>6, <1>7

\* A new transaction has no rows.
LEMMA BeginKeeps ==
    ASSUME IndInv, NEW r \in Requests, Begin(r)
    PROVE  IndInv'
  <1> USE AccountsAssumption DEF IndInv, Begin, Goto, db, args
  <1>1. TypeOK'
    BY DEF TypeOK, Phases, XactState, TxPhases
  <1>2. PhasesAgree'
    BY DEF PhasesAgree, TypeOK, Xids, TxPhases, ReadPhases, CreateOps
  <1>3. IdsAreFresh'
    BY DEF IdsAreFresh
  <1>4. RowsHaveAuthors'
    BY DEF RowsHaveAuthors, UserRowOf, WalletRowOf
  <1>5. WorkIsDone'
    BY DEF WorkIsDone, UserRowOf, WalletRowOf
  <1>6. ConstraintsHold'
    BY DEF ConstraintsHold, RowsHaveAuthors, Live, Xids, TxPhases
  <1>7. SightsLast'
    <2>1. /\ Committed(users) \subseteq Committed(users)'
          /\ Committed(wallets) \subseteq Committed(wallets)'
      BY DEF Committed, PhasesAgree
    <2>2. ConflictIsReal'
      BY <2>1 DEF SightsLast, ConflictIsReal, SameEmail, SameUser
    <2>3. ReadsCompleteAccounts'
      BY <2>1 DEF SightsLast, ReadsCompleteAccounts
    <2>4. \A q \in Requests : pc'[q] = "getBalance" => \E u \in Committed(users)' : u.id = uid'[q]
      BY <2>1 DEF SightsLast
    <2> QED BY <2>2, <2>3, <2>4 DEF SightsLast
  <1> QED BY <1>1, <1>2, <1>3, <1>4, <1>5, <1>6, <1>7

\* The transaction sees committed rows alone, so "exists" is true and stays so.
LEMMA ExistsByEmailKeeps ==
    ASSUME IndInv, NEW r \in Requests, ExistsByEmail(r)
    PROVE  IndInv'
  <1> USE AccountsAssumption DEF IndInv, ExistsByEmail, Goto, Answer, Rollback, Conn, db, args
  <1>1. TypeOK'
    BY DEF TypeOK, Phases, XactState, Xids, TxPhases, CreateOps
  <1>2. PhasesAgree'
    BY DEF PhasesAgree, TypeOK, Xids, TxPhases, ReadPhases
  <1>3. IdsAreFresh'
    BY DEF IdsAreFresh, TypeOK
  <1>4. RowsHaveAuthors'
    <2>1. \A u \in users : u.xmin # r
      BY DEF RowsHaveAuthors
    <2>2. \A w \in wallets : w.xmin # r
      BY DEF RowsHaveAuthors
    <2>3. \A q \in Requests \ {r} : pc'[q] = pc[q]
      BY DEF TypeOK
    <2> QED BY <2>1, <2>2, <2>3
         DEF RowsHaveAuthors, UserRowOf, WalletRowOf, UserRow, WalletRow, Xids, TypeOK
  <1>5. WorkIsDone'
    BY DEF WorkIsDone, UserRowOf, WalletRowOf, TypeOK, Xids
  <1>6. ConstraintsHold'
    BY ReadsKeepConstraints DEF TypeOK, Xids
  <1>7. SightsLast'
    <2>1. /\ Committed(users) \subseteq Committed(users)'
          /\ Committed(wallets) \subseteq Committed(wallets)'
      BY DEF Committed, UserRow, WalletRow, TypeOK
    <2>2. ConflictIsReal'

      <3>1. reply'[r] = "exists" => SameEmail(Seen(users, Conn(r)), r) # {}
        BY DEF PhasesAgree, TypeOK
      <3>2. reply'[r] = "exists" => SameEmail(Committed(users), r) # {}
        BY <3>1 DEF Seen, RowsHaveAuthors, Committed, SameEmail, PhasesAgree
      <3>3. op[r] = "CreateUser"
        BY DEF PhasesAgree
      <3> QED BY <2>1, <3>2, <3>3 DEF SightsLast, ConflictIsReal, SameEmail, SameUser, TypeOK
    <2>3. ReadsCompleteAccounts'
      BY <2>1 DEF SightsLast, ReadsCompleteAccounts
    <2>4. \A q \in Requests : pc'[q] = "getBalance" => \E u \in Committed(users)' : u.id = uid'[q]
      BY <2>1 DEF SightsLast, TypeOK
    <2> QED BY <2>2, <2>3, <2>4 DEF SightsLast
  <1> QED BY <1>1, <1>2, <1>3, <1>4, <1>5, <1>6, <1>7

\* The id is new, and above the ids of legacy users.
LEMMA NextValKeeps ==
    ASSUME IndInv, NEW r \in Requests, NextVal(r)
    PROVE  IndInv'
  <1> USE AccountsAssumption DEF IndInv, NextVal, Goto, args
  <1>1. TypeOK'
    BY DEF TypeOK, Phases, TxPhases
  <1>2. PhasesAgree'
    BY DEF PhasesAgree, TxPhases, ReadPhases
  <1>3. IdsAreFresh'
    <2>1. userSeq' = userSeq + 1 /\ uid' = [uid EXCEPT ![r] = userSeq] /\ op[r] = "CreateUser"
      BY DEF PhasesAgree
    <2>2. pc' = [pc EXCEPT ![r] = "insertUser"] /\ op' = op
      OBVIOUS
    <2>3. userSeq \in Nat /\ userSeq # 0 /\ Len(Legacy) \in Nat
      BY LegacyLen DEF TypeOK
    <2>4. \A q \in Requests : uid[q] \in Nat
      BY IdsAreNumbers, Zenon DEF TypeOK
    <2>5. uid \in [Requests -> Ids \cup {0}] /\ pc \in [Requests -> Phases]
      BY DEF TypeOK
    <2>6. \A q \in Requests : uid'[q] = IF q = r THEN userSeq ELSE uid[q]
      BY <2>1, <2>5
    <2>7. \A q \in Requests : pc'[q] = IF q = r THEN "insertUser" ELSE pc[q]
      BY <2>2, <2>5
    <2> QED BY <2>1, <2>2, <2>3, <2>4, <2>6, <2>7 DEF IdsAreFresh
  <1>4. RowsHaveAuthors'
    BY DEF RowsHaveAuthors, UserRowOf, WalletRowOf
  <1>5. WorkIsDone'
    BY DEF WorkIsDone, PhasesAgree, UserRowOf, WalletRowOf, TxPhases
  <1>6. ConstraintsHold'
    BY DEF ConstraintsHold, Live
  <1>7. SightsLast'
    BY DEF SightsLast, ConflictIsReal, ReadsCompleteAccounts, PhasesAgree, Committed,
        SameEmail, SameUser, Xids, CreateOps
  <1> QED BY <1>1, <1>2, <1>3, <1>4, <1>5, <1>6, <1>7

\* No live row has the e-mail, so the new one breaks no constraint.
LEMMA InsertUserKeeps ==
    ASSUME IndInv, NEW r \in Requests, InsertUser(r)
    PROVE  IndInv'
  <1> USE AccountsAssumption DEF IndInv, InsertUser, Goto, Conn, args
  <1>1. TypeOK'
    BY DEF PhasesAgree, IdsAreFresh, UserRow, Xids, Phases, TxPhases, TypeOK
  <1>2. PhasesAgree'
    BY DEF PhasesAgree, TxPhases, ReadPhases, CreateOps
  <1>3. IdsAreFresh'
    BY DEF IdsAreFresh
  <1>4. RowsHaveAuthors'
    BY DEF RowsHaveAuthors, PhasesAgree, UserRowOf, WalletRowOf, TypeOK, TxPhases
  <1>5. WorkIsDone'
    BY DEF WorkIsDone, PhasesAgree, UserRowOf, WalletRowOf, TxPhases
  <1>6. ConstraintsHold'
    BY DEF ConstraintsHold, Live, SameEmail
  <1>7. SightsLast'
    BY DEF SightsLast, ConflictIsReal, ReadsCompleteAccounts, Committed, SameEmail, SameUser,
        ReadPhases, CreateOps, ReadOps
  <1> QED BY <1>1, <1>2, <1>3, <1>4, <1>5, <1>6, <1>7

\* The transaction is aborted: the rows it leaves are dead.
LEMMA InsertUserRejectedKeeps ==
    ASSUME IndInv, NEW r \in Requests, InsertUserRejected(r)
    PROVE  IndInv'
  <1> USE AccountsAssumption DEF IndInv, InsertUserRejected, Goto, Answer, Rollback, db, args
  <1>1. TypeOK'
    BY DEF TypeOK, Phases, XactState
  <1>2. PhasesAgree'
    BY DEF PhasesAgree, TypeOK, Xids, TxPhases, ReadPhases
  <1>3. IdsAreFresh'
    BY DEF IdsAreFresh
  <1>4. RowsHaveAuthors'
    BY DEF RowsHaveAuthors, UserRowOf, WalletRowOf
  <1>5. WorkIsDone'
    BY DEF WorkIsDone, UserRowOf, WalletRowOf
  <1>6. ConstraintsHold'
    BY DEF ConstraintsHold, Live
  <1>7. SightsLast'
    BY DEF SightsLast, ConflictIsReal, ReadsCompleteAccounts, Committed, SameEmail, SameUser,
        Xids, CreateOps, ReadOps
  <1> QED BY <1>1, <1>2, <1>3, <1>4, <1>5, <1>6, <1>7

\* As ExistsByEmail, for wallets.
LEMMA ExistsByUserIDKeeps ==
    ASSUME IndInv, NEW r \in Requests, ExistsByUserID(r)
    PROVE  IndInv'
  <1> USE AccountsAssumption DEF IndInv, ExistsByUserID, Goto, Answer, Rollback, Conn, db, args
  <1>1. TypeOK'
    BY DEF TypeOK, Phases, XactState, TxPhases, CreateOps
  <1>2. PhasesAgree'
    BY DEF PhasesAgree, TypeOK, Xids, TxPhases, ReadPhases, CreateOps
  <1>3. IdsAreFresh'
    BY DEF IdsAreFresh, TypeOK
  <1>4. RowsHaveAuthors'
    BY DEF RowsHaveAuthors, PhasesAgree, UserRowOf, WalletRowOf, UserRow, WalletRow, TypeOK,
        Xids, ReadPhases
  <1>5. WorkIsDone'
    BY DEF WorkIsDone, PhasesAgree, UserRowOf, WalletRowOf, TypeOK, Xids
  <1>6. ConstraintsHold'
    BY ReadsKeepConstraints DEF TypeOK, Xids
  <1>7. SightsLast'
    <2>1. /\ Committed(users) \subseteq Committed(users)'
          /\ Committed(wallets) \subseteq Committed(wallets)'
      BY DEF Committed, UserRow, WalletRow, TypeOK
    <2>2. ConflictIsReal'

      <3>1. reply'[r] = "exists" => SameUser(Seen(wallets, Conn(r)), r) # {}
        BY DEF PhasesAgree, TypeOK
      <3>2. reply'[r] = "exists" => SameUser(Committed(wallets), r) # {}
        BY <3>1 DEF Seen, RowsHaveAuthors, Committed
      <3>3. op[r] = "CreateWallet"
        BY DEF PhasesAgree
      <3> QED BY <2>1, <3>2, <3>3 DEF SightsLast, ConflictIsReal, SameEmail, SameUser, TypeOK
    <2>3. ReadsCompleteAccounts'
      BY <2>1 DEF SightsLast, ReadsCompleteAccounts
    <2>4. \A q \in Requests : pc'[q] = "getBalance" => \E u \in Committed(users)' : u.id = uid'[q]
      BY <2>1 DEF SightsLast, TypeOK
    <2> QED BY <2>2, <2>3, <2>4 DEF SightsLast
  <1> QED BY <1>1, <1>2, <1>3, <1>4, <1>5, <1>6, <1>7

\* No live row has the user's id, so the new one breaks no constraint; whether
\* it has a user is looked up next.
LEMMA InsertWalletKeeps ==
    ASSUME IndInv, NEW r \in Requests, InsertWallet(r)
    PROVE  IndInv'
  <1> USE AccountsAssumption DEF IndInv, InsertWallet, Goto, Conn, args
  <1>0. uid[r] \in Ids
    BY DEF TypeOK, PhasesAgree, CreateOps, WorkIsDone, UserRowOf, UserRow
  <1>1. TypeOK'
    BY <1>0 DEF WalletRow, Phases, TxPhases, Xids, TypeOK
  <1>2. PhasesAgree'
    BY DEF PhasesAgree, TxPhases, ReadPhases
  <1>3. IdsAreFresh'
    BY DEF IdsAreFresh
  <1>4. RowsHaveAuthors'
    BY DEF RowsHaveAuthors, PhasesAgree, UserRowOf, WalletRowOf, TypeOK, TxPhases
  <1>5. WorkIsDone'
    BY DEF WorkIsDone, PhasesAgree, UserRowOf, WalletRowOf, TxPhases
  <1>6. ConstraintsHold'
    <2>1. ASSUME NEW w \in Live(wallets)', pc'[w.xmin] # "checkUser"
          PROVE  w \in Live(wallets) /\ pc[w.xmin] # "checkUser"
      BY <2>1 DEF Live, RowsHaveAuthors, TypeOK, PhasesAgree, TxPhases
    <2>2. \A w \in Live(wallets)' : w \in Live(wallets) \/ w = WalletRowOf(r)
      BY DEF Live, WalletRowOf, PhasesAgree, TxPhases
    <2>3. \A w \in Live(wallets) : w.user_id # uid[r]
      BY DEF SameUser
    <2>4. \A w, x \in Live(wallets)' : w.user_id = x.user_id => w = x
      BY <2>2, <2>3 DEF ConstraintsHold, WalletRowOf
    <2> QED BY <2>1, <2>4 DEF ConstraintsHold, Live
  <1>7. SightsLast'
    BY DEF SightsLast, ConflictIsReal, ReadsCompleteAccounts, Committed, SameEmail, SameUser
  <1> QED BY <1>1, <1>2, <1>3, <1>4, <1>5, <1>6, <1>7

\* The user is committed or the transaction's own; a committed user whose wallet
\* is this one, not yet committed, is a legacy one.
LEMMA CheckUserKeeps ==
    ASSUME IndInv, NEW r \in Requests, CheckUser(r)
    PROVE  IndInv'
  <1> USE AccountsAssumption DEF IndInv, CheckUser, Goto, Answer, Rollback, Conn, db, args
  <1>0. xact[r] = "active" /\ WalletRowOf(r) \in wallets
    BY DEF PhasesAgree, TxPhases, WorkIsDone
  <1>1. TypeOK'
    BY DEF TypeOK, Phases, XactState, TxPhases
  <1>2. PhasesAgree'
    BY <1>0 DEF PhasesAgree, TypeOK, Xids, TxPhases, ReadPhases, CreateOps
  <1>3. IdsAreFresh'
    BY DEF IdsAreFresh, TypeOK
  <1>4. RowsHaveAuthors'
    BY <1>0 DEF RowsHaveAuthors, PhasesAgree, UserRowOf, WalletRowOf, UserRow, WalletRow, TypeOK, Xids
  <1>5. WorkIsDone'
    <2>1. ASSUME ForeignKeyHolds(r), op[r] = "CreateWallet" PROVE uid[r] \in LegacyIds
      <3>1. PICK u \in users : u.id = uid[r] /\ (u.xmin = r \/ xact[u.xmin] = "committed")
        BY <1>0, <2>1 DEF ForeignKeyHolds, Seen
      <3>2. u \in Committed(users)
        BY <2>1, <3>1 DEF RowsHaveAuthors, Committed
      <3>3. SUFFICES ASSUME uid[r] \notin LegacyIds PROVE FALSE
        OBVIOUS
      <3>4. PICK w \in Committed(wallets) : w.user_id = uid[r]
        BY <3>1, <3>2, <3>3, CompleteAccounts DEF UserHasWallet
      <3>5. w = WalletRowOf(r)
        BY <1>0, <3>4 DEF ConstraintsHold, Live, Committed, WalletRowOf
      <3> QED BY <1>0, <3>4, <3>5 DEF Committed, WalletRowOf
    <2> QED BY <1>0, <2>1 DEF WorkIsDone, UserRowOf, WalletRowOf, TypeOK, Xids
  <1>6. ConstraintsHold'
    <2>1. CASE ForeignKeyHolds(r)
      <3>1. PICK u \in users : u.id = uid[r] /\ (u.xmin = r \/ xact[u.xmin] = "committed")
        BY <1>0, <2>1 DEF ForeignKeyHolds, Seen
      <3>2. \A w \in wallets : w.xmin = r => w.user_id = uid[r]
        BY DEF RowsHaveAuthors, WalletRowOf
      <3>3. \A w \in wallets : w.xmin \in Requests
        BY DEF RowsHaveAuthors, TypeOK, WalletRow, Xids
      <3> QED BY <2>1, <3>1, <3>2, <3>3 DEF ConstraintsHold, Live, TypeOK
    <2>2. CASE ~ForeignKeyHolds(r)
      <3> QED BY <1>0, <2>2, ReadsKeepConstraints DEF TypeOK, Xids
    <2> QED BY <2>1, <2>2
  <1>7. SightsLast'
    <2>1. /\ Committed(users) \subseteq Committed(users)'
          /\ Committed(wallets) \subseteq Committed(wallets)'
      BY DEF Committed, UserRow, WalletRow, TypeOK
    <2>2. ConflictIsReal'
      BY <2>1, <1>0 DEF SightsLast, ConflictIsReal, SameEmail, SameUser, TypeOK
    <2>3. ReadsCompleteAccounts'
      BY <2>1 DEF SightsLast, ReadsCompleteAccounts
    <2>4. \A q \in Requests : pc'[q] = "getBalance" => \E u \in Committed(users)' : u.id = uid'[q]
      BY <2>1 DEF SightsLast, TypeOK
    <2> QED BY <2>2, <2>3, <2>4 DEF SightsLast
  <1> QED BY <1>1, <1>2, <1>3, <1>4, <1>5, <1>6, <1>7

\* As InsertUserRejected.
LEMMA InsertWalletRejectedKeeps ==
    ASSUME IndInv, NEW r \in Requests, InsertWalletRejected(r)
    PROVE  IndInv'
  <1> USE AccountsAssumption DEF IndInv, InsertWalletRejected, Goto, Answer, Rollback, db, args
  <1>1. TypeOK'
    BY DEF TypeOK, Phases, XactState
  <1>2. PhasesAgree'
    BY DEF PhasesAgree, TypeOK, Xids, TxPhases, ReadPhases
  <1>3. IdsAreFresh'
    BY DEF IdsAreFresh
  <1>4. RowsHaveAuthors'
    BY DEF RowsHaveAuthors, UserRowOf, WalletRowOf
  <1>5. WorkIsDone'
    BY DEF WorkIsDone, UserRowOf, WalletRowOf
  <1>6. ConstraintsHold'
    BY DEF ConstraintsHold, Live, ReadPhases, ReadOps
  <1>7. SightsLast'
    BY DEF SightsLast, ConflictIsReal, ReadsCompleteAccounts, Committed, SameEmail, SameUser,
        Xids, TxPhases, ReadPhases, ReadOps
  <1> QED BY <1>1, <1>2, <1>3, <1>4, <1>5, <1>6, <1>7

\* The rows of a transaction become visible when all of them are written.
LEMMA CommitKeeps ==
    ASSUME IndInv, NEW r \in Requests, Commit(r)
    PROVE  IndInv'
  <1> USE AccountsAssumption DEF IndInv, Commit, Goto, db, args
  <1>1. TypeOK'
    BY DEF TypeOK, Phases, XactState
  <1>2. PhasesAgree'
    BY DEF PhasesAgree, TypeOK, Xids, TxPhases, ReadPhases
  <1>3. IdsAreFresh'
    BY DEF IdsAreFresh
  <1>4. RowsHaveAuthors'
    BY DEF RowsHaveAuthors, UserRowOf, WalletRowOf
  <1>5. WorkIsDone'
    BY DEF WorkIsDone, UserRowOf, WalletRowOf
  <1>6. ConstraintsHold'
    BY DEF ConstraintsHold, PhasesAgree, Live, TxPhases
  <1>7. SightsLast'
    BY DEF SightsLast, ConflictIsReal, ReadsCompleteAccounts, Committed, SameEmail, SameUser,
        ReadPhases, CreateOps
  <1> QED BY <1>1, <1>2, <1>3, <1>4, <1>5, <1>6, <1>7

\* "ok" is said by a request whose transaction is committed.
LEMMA AckKeeps ==
    ASSUME IndInv, NEW r \in Requests, Ack(r)
    PROVE  IndInv'
  <1> USE AccountsAssumption DEF IndInv, Ack, Goto, Answer, db, args
  <1>1. TypeOK'
    BY DEF TypeOK, Phases
  <1>2. PhasesAgree'
    BY DEF PhasesAgree, TypeOK, TxPhases, ReadPhases
  <1>3. IdsAreFresh'
    BY DEF IdsAreFresh
  <1>4. RowsHaveAuthors'
    BY DEF RowsHaveAuthors, UserRowOf, WalletRowOf
  <1>5. WorkIsDone'
    BY DEF WorkIsDone, UserRowOf, WalletRowOf
  <1>6. ConstraintsHold'
    BY DEF ConstraintsHold, Live
  <1>7. SightsLast'
    BY DEF SightsLast, ConflictIsReal, ReadsCompleteAccounts, Committed, SameEmail, SameUser,
        ReadOps
  <1> QED BY <1>1, <1>2, <1>3, <1>4, <1>5, <1>6, <1>7

\* An error after the commit changes no row.
LEMMA AckLostKeeps ==
    ASSUME IndInv, NEW r \in Requests, AckLost(r)
    PROVE  IndInv'
  <1> USE AccountsAssumption DEF IndInv, AckLost, Goto, Answer, db, args
  <1>1. TypeOK'
    BY DEF TypeOK, Phases
  <1>2. PhasesAgree'
    BY DEF PhasesAgree, TypeOK, TxPhases, ReadPhases
  <1>3. IdsAreFresh'
    BY DEF IdsAreFresh
  <1>4. RowsHaveAuthors'
    BY DEF RowsHaveAuthors, UserRowOf, WalletRowOf
  <1>5. WorkIsDone'
    BY DEF WorkIsDone, UserRowOf, WalletRowOf
  <1>6. ConstraintsHold'
    BY DEF ConstraintsHold, Live
  <1>7. SightsLast'
    BY DEF SightsLast, ConflictIsReal, ReadsCompleteAccounts, Committed, SameEmail, SameUser,
        ReadOps
  <1> QED BY <1>1, <1>2, <1>3, <1>4, <1>5, <1>6, <1>7

\* A failure before the commit leaves dead rows only.
LEMMA TxFailsKeeps ==
    ASSUME IndInv, NEW r \in Requests, TxFails(r)
    PROVE  IndInv'
  <1> USE AccountsAssumption DEF IndInv, TxFails, Goto, Answer, Rollback, db, args
  <1>1. TypeOK'
    BY DEF TypeOK, Phases, XactState
  <1>2. PhasesAgree'
    BY DEF PhasesAgree, TypeOK, Xids, TxPhases, ReadPhases
  <1>3. IdsAreFresh'
    BY DEF IdsAreFresh
  <1>4. RowsHaveAuthors'
    BY DEF RowsHaveAuthors, UserRowOf, WalletRowOf
  <1>5. WorkIsDone'
    BY DEF WorkIsDone, UserRowOf, WalletRowOf
  <1>6. ConstraintsHold'
    BY ReadsKeepConstraints DEF TypeOK, PhasesAgree, TxPhases, Xids
  <1>7. SightsLast'
    BY DEF SightsLast, ConflictIsReal, ReadsCompleteAccounts, Committed, SameEmail, SameUser,
        Xids, TxPhases, CreateOps
  <1> QED BY <1>1, <1>2, <1>3, <1>4, <1>5, <1>6, <1>7

\* The user read is committed.
LEMMA GetByIDKeeps ==
    ASSUME IndInv, NEW r \in Requests, GetByID(r)
    PROVE  IndInv'
  <1> USE AccountsAssumption DEF IndInv, GetByID, Goto, Answer, Conn, db, args
  <1>1. TypeOK'
    BY DEF TypeOK, Phases, ReadPhases
  <1>2. PhasesAgree'
    BY DEF PhasesAgree, Phases, TypeOK, TxPhases
  <1>3. IdsAreFresh'
    BY DEF IdsAreFresh, TypeOK
  <1>4. RowsHaveAuthors'
    BY DEF RowsHaveAuthors, UserRowOf, WalletRowOf, UserRow, WalletRow, LegacyIds, TypeOK,
        Xids, TxPhases, ReadPhases, CreateOps
  <1>5. WorkIsDone'
    BY DEF WorkIsDone, UserRowOf, WalletRowOf, TypeOK
  <1>6. ConstraintsHold'
    BY ReadsKeepConstraints DEF TypeOK, Xids
  <1>7. SightsLast'
    <2>1. /\ Committed(users) \subseteq Committed(users)'
          /\ Committed(wallets) \subseteq Committed(wallets)'
      BY DEF Committed
    <2>2. ConflictIsReal'
      BY <2>1 DEF SightsLast, ConflictIsReal, SameEmail, SameUser, TypeOK
    <2>3. ReadsCompleteAccounts'
      BY <2>1 DEF SightsLast, ReadsCompleteAccounts
    <2>4. \A q \in Requests : pc'[q] = "getBalance" => \E u \in Committed(users)' : u.id = uid'[q]
      BY <2>1 DEF SightsLast, PhasesAgree, Seen, Committed, TypeOK, TxPhases
    <2> QED BY <2>2, <2>3, <2>4 DEF SightsLast
  <1> QED BY <1>1, <1>2, <1>3, <1>4, <1>5, <1>6, <1>7

\* A new user that is committed has a committed wallet.
LEMMA GetBalanceByUserIDKeeps ==
    ASSUME IndInv, NEW r \in Requests, GetBalanceByUserID(r)
    PROVE  IndInv'
  <1> USE AccountsAssumption DEF IndInv, GetBalanceByUserID, Goto, Answer, Conn, db, args
  <1>1. TypeOK'
    BY DEF TypeOK, Phases
  <1>2. PhasesAgree'
    BY DEF PhasesAgree, Phases, TypeOK, TxPhases, CreateOps, ReadOps
  <1>3. IdsAreFresh'
    BY DEF IdsAreFresh
  <1>4. RowsHaveAuthors'
    BY DEF RowsHaveAuthors, UserRowOf, WalletRowOf
  <1>5. WorkIsDone'
    BY DEF WorkIsDone, UserRowOf, WalletRowOf
  <1>6. ConstraintsHold'
    BY DEF ConstraintsHold, Live
  <1>7. SightsLast'
    <2>1. /\ Committed(users) \subseteq Committed(users)'
          /\ Committed(wallets) \subseteq Committed(wallets)'
      BY DEF Committed
    <2>2. ConflictIsReal'
      BY <2>1 DEF SightsLast, ConflictIsReal, SameEmail, SameUser
    <2>3. ReadsCompleteAccounts'
      BY <2>1, CompleteAccounts
          DEF SightsLast, ReadsCompleteAccounts, UserHasWallet, SameUser, Seen, Committed,
              TxPhases
    <2>4. \A q \in Requests : pc'[q] = "getBalance" => \E u \in Committed(users)' : u.id = uid'[q]
      BY <2>1 DEF SightsLast
    <2> QED BY <2>2, <2>3, <2>4 DEF SightsLast
  <1> QED BY <1>1, <1>2, <1>3, <1>4, <1>5, <1>6, <1>7

\* Reading a wallet changes nothing but the answer.
LEMMA GetByUserIDKeeps ==
    ASSUME IndInv, NEW r \in Requests, GetByUserID(r)
    PROVE  IndInv'
  <1> USE AccountsAssumption DEF IndInv, GetByUserID, Goto, Answer, Conn, db, args
  <1>1. TypeOK'
    BY DEF TypeOK, Phases
  <1>2. PhasesAgree'
    BY DEF PhasesAgree, Phases, TypeOK, TxPhases, CreateOps, ReadOps
  <1>3. IdsAreFresh'
    BY DEF IdsAreFresh
  <1>4. RowsHaveAuthors'
    BY DEF RowsHaveAuthors, UserRowOf, WalletRowOf
  <1>5. WorkIsDone'
    BY DEF WorkIsDone, UserRowOf, WalletRowOf
  <1>6. ConstraintsHold'
    BY DEF ConstraintsHold, Live
  <1>7. SightsLast'
    BY DEF SightsLast, ConflictIsReal, ReadsCompleteAccounts, Committed, SameEmail, SameUser,
        ReadOps
  <1> QED BY <1>1, <1>2, <1>3, <1>4, <1>5, <1>6, <1>7

\* A failed read changes nothing but the answer.
LEMMA ReadFailsKeeps ==
    ASSUME IndInv, NEW r \in Requests, ReadFails(r)
    PROVE  IndInv'
  <1> USE AccountsAssumption DEF IndInv, ReadFails, Goto, Answer, db, args
  <1>1. TypeOK'
    BY DEF TypeOK, Phases
  <1>2. PhasesAgree'
    BY DEF PhasesAgree, TypeOK, TxPhases, CreateOps, ReadOps
  <1>3. IdsAreFresh'
    BY DEF IdsAreFresh, TypeOK
  <1>4. RowsHaveAuthors'
    BY DEF RowsHaveAuthors, UserRowOf, WalletRowOf, UserRow, WalletRow, TypeOK, Xids, TxPhases,
        ReadPhases, ReadOps
  <1>5. WorkIsDone'
    BY DEF WorkIsDone, UserRowOf, WalletRowOf, TypeOK
  <1>6. ConstraintsHold'
    BY ReadsKeepConstraints DEF TypeOK, ReadPhases, Xids
  <1>7. SightsLast'
    BY DEF SightsLast, ConflictIsReal, ReadsCompleteAccounts, Committed, SameEmail, SameUser,
        TypeOK
  <1> QED BY <1>1, <1>2, <1>3, <1>4, <1>5, <1>6, <1>7

\* A crash aborts every running transaction, so it leaves dead rows only.
LEMMA CrashKeeps == IndInv /\ Crash => IndInv'
  <1> SUFFICES ASSUME IndInv, Crash PROVE IndInv'
    OBVIOUS
  <1> USE AccountsAssumption DEF IndInv, Crash, db, args
  <1>1. TypeOK'
    BY DEF TypeOK, Phases, XactState
  <1>2. PhasesAgree'
    BY DEF PhasesAgree, Xids, TxPhases, ReadPhases
  <1>3. IdsAreFresh'
    BY DEF IdsAreFresh
  <1>4. RowsHaveAuthors'
    BY DEF RowsHaveAuthors, UserRowOf, WalletRowOf, UserRow, WalletRow, TypeOK, Xids
  <1>5. WorkIsDone'
    BY DEF WorkIsDone, UserRowOf, WalletRowOf, Xids
  <1>6. ConstraintsHold'
    BY ReadsKeepConstraints DEF TypeOK, PhasesAgree, TxPhases, Xids
  <1>7. SightsLast'
    <2>1. /\ Committed(users) \subseteq Committed(users)'
          /\ Committed(wallets) \subseteq Committed(wallets)'
      BY DEF Committed, UserRow, WalletRow, TypeOK
    <2>2. ConflictIsReal'
      BY <2>1 DEF SightsLast, ConflictIsReal, SameEmail, SameUser
    <2>3. ReadsCompleteAccounts'
      BY <2>1 DEF SightsLast, ReadsCompleteAccounts
    <2>4. \A q \in Requests : pc'[q] = "getBalance" => \E u \in Committed(users)' : u.id = uid'[q]
      BY <2>1 DEF SightsLast
    <2> QED BY <2>2, <2>3, <2>4 DEF SightsLast
  <1> QED BY <1>1, <1>2, <1>3, <1>4, <1>5, <1>6, <1>7

\* Every step keeps the invariant.
LEMMA NextKeeps == IndInv /\ [Next]_vars => IndInv'
  <1> SUFFICES ASSUME IndInv, [Next]_vars PROVE IndInv'
    OBVIOUS
  <1>1. ASSUME NEW r \in Requests, Receive(r) PROVE IndInv'
    BY <1>1, ReceiveCreateUserKeeps, ReceiveCreateWalletKeeps, ReceiveGetUserKeeps,
        ReceiveGetWalletKeeps DEF Receive
  <1>2. ASSUME NEW r \in Requests, Step(r) PROVE IndInv'
    BY <1>2, BeginKeeps, ExistsByEmailKeeps, NextValKeeps, InsertUserKeeps,
        InsertUserRejectedKeeps, ExistsByUserIDKeeps, InsertWalletKeeps,
            InsertWalletRejectedKeeps, CheckUserKeeps, CommitKeeps, AckKeeps, GetByIDKeeps,
                GetBalanceByUserIDKeeps, GetByUserIDKeeps DEF Step
  <1>3. ASSUME NEW r \in Requests, Fault(r) PROVE IndInv'
    BY <1>3, TxFailsKeeps, AckLostKeeps, ReadFailsKeeps DEF Fault
  <1>4. CASE Crash
    BY <1>4, CrashKeeps
  <1>5. CASE UNCHANGED vars
    BY <1>5 DEF vars, IndInv, TypeOK, PhasesAgree, IdsAreFresh, RowsHaveAuthors, WorkIsDone,
        ConstraintsHold, SightsLast, ConflictIsReal, ReadsCompleteAccounts, Live, Committed,
        SameEmail, SameUser, UserRowOf, WalletRowOf
  <1> QED BY <1>1, <1>2, <1>3, <1>4, <1>5 DEF Next

-----------------------------------------------------------------------------
(* The properties.                                                         *)

\* IndInv is an invariant: it holds initially and every step keeps it.
THEOREM Invariance == Spec => []IndInv
  <1>1. Init => IndInv
    BY InitEstablishes
  <1>2. IndInv /\ [Next]_vars => IndInv'
    BY NextKeeps
  <1> QED BY <1>1, <1>2, PTL DEF Spec

\* The tables, the sequence and the requests keep their types.
THEOREM TypeCorrect == Spec => []TypeOK
  <1>1. IndInv => TypeOK
    BY DEF IndInv
  <1> QED BY <1>1, Invariance, PTL

\* However many CreateUser calls race for an e-mail, one user gets it.
THEOREM EmailsAreUnique == Spec => []OneUserPerEmail
  <1>1. IndInv => OneUserPerEmail
    BY EmailsDiffer
  <1> QED BY <1>1, Invariance, PTL

\* A user that others can see has her wallet, at every moment and after any
\* failure, unless she is older than the wallets.
THEOREM AccountsAreComplete == Spec => []UserHasWallet
  <1>1. IndInv => UserHasWallet
    BY CompleteAccounts
  <1> QED BY <1>1, Invariance, PTL

\* A wallet that others can see belongs to a user they can see.
THEOREM WalletsAreOwned == Spec => []WalletHasUser
  <1>1. IndInv => WalletHasUser
    BY OwnersExist
  <1> QED BY <1>1, Invariance, PTL

\* What a caller was told is there stays there.
THEOREM AcksAreDurable == Spec => []AckedIsDurable
  <1>1. IndInv => AckedIsDurable
    BY AckedIsThere
  <1> QED BY <1>1, Invariance, PTL

\* A caller is told "already exists" of what does exist.
THEOREM ConflictsAreReal == Spec => []ConflictIsReal
  <1>1. IndInv => ConflictIsReal
    BY DEF IndInv, SightsLast
  <1> QED BY <1>1, Invariance, PTL

\* CreateWallet opens the wallets of legacy users and no others.
THEOREM OnlyLegacyWalletsOpened == Spec => []WalletsOpenedForLegacyOnly
  <1>1. IndInv => WalletsOpenedForLegacyOnly
    BY OpenedForLegacy
  <1> QED BY <1>1, Invariance, PTL

\* GetUser finds a wallet for every user but a legacy one, although it reads
\* outside a transaction.
THEOREM ReadsAreComplete == Spec => []ReadsCompleteAccounts
  <1>1. IndInv => ReadsCompleteAccounts
    BY DEF IndInv, SightsLast
  <1> QED BY <1>1, Invariance, PTL

\* A transaction that others wait for waits itself, if at all, for a CreateWallet
\* that waits for nobody and is about to be refused.
THEOREM NoWaitCycles == Spec => []HoldersWaitForDoomed
  <1>1. IndInv => HoldersWaitForDoomed
    BY HoldersWait
  <1> QED BY <1>1, Invariance, PTL

-----------------------------------------------------------------------------
(* The code implements the registry.                                       *)

\* Steps that commit nothing show nothing new in the tables.
LEMMA TablesLookAlike ==
    ASSUME TypeOK, UNCHANGED <<users, wallets>>,
           \A x \in Xids : xact'[x] = "committed" <=> xact[x] = "committed"
    PROVE  UNCHANGED <<Registered, WalletOwners>>
  <1>1. Committed(users)' = Committed(users) /\ Committed(wallets)' = Committed(wallets)
    BY DEF Committed, TypeOK, UserRow, WalletRow
  <1> QED BY <1>1 DEF Registered, WalletOwners

\* A row just inserted is not visible to others.
LEMMA InsertionsHide ==
    ASSUME IndInv, NEW r \in Requests, InsertUser(r) \/ InsertWallet(r)
    PROVE  UNCHANGED <<Registered, WalletOwners>>
  <1>1. Committed(users)' = Committed(users) /\ Committed(wallets)' = Committed(wallets)
    BY DEF InsertUser, InsertWallet, IndInv, PhasesAgree, TxPhases, Conn, Committed
  <1> QED BY <1>1 DEF Registered, WalletOwners

\* The answers given are the same while the same requests have them.
LEMMA SameAnswers ==
    ASSUME UNCHANGED <<ToldOk, ToldTaken>>,
           \A r \in ToldOk : uid'[r] = uid[r],
           \A r \in ToldTaken : email'[r] = email[r]
    PROVE  UNCHANGED <<Acked, Refused>>
  BY Zenon DEF Acked, Refused

\* The database starts as the registry does, with the legacy users.
LEMMA InitRefines == Init => Promise!Init
  <1> SUFFICES ASSUME Init PROVE Promise!Init
    OBVIOUS
  <1> USE AccountsAssumption DEF Init
  <1>1. Committed(users) = users /\ Committed(wallets) = {}
    <2>1. \A u \in users : u.xmin = Frozen
      OBVIOUS
    <2>2. xact[Frozen] = "committed"
      BY DEF Xids
    <2> QED BY <2>1, <2>2 DEF Committed
  <1>2. {[id |-> u.id, email |-> u.email] : u \in users}
          = {[id |-> i, email |-> Legacy[i]] : i \in DOMAIN Legacy}
    <2>1. DOMAIN Legacy = 1..Len(Legacy)
      OBVIOUS
    <2>2. users = {[id |-> i, email |-> Legacy[i], xmin |-> Frozen] : i \in 1..Len(Legacy)}
      BY DEF Init
    <2>3. ASSUME NEW u \in users
          PROVE  \E i \in DOMAIN Legacy :
                     [id |-> u.id, email |-> u.email] = [id |-> i, email |-> Legacy[i]]
      BY <2>1, <2>2
    <2>4. ASSUME NEW i \in DOMAIN Legacy
          PROVE  [id |-> i, email |-> Legacy[i]] \in
                     {[id |-> u.id, email |-> u.email] : u \in users}
      <3>1. [id |-> i, email |-> Legacy[i], xmin |-> Frozen] \in users
        BY <2>1, <2>2
      <3>2. PICK u \in users : u.id = i /\ u.email = Legacy[i]
        BY <3>1
      <3> QED BY <3>2
    <2>5. {[id |-> u.id, email |-> u.email] : u \in users}
            \subseteq {[id |-> i, email |-> Legacy[i]] : i \in DOMAIN Legacy}
      BY <2>3
    <2>6. {[id |-> i, email |-> Legacy[i]] : i \in DOMAIN Legacy}
            \subseteq {[id |-> u.id, email |-> u.email] : u \in users}
      BY <2>4, Zenon
    <2> QED BY <2>5, <2>6
  <1>3. /\ {s \in Requests : op[s] = "CreateUser" /\ reply[s] = "ok"} = {}
        /\ {s \in Requests : op[s] = "CreateUser" /\ reply[s] = "exists"} = {}
    OBVIOUS
  <1> QED BY <1>1, <1>2, <1>3 DEF Promise!Init, Promise!LegacyUsers, Registered, WalletOwners,
      ToldOk, ToldTaken, Acked, Refused

\* A commit is the moment an account, or a legacy wallet, comes to be.
LEMMA CommitRefines == ASSUME IndInv, NEW r \in Requests, Commit(r)
   PROVE Promise!Next
  <1> USE DEF Commit, Goto, db, args
  <1>1. /\ xact[r] = "active" /\ op[r] \in CreateOps
        /\ xact' = [xact EXCEPT ![r] = "committed"]
        /\ WalletRowOf(r) \in wallets
    BY DEF IndInv, PhasesAgree, TxPhases, WorkIsDone
  <1>2. UNCHANGED <<users, wallets, op, uid, email, reply>>
    OBVIOUS
  <1>3. \A u \in users : u.xmin = r => u = UserRowOf(r) /\ op[r] = "CreateUser"
    BY AccountsAssumption DEF IndInv, RowsHaveAuthors
  <1>4. \A w \in wallets : w.xmin = r => w = WalletRowOf(r)
    BY AccountsAssumption DEF IndInv, RowsHaveAuthors
  <1>5. Committed(wallets)' = Committed(wallets) \cup {WalletRowOf(r)}
    BY <1>1, <1>2, <1>4 DEF Committed, IndInv, TypeOK, WalletRow, WalletRowOf
  <1>6. WalletOwners' = WalletOwners \cup {uid[r]}
    <2>1. WalletRowOf(r).user_id = uid[r]
      BY DEF WalletRowOf
    <2> QED BY <1>5, <2>1, Zenon DEF WalletOwners
  <1>7. Acked' = Acked /\ Refused' = Refused
    BY <1>2 DEF Acked, Refused, ToldOk, ToldTaken
  <1>8. CASE op[r] = "CreateUser"
    <2>1. UserRowOf(r) \in users
      BY <1>8 DEF IndInv, WorkIsDone
    <2>2. Committed(users)' = Committed(users) \cup {UserRowOf(r)}
      BY <1>1, <1>2, <1>3, <2>1 DEF Committed, IndInv, TypeOK, UserRow, UserRowOf
    <2>4. PICK a \in [id : Ids, email : Emails] : a = [id |-> uid[r], email |-> email[r]]
      BY <2>1 DEF IndInv, TypeOK, UserRow, UserRowOf
    <2>3. Registered' = Registered \cup {a}
      <3>1. [id |-> UserRowOf(r).id, email |-> UserRowOf(r).email] = a
        BY <2>4 DEF UserRowOf
      <3> QED BY <2>2, <3>1, Zenon DEF Registered
    <2>5. ASSUME NEW v \in Committed(users) PROVE v.id # uid[r] /\ v.email # email[r]
      <3>1. v # UserRowOf(r)
        BY <1>1 DEF Committed, UserRowOf
      <3>2. v.email # email[r]
        BY <3>1, <2>1, <1>1 DEF IndInv, ConstraintsHold, Live, Committed, UserRowOf
      <3>3. uid[r] # 0 /\ uid[r] \notin LegacyIds
        BY <2>4, <1>8, AccountsAssumption DEF IndInv, IdsAreFresh, LegacyIds
      <3>4. CASE v.xmin = Frozen
        BY <3>2, <3>3, <3>4 DEF IndInv, RowsHaveAuthors, Committed
      <3>5. CASE v.xmin # Frozen
        BY <1>8, <3>1, <3>2, <3>3, <3>5
            DEF IndInv, RowsHaveAuthors, IdsAreFresh, UserRowOf, Committed, TypeOK, UserRow,
                Xids
      <3> QED BY <3>4, <3>5
    <2>9. \A v \in Registered : v.id # a.id /\ v.email # a.email
      BY <2>4, <2>5 DEF Registered
    <2>8. WalletOwners' = WalletOwners \cup {a.id}
      BY <1>6, <2>4
    <2>6. Promise!Register(a)
      BY <2>8, <1>7, <2>3, <2>9 DEF Promise!Register
    <2>7. \E u \in Promise!User : Promise!Register(u)
      BY <2>4, <2>6, Zenon DEF Promise!User
    <2> QED BY <2>7 DEF Promise!Next
  <1>9. CASE op[r] = "CreateWallet"
    <2>1. uid[r] \in LegacyIds
      BY <1>9 DEF IndInv, WorkIsDone
    <2>2. Committed(users)' = Committed(users)
      BY <1>1, <1>2, <1>3, <1>9 DEF Committed
    <2>3. Registered' = Registered
      BY <2>2 DEF Registered
    <2>4. uid[r] \notin WalletOwners
      <3>1. SUFFICES ASSUME NEW w \in Committed(wallets), w.user_id = uid[r] PROVE FALSE
        BY DEF WalletOwners
      <3>2. w = WalletRowOf(r)
        BY <1>1, <3>1 DEF IndInv, ConstraintsHold, Live, Committed, WalletRowOf
      <3> QED BY <3>2, <1>1 DEF Committed, WalletRowOf
    <2>6. DOMAIN Legacy = LegacyIds
      BY AccountsAssumption DEF LegacyIds
    <2>8. PICK i \in LegacyIds : i = uid[r]
      BY <2>1
    <2>5. Promise!OpenWallet(i)
      BY <1>6, <1>7, <2>8, <2>3, <2>4, <2>6 DEF Promise!OpenWallet
    <2>7. \E j \in DOMAIN Legacy : Promise!OpenWallet(j)
      BY <2>8, <2>5, <2>6, Zenon
    <2> QED BY <2>7 DEF Promise!Next
  <1> QED BY <1>1, <1>8, <1>9 DEF CreateOps

\* A request that arrives is invisible.
LEMMA ReceiveIsSilent ==
    ASSUME IndInv, NEW r \in Requests, Receive(r)
    PROVE UNCHANGED Promise!vars
  <1> USE DEF Receive, ReceiveCreateUser, ReceiveCreateWallet, ReceiveGetUser,
      ReceiveGetWallet, Goto, db, args
  <1>1. reply[r] = "none" /\ reply' = reply
    BY DEF IndInv, PhasesAgree, TypeOK
  <1>2. \A q \in Requests \ {r} : op'[q] = op[q] /\ uid'[q] = uid[q] /\ email'[q] = email[q]
    BY DEF IndInv, TypeOK
  <1>3. UNCHANGED <<ToldOk, ToldTaken>>
    BY <1>1, <1>2 DEF ToldOk, ToldTaken
  <1>4. r \notin ToldOk /\ r \notin ToldTaken
    BY <1>1 DEF ToldOk, ToldTaken
  <1>5. UNCHANGED <<Acked, Refused>>
    BY <1>2, <1>3, <1>4, SameAnswers DEF ToldOk, ToldTaken
  <1>6. UNCHANGED <<Registered, WalletOwners>>
    BY TablesLookAlike DEF IndInv
  <1> QED BY <1>5, <1>6 DEF Promise!vars

\* So is its work before the commit.
LEMMA WorkIsSilent ==
    ASSUME IndInv, NEW r \in Requests,
           Begin(r) \/ NextVal(r) \/ InsertUser(r) \/ InsertWallet(r)
    PROVE UNCHANGED Promise!vars
  <1> USE DEF Goto, db, args
  <1>1. reply[r] = "none" /\ reply' = reply /\ op' = op /\ email' = email
    BY DEF IndInv, PhasesAgree, Begin, NextVal, InsertUser, InsertWallet
  <1>2. \A q \in Requests \ {r} : uid'[q] = uid[q]
    BY DEF IndInv, TypeOK, Begin, NextVal, InsertUser, InsertWallet
  <1>3. UNCHANGED <<ToldOk, ToldTaken>>
    BY <1>1 DEF ToldOk, ToldTaken
  <1>4. r \notin ToldOk
    BY <1>1 DEF ToldOk
  <1>5. UNCHANGED <<Acked, Refused>>
    BY <1>1, <1>2, <1>3, <1>4, SameAnswers DEF ToldOk, ToldTaken
  <1>6. UNCHANGED <<Registered, WalletOwners>>
    <2>1. CASE Begin(r) \/ NextVal(r)
      BY <2>1, TablesLookAlike, AccountsAssumption
          DEF IndInv, TypeOK, PhasesAgree, Begin, NextVal
    <2>2. CASE InsertUser(r) \/ InsertWallet(r)
      BY <2>2, InsertionsHide
    <2> QED BY <2>1, <2>2
  <1> QED BY <1>5, <1>6 DEF Promise!vars

\* Answers that promise nothing about an account are invisible, and so is a
\* wallet's creation being acknowledged.
LEMMA OtherAnswersAreSilent ==
    ASSUME IndInv, NEW r \in Requests,
           InsertUserRejected(r) \/ InsertWalletRejected(r) \/ CheckUser(r) \/ TxFails(r)
           \/ AckLost(r)
           \/ GetByID(r) \/ GetBalanceByUserID(r) \/ GetByUserID(r) \/ ReadFails(r)
           \/ (op[r] = "CreateWallet" /\ Ack(r)) \/ ExistsByUserID(r)
    PROVE UNCHANGED Promise!vars
  <1> USE DEF InsertUserRejected, InsertWalletRejected, CheckUser, TxFails, AckLost, GetByID,
      GetBalanceByUserID, GetByUserID, ReadFails, Ack, ExistsByUserID,
         Answer, Goto, db, args
  <1>1. UNCHANGED <<users, wallets, op, uid, email>>
    OBVIOUS
  <1>2. \A x \in Xids : xact'[x] = "committed" <=> xact[x] = "committed"
    BY DEF IndInv, TypeOK, Rollback
  <1>3. reply[r] = "none"
    BY DEF IndInv, PhasesAgree, TxPhases, ReadPhases
  <1>4. op[r] # "CreateUser" \/ reply'[r] \notin {"ok", "exists"}
    BY DEF IndInv, PhasesAgree, TypeOK, ReadPhases, ReadOps
  <1>5. \A q \in Requests \ {r} : reply'[q] = reply[q]
    BY DEF IndInv, TypeOK
  <1>6. UNCHANGED <<ToldOk, ToldTaken>>
    BY <1>1, <1>3, <1>4, <1>5 DEF ToldOk, ToldTaken
  <1>7. UNCHANGED <<Acked, Refused>>
    BY <1>1, <1>6, SameAnswers
  <1>8. UNCHANGED <<Registered, WalletOwners>>
    BY <1>1, <1>2, TablesLookAlike DEF IndInv
  <1> QED BY <1>7, <1>8 DEF Promise!vars

\* USER_ALREADY_EXISTS is a refusal of the registry.
LEMMA ExistsRefines ==
    ASSUME IndInv, NEW r \in Requests, ExistsByEmail(r)
    PROVE [Promise!Next]_Promise!vars
  <1> USE DEF ExistsByEmail, Answer, Goto, db, args
  <1>1. UNCHANGED <<users, wallets, op, uid, email>> /\ op[r] = "CreateUser"
    BY DEF IndInv, PhasesAgree
  <1>2. \A x \in Xids : xact'[x] = "committed" <=> xact[x] = "committed"
    BY DEF IndInv, TypeOK, Rollback
  <1>3. reply[r] = "none"
    BY DEF IndInv, PhasesAgree, TypeOK
  <1>8. UNCHANGED <<Registered, WalletOwners>>
    BY <1>1, <1>2, TablesLookAlike DEF IndInv
  <1>9. CASE SameEmail(Seen(users, Conn(r)), r) = {}
    <2>1. UNCHANGED reply
      BY <1>9
    <2>2. UNCHANGED <<ToldOk, ToldTaken>>
      BY <2>1, <1>1 DEF ToldOk, ToldTaken
    <2> QED BY <2>2, <1>1, <1>8, SameAnswers DEF Promise!vars
  <1>10. CASE SameEmail(Seen(users, Conn(r)), r) # {}
    <2>1. reply' = [reply EXCEPT ![r] = "exists"]
      BY <1>10
    <2>2. ToldOk' = ToldOk /\ ToldTaken' = ToldTaken \cup {r}
      BY <1>1, <1>3, <2>1 DEF ToldOk, ToldTaken, IndInv, TypeOK
    <2>3. PICK e \in Emails : e = email[r]
      BY <1>1 DEF IndInv, PhasesAgree
    <2>4. Acked' = Acked /\ Refused' = Refused \cup {e}
      BY <1>1, <2>2, <2>3, Zenon DEF Acked, Refused
    <2>5. PICK u \in users :
              u.email = e /\ (u.xmin = r \/ u.xmin = Frozen \/ xact[u.xmin] = "committed")
      BY <1>10, <2>3 DEF Seen, SameEmail, Conn
    <2>6. u \in Committed(users)
      BY <2>5 DEF Committed, IndInv, RowsHaveAuthors, PhasesAgree
    <2>7. \E v \in Registered : v.email = e
      <3>1. [id |-> u.id, email |-> u.email] \in Registered
        BY <2>6, Zenon DEF Registered
      <3> QED BY <2>5, <3>1
    <2>8. Promise!Refuse(e)
      BY <1>8, <2>4, <2>7 DEF Promise!Refuse
    <2>9. \E f \in Emails : Promise!Refuse(f)
      BY <2>8
    <2> QED BY <2>9 DEF Promise!Next
  <1> QED BY <1>9, <1>10

\* The answer "ok" to CreateUser is an acknowledgement of the registry.
LEMMA AckRefines ==
    ASSUME IndInv, NEW r \in Requests, Ack(r), op[r] = "CreateUser"
    PROVE Promise!Next
  <1> USE DEF Ack, Answer, Goto, db, args
  <1>1. UNCHANGED <<users, wallets, op, uid, email, xact>>
    OBVIOUS
  <1>3. reply[r] = "none" /\ xact[r] = "committed"
    BY DEF IndInv, PhasesAgree, TypeOK
  <1>8. UNCHANGED <<Registered, WalletOwners>>
    BY <1>1, TablesLookAlike DEF IndInv
  <1>2. ToldTaken' = ToldTaken /\ ToldOk' = ToldOk \cup {r}
    BY <1>1, <1>3 DEF ToldOk, ToldTaken, IndInv, TypeOK
  <1>4. UserRowOf(r) \in Committed(users) /\ WalletRowOf(r) \in Committed(wallets)
    BY <1>3 DEF IndInv, WorkIsDone, Committed, UserRowOf, WalletRowOf
  <1>5. PICK a \in Registered : a.id = uid[r]
    <2>1. [id |-> UserRowOf(r).id, email |-> UserRowOf(r).email] \in Registered
      BY <1>4, Zenon DEF Registered
    <2> QED BY <2>1 DEF UserRowOf
  <1>6. a.id \in WalletOwners
    BY <1>4, <1>5 DEF WalletOwners, WalletRowOf
  <1>7. Refused' = Refused /\ Acked' = Acked \cup {a.id}
    BY <1>1, <1>2, <1>5, Zenon DEF Acked, Refused
  <1>9. Promise!Acknowledge(a)
    BY <1>5, <1>6, <1>7, <1>8 DEF Promise!Acknowledge
  <1> QED BY <1>5, <1>9 DEF Promise!Next

\* A crash is invisible.
LEMMA CrashIsSilent ==
    ASSUME IndInv, Crash
    PROVE UNCHANGED Promise!vars
  <1> USE DEF Crash, db, args
  <1>1. UNCHANGED <<users, wallets, op, uid, email, reply>>
    OBVIOUS
  <1>2. \A x \in Xids : xact'[x] = "committed" <=> xact[x] = "committed"
    BY DEF IndInv, TypeOK
  <1>3. UNCHANGED <<ToldOk, ToldTaken>>
    BY <1>1 DEF ToldOk, ToldTaken
  <1>8. UNCHANGED <<Registered, WalletOwners>>
    BY <1>1, <1>2, TablesLookAlike DEF IndInv
  <1> QED BY <1>1, <1>3, <1>8, SameAnswers DEF Promise!vars

\* Every step of the code is a step of the registry or leaves it alone.
LEMMA NextRefines == IndInv /\ [Next]_vars => [Promise!Next]_Promise!vars
  <1> SUFFICES ASSUME IndInv, [Next]_vars PROVE [Promise!Next]_Promise!vars
    OBVIOUS
  <1>1. ASSUME NEW r \in Requests, Receive(r) PROVE UNCHANGED Promise!vars
    BY <1>1, ReceiveIsSilent
  <1>2. ASSUME NEW r \in Requests, Step(r) PROVE [Promise!Next]_Promise!vars
    <2>1. CASE Ack(r)
      <3>1. op[r] \in CreateOps
        BY <2>1 DEF Ack, IndInv, PhasesAgree
      <3> QED BY <3>1, <2>1, AckRefines, OtherAnswersAreSilent DEF CreateOps
    <2>2. CASE ~Ack(r)
      BY <1>2, <2>2, CommitRefines, ExistsRefines, WorkIsSilent, OtherAnswersAreSilent DEF Step
    <2> QED BY <2>1, <2>2
  <1>3. ASSUME NEW r \in Requests, Fault(r) PROVE UNCHANGED Promise!vars
    BY <1>3, OtherAnswersAreSilent DEF Fault
  <1>4. CASE Crash
    BY <1>4, CrashIsSilent
  <1>5. CASE UNCHANGED vars
    BY <1>5 DEF vars, Promise!vars, Registered, WalletOwners, Acked, Refused, ToldOk,
        ToldTaken, Committed
  <1> QED BY <1>1, <1>2, <1>3, <1>4, <1>5 DEF Next

\* Concurrent requests, failures and crashes included, implement the registry,
\* in which a user and her wallet appear in one step and answers are true.
THEOREM Refinement == Spec => ImplementsRegistry
  <1>1. Init => Promise!Init
    BY InitRefines
  <1>2. IndInv /\ [Next]_vars => [Promise!Next]_Promise!vars
    BY NextRefines
  <1> QED BY <1>1, <1>2, Invariance, PTL DEF Spec, ImplementsRegistry, Promise!Spec

=============================================================================
