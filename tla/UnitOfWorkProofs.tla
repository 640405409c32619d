-------------------------- MODULE UnitOfWorkProofs --------------------------
(***************************************************************************)
(* Proofs about UnitOfWork, for any transactions, rows and nesting depth.  *)
(***************************************************************************)
EXTENDS UnitOfWork, SequenceTheorems, TLAPS

-----------------------------------------------------------------------------
(* The stack.                                                              *)

\* Pushing a frame leaves those below it where they are.
LEMMA Pushed ==
    ASSUME TypeOK, NEW f \in Frame
    PROVE  LET s == Append(stack, f)
           IN  /\ s \in Seq(Frame)
               /\ Len(s) = Len(stack) + 1
               /\ s[Len(s)] = f
               /\ \A i \in 1..Len(stack) : s[i] = stack[i]
  BY DEF TypeOK

\* Popping the top frame leaves those below it where they are.
LEMMA Popped ==
    ASSUME TypeOK, stack # <<>>
    PROVE  /\ Pop \in Seq(Frame)
           /\ Len(Pop) = Len(stack) - 1
           /\ Len(stack) \in 1..Len(stack)
           /\ \A i \in 1..Len(Pop) : Pop[i] = stack[i] /\ i \in 1..Len(stack) /\ i # Len(stack)
  <1>1. stack \in Seq(Frame) /\ Len(stack) \in Nat /\ Len(stack) # 0
    BY DEF TypeOK
  <1> DEFINE n == Len(stack) - 1
  <1>2. n \in Nat /\ 1 \in Int /\ n \in Int /\ \A i \in 1..n : stack[i] \in Frame
    BY <1>1
  <1> HIDE DEF n
  <1>3. /\ SubSeq(stack, 1, n) \in Seq(Frame)
        /\ Len(SubSeq(stack, 1, n)) = IF 1 <= n THEN n - 1 + 1 ELSE 0
        /\ \A i \in 1..n - 1 + 1 : SubSeq(stack, 1, n)[i] = stack[1 + i - 1]
    BY <1>2, SubSeqProperties
  <1>4. n - 1 + 1 = n /\ (1 <= n \/ n = 0) /\ \A i \in 1..n : 1 + i - 1 = i
    BY <1>2
  <1>5. Pop \in Seq(Frame) /\ Len(Pop) = n
    BY <1>3, <1>4 DEF Pop, n
  <1>6. \A i \in 1..n : Pop[i] = stack[i]
    BY <1>3, <1>4, Zenon DEF Pop, n
  <1> QED BY <1>1, <1>5, <1>6 DEF n

\* The running call is on the stack, in a transaction no call has ended.
LEMMA TopHasNotEnded ==
    ASSUME UnitInv, stack # <<>>
    PROVE  Top \in Frame /\ Top.tx \in Txs /\ Top.opened \in BOOLEAN /\ xact[Top.tx] \in Live
  <1>1. stack \in Seq(Frame) /\ Len(stack) \in 1..Len(stack)
    BY Popped DEF UnitInv, TypeOK
  <1>2. Top \in Frame
    BY <1>1 DEF Top
  <1>3. xact[Top.tx] \in Live
    BY <1>1 DEF UnitInv, NotEndedUnderneath, Top
  <1> QED BY <1>2, <1>3 DEF Frame

\* The call that began a transaction is the last to leave it.
LEMMA OpenerLeavesLast ==
    ASSUME UnitInv, stack # <<>>, Top.opened
    PROVE  \A i \in 1..Len(Pop) : Pop[i].tx # Top.tx
  <1> SUFFICES ASSUME NEW i \in 1..Len(Pop), Pop[i].tx = Top.tx PROVE FALSE
    OBVIOUS
  <1>1. i \in 1..Len(stack) /\ i < Len(stack) /\ stack[i].tx = Top.tx
    BY Popped DEF UnitInv, TypeOK
  <1>2. PICK j \in 1..i : stack[j].opened /\ stack[j].tx = stack[i].tx
    BY <1>1 DEF UnitInv, JoinedHaveOpener
  <1>3. j = Len(stack)
    BY <1>1, <1>2 DEF UnitInv, OneOpener, Top, TypeOK
  <1> QED BY <1>1, <1>2, <1>3

-----------------------------------------------------------------------------
(* The steps.                                                              *)

\* No call runs and no transaction is begun.
LEMMA InitEstablishes == Init => UnitInv
  <1> SUFFICES ASSUME Init PROVE UnitInv
    OBVIOUS
  <1>1. stack = <<>> /\ Len(stack) = 0 /\ stack \in Seq(Frame) /\ ~panicking
    BY DEF Init
  <1>2. TypeOK
    <2>1. Len(stack) <= MaxDepth
      BY <1>1, UnitOfWorkAssumption
    <2> QED BY <1>1, <2>1 DEF Init, TypeOK, XactState
  <1>3. NotEndedUnderneath /\ JoinedHaveOpener /\ OneOpener
    BY <1>1 DEF NotEndedUnderneath, JoinedHaveOpener, OneOpener
  <1>4. NoneLeaks
    <2>1. 1..Len(stack) = {}
      BY <1>1
    <2> QED BY <2>1 DEF Init, NoneLeaks, Open
  <1>5. UnusedIsFresh /\ ReportsAreTrue
    BY UnitOfWorkAssumption DEF Init, UnusedIsFresh, ReportsAreTrue
  <1> QED BY <1>1, <1>2, <1>3, <1>4, <1>5 DEF UnitInv

\* The new call finds below it the one that began the transaction it joins.
LEMMA JoinKeeps == UnitInv /\ Join => UnitInv'
  <1> SUFFICES ASSUME UnitInv, Join PROVE UnitInv'
    OBVIOUS
  <1> DEFINE f == [tx |-> Top.tx, opened |-> FALSE]
  <1>1. f \in Frame /\ stack # <<>> /\ ~panicking
    BY TopHasNotEnded DEF Join, Running, Frame
  <1>2. /\ stack' \in Seq(Frame)
        /\ Len(stack') = Len(stack) + 1
        /\ stack'[Len(stack')] = f
        /\ \A i \in 1..Len(stack) : stack'[i] = stack[i]
    BY <1>1, Pushed DEF Join, UnitInv
  <1>3. /\ UNCHANGED <<xact, wrote, returned, panicking>>
        /\ Len(stack) \in Nat /\ Len(stack) < MaxDepth
    BY DEF Join, UnitInv, TypeOK
  <1> HIDE DEF f
  <1>4. TypeOK'
    BY <1>2, <1>3, UnitOfWorkAssumption DEF UnitInv, TypeOK
  <1>5. NotEndedUnderneath'
    BY <1>1, <1>2, <1>3, TopHasNotEnded DEF f, UnitInv, NotEndedUnderneath
  <1>6. NoneLeaks'
    <2> SUFFICES ASSUME NEW t \in Txs, xact[t] \in Open
                 PROVE  \E i \in 1..Len(stack') : stack'[i] = [tx |-> t, opened |-> TRUE]
      BY <1>3 DEF NoneLeaks, Open
    <2>1. PICK i \in 1..Len(stack) : stack[i] = [tx |-> t, opened |-> TRUE]
      BY DEF UnitInv, NoneLeaks
    <2> QED BY <1>2, <1>3, <2>1
  <1>7. JoinedHaveOpener'
    BY <1>1, <1>2, <1>3 DEF f, UnitInv, JoinedHaveOpener, Top
  <1>8. OneOpener'
    BY <1>2, <1>3 DEF f, UnitInv, OneOpener
  <1>9. UnusedIsFresh' /\ ReportsAreTrue'
    BY <1>1, <1>3 DEF UnitInv, UnusedIsFresh, ReportsAreTrue
  <1> QED BY <1>4, <1>5, <1>6, <1>7, <1>8, <1>9 DEF UnitInv

\* A transaction that is begun was unused, so no frame has it.
LEMMA BeginKeeps == ASSUME UnitInv, NEW t \in Txs, Begin(t) PROVE UnitInv'
  <1> DEFINE f == [tx |-> t, opened |-> TRUE]
  <1>1. f \in Frame /\ ~panicking /\ xact[t] = "unused"
    BY DEF Begin, Frame
  <1>2. /\ stack' \in Seq(Frame)
        /\ Len(stack') = Len(stack) + 1
        /\ stack'[Len(stack')] = f
        /\ \A i \in 1..Len(stack) : stack'[i] = stack[i]
    BY <1>1, Pushed DEF Begin, UnitInv
  <1>3. UNCHANGED <<wrote, returned, panicking>> /\ Len(stack) \in Nat /\ Len(stack) < MaxDepth
    BY DEF Begin, UnitInv, TypeOK
  <1>4. /\ xact' \in [Txs -> XactState]
        /\ \A u \in Txs : xact'[u] = IF u = t THEN "active" ELSE xact[u]
    BY DEF Begin, UnitInv, TypeOK, XactState
  <1>5. \A i \in 1..Len(stack) : stack[i].tx # t
    BY <1>1 DEF UnitInv, NotEndedUnderneath, Open, Live
  <1> HIDE DEF f
  <1>6. TypeOK'
    BY <1>2, <1>3, <1>4, UnitOfWorkAssumption DEF UnitInv, TypeOK
  <1>7. NotEndedUnderneath'
    <2>1. ASSUME NEW i \in 1..Len(stack) PROVE xact'[stack'[i].tx] \in Live
      <3>1. stack[i] \in Frame /\ stack'[i] = stack[i]
        BY <1>2 DEF UnitInv, TypeOK
      <3> QED BY <3>1, <1>4, <1>5 DEF UnitInv, NotEndedUnderneath, Frame
    <2>2. xact'[stack'[Len(stack')].tx] \in Live
      BY <1>2, <1>4 DEF f, Open, Live
    <2> QED BY <1>2, <1>3, <2>1, <2>2 DEF NotEndedUnderneath
  <1>8. NoneLeaks'
    <2>1. ASSUME NEW u \in Txs, u # t
          PROVE  xact'[u] \in Open =>
                     \E i \in 1..Len(stack') : stack'[i] = [tx |-> u, opened |-> TRUE]
      <3>1. stack'[Len(stack')] # [tx |-> u, opened |-> TRUE]
        BY <1>2, <2>1 DEF f
      <3> QED BY <1>2, <1>3, <1>4, <2>1, <3>1 DEF UnitInv, NoneLeaks
    <2>2. /\ xact'[t] \in Open
          /\ Len(stack') \in 1..Len(stack')
          /\ stack'[Len(stack')] = [tx |-> t, opened |-> TRUE]
      BY <1>2, <1>3, <1>4 DEF f, Open
    <2> QED BY <2>1, <2>2 DEF NoneLeaks
  <1>9. JoinedHaveOpener'
    BY <1>2, <1>3 DEF f, UnitInv, JoinedHaveOpener
  <1>10. OneOpener'
    BY <1>2, <1>3, <1>5 DEF f, UnitInv, OneOpener
  <1>11. UnusedIsFresh' /\ ReportsAreTrue'
    BY <1>1, <1>3, <1>4 DEF UnitInv, UnusedIsFresh, ReportsAreTrue, Open, Live
  <1> QED BY <1>6, <1>7, <1>8, <1>9, <1>10, <1>11 DEF UnitInv

\* A row is written in the transaction of the running call.
LEMMA ExecKeeps == ASSUME UnitInv, NEW w \in Writes, Exec(w) PROVE UnitInv'
  <1>1. /\ stack # <<>>
        /\ UNCHANGED <<stack, xact, returned, panicking>>
        /\ wrote' = [wrote EXCEPT ![w] = Top.tx]
    BY DEF Exec, Running
  <1>2. Top.tx \in Txs /\ xact[Top.tx] \in Live
    BY <1>1, TopHasNotEnded
  <1>3. TypeOK'
    BY <1>1, <1>2 DEF UnitInv, TypeOK
  <1>4. UnusedIsFresh'
    BY <1>1, <1>2 DEF UnitInv, UnusedIsFresh, TypeOK, Open, Live
  <1> QED BY <1>1, <1>3, <1>4
      DEF UnitInv, NotEndedUnderneath, NoneLeaks, JoinedHaveOpener, OneOpener, ReportsAreTrue

\* A statement fails, the context ends, or database/sql rolls back: no call
\* has ended the transaction.
LEMMA StateKeeps ==
    ASSUME UnitInv, NEW t \in Txs, xact[t] \in Live, NEW state \in Live,
           state \in Open => xact[t] \in Open,
           UNCHANGED <<stack, wrote, returned, panicking>>, xact' = [xact EXCEPT ![t] = state]
    PROVE  UnitInv'
  <1>1. \A u \in Txs : xact'[u] = IF u = t THEN state ELSE xact[u]
    BY DEF UnitInv, TypeOK
  <1>2. TypeOK'
    BY DEF UnitInv, TypeOK, XactState, Live, Open
  <1>3. NotEndedUnderneath'
    BY <1>1 DEF UnitInv, NotEndedUnderneath, TypeOK, Frame
  <1>4. NoneLeaks'
    BY <1>1 DEF UnitInv, NoneLeaks
  <1>5. UnusedIsFresh'
    BY <1>1 DEF UnitInv, UnusedIsFresh, Live, Open
  <1>6. ReportsAreTrue'
    BY <1>1 DEF UnitInv, UnusedIsFresh, ReportsAreTrue
  <1> QED BY <1>2, <1>3, <1>4, <1>5, <1>6 DEF UnitInv, JoinedHaveOpener, OneOpener

\* A transaction that could not begin was unused, so no frame has it.
LEMMA BeginFailsKeeps == ASSUME UnitInv, NEW t \in Txs, BeginFails(t) PROVE UnitInv'
  <1>1. /\ UNCHANGED <<stack, wrote, panicking>> /\ xact[t] = "unused"
        /\ xact' = [xact EXCEPT ![t] = "rolledback"]
        /\ returned' = [returned EXCEPT ![t] = "error"]
    BY DEF BeginFails
  <1>2. /\ \A u \in Txs : xact'[u] = IF u = t THEN "rolledback" ELSE xact[u]
        /\ \A u \in Txs : returned'[u] = IF u = t THEN "error" ELSE returned[u]
    BY <1>1 DEF UnitInv, TypeOK
  <1>3. TypeOK'
    BY <1>1 DEF UnitInv, TypeOK, XactState
  <1>4. NotEndedUnderneath'
    BY <1>1, <1>2 DEF UnitInv, NotEndedUnderneath, TypeOK, Frame, Live, Open
  <1>5. NoneLeaks'
    <2> SUFFICES ASSUME NEW u \in Txs, xact'[u] \in Open
                 PROVE  \E i \in 1..Len(stack) : stack[i] = [tx |-> u, opened |-> TRUE]
      BY <1>1 DEF NoneLeaks, Open
    <2>1. xact[u] \in Open
      BY <1>2 DEF Open
    <2> QED BY <2>1 DEF UnitInv, NoneLeaks
  <1>6. UnusedIsFresh' /\ ReportsAreTrue'
    BY <1>1, <1>2 DEF UnitInv, UnusedIsFresh, ReportsAreTrue, Live, Open
  <1> QED BY <1>1, <1>3, <1>4, <1>5, <1>6 DEF UnitInv, JoinedHaveOpener, OneOpener

\* A call leaves, whichever way, with an outcome that agrees with the state its
\* transaction ends in.
LEMMA LeaveKeeps ==
    ASSUME UnitInv, stack # <<>>, NEW state \in {"committed", "rolledback"},
           NEW result \in {"nil", "error", "panic"}, Leave(state, result),
           result = "nil" => state = "committed",
           result = "panic" => state = "rolledback",
           panicking' \in BOOLEAN
    PROVE  UnitInv'
  <1>1. /\ stack' = Pop /\ wrote' = wrote
        /\ stack' \in Seq(Frame)
        /\ Len(stack') = Len(stack) - 1
        /\ Len(stack) \in 1..Len(stack)
        /\ \A i \in 1..Len(stack') : stack'[i] = stack[i] /\ i \in 1..Len(stack) /\ i # Len(stack)
    BY Popped DEF Leave, UnitInv
  <1>2. /\ Top \in Frame /\ Top.tx \in Txs /\ xact[Top.tx] \in Live
        /\ Top = stack[Len(stack)] /\ Len(stack) \in Nat
    BY TopHasNotEnded DEF Top, UnitInv, TypeOK
  <1>3. JoinedHaveOpener'
    <2> SUFFICES ASSUME NEW i \in 1..Len(stack')
                 PROVE  \E j \in 1..i : stack'[j].opened /\ stack'[j].tx = stack'[i].tx
      BY DEF JoinedHaveOpener
    <2>1. PICK j \in 1..i : stack[j].opened /\ stack[j].tx = stack[i].tx
      BY <1>1 DEF UnitInv, JoinedHaveOpener
    <2>2. j \in 1..Len(stack')
      BY <1>1, <1>2
    <2> QED BY <1>1, <2>1, <2>2
  <1>4. OneOpener'
    BY <1>1 DEF UnitInv, OneOpener
  <1>6. CASE ~Top.opened
    <2>1. UNCHANGED <<xact, returned>>
      BY <1>6 DEF Leave
    <2>2. TypeOK'
      BY <1>1, <1>2, <2>1, UnitOfWorkAssumption DEF UnitInv, TypeOK
    <2>3. NotEndedUnderneath'
      BY <1>1, <2>1 DEF UnitInv, NotEndedUnderneath
    <2>4. NoneLeaks'
      <3> SUFFICES ASSUME NEW t \in Txs, xact[t] \in Open
                   PROVE  \E i \in 1..Len(stack') : stack'[i] = [tx |-> t, opened |-> TRUE]
        BY <2>1 DEF NoneLeaks, Open
      <3>1. PICK i \in 1..Len(stack) : stack[i] = [tx |-> t, opened |-> TRUE]
        BY DEF UnitInv, NoneLeaks
      <3>2. i # Len(stack)
        BY <1>2, <1>6, <3>1
      <3>3. i \in 1..Len(stack')
        BY <1>1, <1>2, <3>2
      <3> QED BY <1>1, <3>1, <3>3
    <2>5. UnusedIsFresh' /\ ReportsAreTrue'
      BY <1>1, <2>1 DEF UnitInv, UnusedIsFresh, ReportsAreTrue
    <2> QED BY <1>3, <1>4, <2>2, <2>3, <2>4, <2>5 DEF UnitInv
  <1>7. CASE Top.opened
    <2>1. /\ xact' = [xact EXCEPT ![Top.tx] = state]
          /\ returned' = [returned EXCEPT ![Top.tx] = result]
      BY <1>7 DEF Leave
    <2>2. \A i \in 1..Len(stack') : stack'[i].tx # Top.tx
      BY <1>1, <1>7, OpenerLeavesLast
    <2>3. TypeOK'
      BY <1>1, <1>2, <2>1, UnitOfWorkAssumption DEF UnitInv, TypeOK, XactState
    <2>4. \A t \in Txs : xact'[t] = IF t = Top.tx THEN state ELSE xact[t]
      BY <2>1 DEF UnitInv, TypeOK
    <2>5. \A t \in Txs : returned'[t] = IF t = Top.tx THEN result ELSE returned[t]
      BY <2>1 DEF UnitInv, TypeOK
    <2>6. NotEndedUnderneath'
      <3> SUFFICES ASSUME NEW i \in 1..Len(stack') PROVE xact'[stack'[i].tx] \in Live
        BY DEF NotEndedUnderneath
      <3>1. stack[i] \in Frame /\ stack'[i] = stack[i] /\ stack[i].tx # Top.tx
        BY <1>1, <2>2 DEF UnitInv, TypeOK
      <3>2. xact[stack[i].tx] \in Live
        BY <1>1 DEF UnitInv, NotEndedUnderneath
      <3> QED BY <3>1, <3>2, <2>4 DEF Frame
    <2>7. NoneLeaks'
      <3>1. ASSUME NEW t \in Txs, t # Top.tx
            PROVE  xact'[t] \in Open =>
                       \E i \in 1..Len(stack') : stack'[i] = [tx |-> t, opened |-> TRUE]
        BY <1>1, <1>2, <2>4, <3>1 DEF UnitInv, NoneLeaks
      <3>2. xact'[Top.tx] \notin Open
        BY <1>2, <2>4 DEF Open
      <3>3. \A i \in 1..Len(stack') : stack'[i] # [tx |-> Top.tx, opened |-> TRUE]
        BY <2>2
      <3> QED BY <3>1, <3>2, <3>3 DEF NoneLeaks
    <2>8. UnusedIsFresh'
      BY <1>1, <1>2, <2>4, <2>5 DEF UnitInv, UnusedIsFresh, Open, Live
    <2>9. ReportsAreTrue'
      BY <2>4, <2>5, <1>2 DEF UnitInv, ReportsAreTrue
    <2> QED BY <1>3, <1>4, <2>3, <2>6, <2>7, <2>8, <2>9 DEF UnitInv
  <1> QED BY <1>6, <1>7

\* Every step keeps the invariant.
LEMMA NextKeeps == UnitInv /\ [Next]_vars => UnitInv'
  <1> SUFFICES ASSUME UnitInv, [Next]_vars PROVE UnitInv'
    OBVIOUS
  <1>1. CASE Join
    BY <1>1, JoinKeeps
  <1>2. ASSUME NEW t \in Txs, Begin(t) PROVE UnitInv'
    BY <1>2, BeginKeeps
  <1>3. ASSUME NEW w \in Writes, Exec(w) PROVE UnitInv'
    BY <1>3, ExecKeeps
  <1>4. CASE ExecFails
    <2>1. /\ stack # <<>> /\ UNCHANGED <<stack, wrote, returned, panicking>>
          /\ xact[Top.tx] = "active" /\ xact' = [xact EXCEPT ![Top.tx] = "broken"]
      BY <1>4 DEF ExecFails, Running
    <2> QED BY <2>1, TopHasNotEnded, StateKeeps DEF Open, Live
  <1>5. CASE ReturnNil
    BY <1>5, LeaveKeeps DEF ReturnNil, Running, UnitInv, TypeOK
  <1>6. CASE ReturnError
    BY <1>6, LeaveKeeps DEF ReturnError, Running, UnitInv, TypeOK
  <1>7. CASE CommitUnconfirmed
    BY <1>7, LeaveKeeps DEF CommitUnconfirmed, Running, UnitInv, TypeOK
  <1>8. CASE Panic
    BY <1>8 DEF Panic, Running, UnitInv, TypeOK, NotEndedUnderneath, NoneLeaks, JoinedHaveOpener,
        OneOpener, UnusedIsFresh, ReportsAreTrue
  <1>9. CASE Unwind
    BY <1>9, LeaveKeeps DEF Unwind, UnitInv, TypeOK
  <1>11. CASE Recover
    <2>1. UNCHANGED <<stack, xact, wrote, returned>> /\ panicking' \in BOOLEAN
      BY <1>11 DEF Recover
    <2> QED BY <2>1 DEF UnitInv, TypeOK, NotEndedUnderneath, NoneLeaks, JoinedHaveOpener,
        OneOpener, UnusedIsFresh, ReportsAreTrue
  <1>12. ASSUME NEW t \in Txs, BeginFails(t) PROVE UnitInv'
    BY <1>12, BeginFailsKeeps
  <1>13. ASSUME NEW t \in Txs, ContextEnds(t) PROVE UnitInv'
    BY <1>13, StateKeeps DEF ContextEnds, Open, Live
  <1>14. ASSUME NEW t \in Txs, ContextRollsBack(t) PROVE UnitInv'
    BY <1>14, StateKeeps DEF ContextRollsBack, Open, Live
  <1>10. CASE UNCHANGED vars
    BY <1>10 DEF vars, UnitInv, TypeOK, NotEndedUnderneath, NoneLeaks, JoinedHaveOpener,
        OneOpener, UnusedIsFresh, ReportsAreTrue
  <1> QED BY <1>1, <1>2, <1>3, <1>4, <1>5, <1>6, <1>7, <1>8, <1>9, <1>10, <1>11,
        <1>12, <1>13, <1>14 DEF Next

-----------------------------------------------------------------------------
(* The properties.                                                         *)

\* UnitInv is an invariant: it holds initially and every step keeps it.
THEOREM UnitInvariance == Spec => []UnitInv
  <1> QED BY InitEstablishes, NextKeeps, PTL DEF Spec

\* The variables keep their types, and no transaction nests deeper than the
\* bound.
THEOREM TypeCorrect == Spec => []TypeOK
  <1>1. UnitInv => TypeOK
    BY DEF UnitInv
  <1> QED BY <1>1, UnitInvariance, PTL

\* Whatever else ends it, no call of Do ends a transaction another still runs in.
THEOREM NobodyEndsAnothersTransaction == Spec => []NotEndedUnderneath
  <1>1. UnitInv => NotEndedUnderneath
    BY DEF UnitInv
  <1> QED BY <1>1, UnitInvariance, PTL

\* No transaction outlives the call that began it, on any path out of Do.
THEOREM NoTransactionLeaks == Spec => []NoneLeaks
  <1>1. UnitInv => NoneLeaks
    BY DEF UnitInv
  <1> QED BY <1>1, UnitInvariance, PTL

\* What Do returns is true of its transaction.
THEOREM ReportsHold == Spec => []ReportsAreTrue
  <1>1. UnitInv => ReportsAreTrue
    BY DEF UnitInv
  <1> QED BY <1>1, UnitInvariance, PTL

\* Rows become visible all together, when the call that began their
\* transaction returns, and stay visible.
THEOREM RowsAppearTogether == Spec => WrittenTogether
  <1> DEFINE Together ==
        /\ Visible \subseteq Visible'
        /\ \A w \in Visible' \ Visible :
             /\ {v \in Writes : wrote'[v] = wrote'[w]} \subseteq Visible'
             /\ \A i \in 1..Len(stack') : stack'[i].tx # wrote'[w]
  <1>1. UnitInv /\ [Next]_vars => [Together]_vars
    <2> SUFFICES ASSUME UnitInv, [Next]_vars PROVE Together \/ UNCHANGED vars
      OBVIOUS
    <2>1. ASSUME UNCHANGED <<wrote, xact>> PROVE Together
      BY <2>1 DEF Visible
    <2>2. ASSUME UNCHANGED wrote, NEW t \in Txs, xact[t] # "committed",
                 NEW state \in XactState \ {"committed"}, xact' = [xact EXCEPT ![t] = state]
          PROVE  Together
      <3>1. \A u \in Txs : xact'[u] = "committed" <=> xact[u] = "committed"
        BY <2>2 DEF UnitInv, TypeOK
      <3>2. Visible' = Visible
        BY <2>2, <3>1 DEF Visible, UnitInv, TypeOK
      <3> QED BY <3>2
    <2>3. ASSUME stack # <<>>, NEW result, Leave("committed", result) PROVE Together
      <3>1. CASE ~Top.opened
        BY <2>1, <2>3, <3>1 DEF Leave
      <3>2. CASE Top.opened
        <4>1. UNCHANGED wrote /\ xact' = [xact EXCEPT ![Top.tx] = "committed"] /\ stack' = Pop
          BY <2>3, <3>2 DEF Leave
        <4>2. \A u \in Txs : xact'[u] = IF u = Top.tx THEN "committed" ELSE xact[u]
          BY <4>1 DEF UnitInv, TypeOK
        <4>3. \A w \in Writes : w \in Visible' <=> w \in Visible \/ wrote[w] = Top.tx
          BY <4>1, <4>2, <2>3, TopHasNotEnded, UnitOfWorkAssumption DEF Visible, UnitInv, TypeOK
        <4>4. \A i \in 1..Len(stack') : stack'[i].tx # Top.tx
          BY <4>1, <2>3, <3>2, OpenerLeavesLast
        <4> QED BY <4>1, <4>3, <4>4 DEF Visible
      <3> QED BY <3>1, <3>2
    <2>4. ASSUME stack # <<>>, NEW result, Leave("rolledback", result) PROVE Together
      <3>1. CASE ~Top.opened
        BY <2>1, <2>4, <3>1 DEF Leave
      <3>2. CASE Top.opened
        BY <2>2, <2>4, <3>2, TopHasNotEnded DEF Leave, Open, Live, XactState
      <3> QED BY <3>1, <3>2
    <2>5. ASSUME NEW t \in Txs, Begin(t) PROVE Together
      BY <2>2, <2>5 DEF Begin, XactState
    <2>6. ASSUME NEW w \in Writes, Exec(w) PROVE Together
      <3>1. Top.tx \in Txs /\ xact[Top.tx] # "committed"
        BY <2>6, TopHasNotEnded DEF Exec, Running, Live, Open
      <3>2. xact' = xact /\ wrote' = [wrote EXCEPT ![w] = Top.tx] /\ wrote[w] = NoTx
        BY <2>6 DEF Exec
      <3>3. Visible' = Visible
        BY <3>1, <3>2 DEF Visible, UnitInv, TypeOK
      <3> QED BY <3>3
    <2>12. ASSUME NEW t \in Txs, BeginFails(t) \/ ContextEnds(t) \/ ContextRollsBack(t)
           PROVE  Together
      BY <2>2, <2>12 DEF BeginFails, ContextEnds, ContextRollsBack, XactState
    <2>7. CASE Join
      BY <2>1, <2>7 DEF Join
    <2>8. CASE ExecFails
      BY <2>2, <2>8, TopHasNotEnded DEF ExecFails, Running, XactState
    <2>9. CASE ReturnNil \/ CommitUnconfirmed
      BY <2>3, <2>9 DEF ReturnNil, CommitUnconfirmed, Running
    <2>10. CASE ReturnError \/ Unwind
      BY <2>4, <2>10 DEF ReturnError, Unwind, Running
    <2>11. CASE Panic \/ Recover
      BY <2>1, <2>11 DEF Panic, Recover
    <2> QED BY <2>5, <2>6, <2>7, <2>8, <2>9, <2>10, <2>11, <2>12 DEF Next
  <1> QED BY <1>1, UnitInvariance, PTL DEF Spec, WrittenTogether

-----------------------------------------------------------------------------
(* The refinement of AtomicStore.                                          *)

\* Nothing is written, committed or answered at first.
LEMMA InitRefines == Init => Flat!Init
  <1> SUFFICES ASSUME Init PROVE Flat!Init
    OBVIOUS
  <1>1. RowsOf = [t \in Txs |-> {}]
    BY UnitOfWorkAssumption DEF Init, RowsOf
  <1>2. Committed = {}
    BY DEF Init, Committed
  <1> QED BY <1>1, <1>2 DEF Init, Flat!Init

\* A step that writes no row, ends no transaction and answers nobody is not
\* seen from outside.
LEMMA SilentStep ==
    ASSUME UnitInv, UNCHANGED <<wrote, returned>>,
           \A t \in Txs : xact'[t] = "committed" <=> xact[t] = "committed"
    PROVE  UNCHANGED Flat!vars
  BY DEF RowsOf, Committed, Flat!vars

\* A row is written in the transaction of the innermost call.
LEMMA ExecRefines ==
    ASSUME UnitInv, NEW w \in Writes, Exec(w)
    PROVE  Flat!Write(Top.tx, w)
  <1>1. /\ UNCHANGED <<xact, returned>> /\ wrote[w] = NoTx
        /\ wrote' = [wrote EXCEPT ![w] = Top.tx] /\ xact[Top.tx] = "active" /\ stack # <<>>
    BY DEF Exec, Running
  <1>2. Top.tx \in Txs
    BY <1>1, TopHasNotEnded
  <1>3. returned[Top.tx] = "none"
    BY <1>1, <1>2 DEF UnitInv, UnusedIsFresh, Open, Live
  <1>4. \A t \in Txs : w \notin RowsOf[t]
    BY <1>1, UnitOfWorkAssumption DEF RowsOf
  <1>5. RowsOf' = [RowsOf EXCEPT ![Top.tx] = @ \cup {w}]
    <2>1. \A v \in Writes : wrote'[v] = IF v = w THEN Top.tx ELSE wrote[v]
      BY <1>1 DEF UnitInv, TypeOK
    <2>2. ASSUME NEW t \in Txs
          PROVE  {v \in Writes : wrote'[v] = t} =
                     IF t = Top.tx THEN {v \in Writes : wrote[v] = t} \cup {w}
                                   ELSE {v \in Writes : wrote[v] = t}
      BY <1>1, <2>1, <2>2, UnitOfWorkAssumption
    <2> QED BY <1>2, <2>2 DEF RowsOf
  <1>6. Committed' = Committed
    BY <1>1 DEF Committed
  <1> QED BY <1>1, <1>3, <1>4, <1>5, <1>6 DEF Flat!Write

\* The call that began a transaction ends it, with all its rows or with none.
LEMMA LeaveRefines ==
    ASSUME UnitInv, stack # <<>>, NEW state \in {"committed", "rolledback"},
           NEW result \in {"nil", "error", "panic"}, Leave(state, result),
           result = "nil" => state = "committed",
           result = "panic" => state = "rolledback"
    PROVE  \/ \E t \in Txs : Flat!Commit(t) \/ Flat!RollBack(t)
           \/ UNCHANGED Flat!vars
  <1>1. CASE ~Top.opened
    BY <1>1, SilentStep DEF Leave
  <1>2. CASE Top.opened
    <2>1. /\ wrote' = wrote /\ Top.tx \in Txs /\ xact[Top.tx] \in Live
          /\ xact' = [xact EXCEPT ![Top.tx] = state]
          /\ returned' = [returned EXCEPT ![Top.tx] = result]
      BY <1>2, TopHasNotEnded DEF Leave
    <2>2. returned[Top.tx] = "none"
      BY <2>1 DEF UnitInv, UnusedIsFresh
    <2>3. RowsOf' = RowsOf
      BY <2>1 DEF RowsOf
    <2>4. \A t \in Txs : xact'[t] = IF t = Top.tx THEN state ELSE xact[t]
      BY <2>1 DEF UnitInv, TypeOK
    <2>5. CASE state = "committed"
      <3>1. Committed' = Committed \cup {Top.tx}
        BY <2>1, <2>4, <2>5 DEF Committed
      <3>2. Flat!Commit(Top.tx)
        BY <2>1, <2>2, <2>3, <2>5, <3>1 DEF Flat!Commit
      <3> QED BY <2>1, <3>2
    <2>6. CASE state = "rolledback"
      <3>1. Committed' = Committed
        BY <2>1, <2>4, <2>6 DEF Committed, Open, Live
      <3>2. Flat!RollBack(Top.tx)
        BY <2>1, <2>2, <2>3, <2>6, <3>1 DEF Flat!RollBack
      <3> QED BY <2>1, <3>2
    <2> QED BY <2>5, <2>6
  <1> QED BY <1>1, <1>2

\* A transaction that could not begin counts as one that was rolled back.
LEMMA BeginFailsRefines == ASSUME UnitInv, NEW t \in Txs, BeginFails(t) PROVE Flat!RollBack(t)
  <1>1. /\ UNCHANGED wrote /\ xact[t] = "unused"
        /\ xact' = [xact EXCEPT ![t] = "rolledback"]
        /\ returned' = [returned EXCEPT ![t] = "error"]
    BY DEF BeginFails
  <1>2. returned[t] = "none"
    BY <1>1 DEF UnitInv, UnusedIsFresh
  <1>3. Committed' = Committed /\ RowsOf' = RowsOf
    BY <1>1 DEF Committed, RowsOf, UnitInv, TypeOK
  <1> QED BY <1>1, <1>2, <1>3 DEF Flat!RollBack

\* Every step is a step of the abstract store, or not seen from outside.
LEMMA NextRefines == UnitInv /\ [Next]_vars => [Flat!Next]_Flat!vars
  <1> SUFFICES ASSUME UnitInv, [Next]_vars PROVE Flat!Next \/ UNCHANGED Flat!vars
    OBVIOUS
  <1>1. CASE Join \/ Panic \/ Recover \/ UNCHANGED vars
    BY <1>1, SilentStep DEF Join, Panic, Recover, vars
  <1>2. ASSUME NEW t \in Txs, Begin(t) \/ ContextEnds(t) \/ ContextRollsBack(t)
        PROVE  UNCHANGED Flat!vars
    BY <1>2, SilentStep DEF Begin, ContextEnds, ContextRollsBack, UnitInv, TypeOK
  <1>6. ASSUME NEW t \in Txs, BeginFails(t) PROVE Flat!Next
    BY <1>6, BeginFailsRefines DEF Flat!Next
  <1>3. CASE ExecFails
    BY <1>3, TopHasNotEnded, SilentStep DEF ExecFails, Running, UnitInv, TypeOK
  <1>4. ASSUME NEW w \in Writes, Exec(w) PROVE Flat!Next
    <2>1. Top.tx \in Txs
      BY <1>4, TopHasNotEnded DEF Exec, Running
    <2> QED BY <1>4, <2>1, ExecRefines DEF Flat!Next
  <1>5. CASE ReturnNil \/ ReturnError \/ CommitUnconfirmed \/ Unwind
    BY <1>5, LeaveRefines DEF ReturnNil, ReturnError, CommitUnconfirmed, Unwind, Running, Flat!Next
  <1> QED BY <1>1, <1>2, <1>3, <1>4, <1>5, <1>6 DEF Next

\* Whatever the nesting, errors and panics, Do keeps the promise of flat
\* transactions, each of which ends once, as a whole and with a true answer.
THEOREM Refinement == Spec => ImplementsAtomicStore
  <1> QED BY InitRefines, NextRefines, UnitInvariance, PTL DEF Spec, ImplementsAtomicStore, Flat!Spec

=============================================================================
