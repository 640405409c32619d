----------------------------- MODULE UnitOfWork -----------------------------
(***************************************************************************)
(* UnitOfWork.Do and Transactor.WithinTransaction, as one goroutine calls  *)
(* them: Do inside the function of another Do, to any depth, with the      *)
(* context of the enclosing scope (which carries its transaction) or with  *)
(* one that carries none; functions that return nil, an error or panic;    *)
(* callers that pass an inner error on or swallow it; BEGIN and statements *)
(* that fail, a COMMIT that fails or whose acknowledgement is lost, and    *)
(* contexts that end while a function runs.                                *)
(*                                                                         *)
(* PostgreSQL aborts a transaction at its first failing statement, and     *)
(* answers its COMMIT with a ROLLBACK, which the driver reports as an      *)
(* error.  database/sql watches the context a transaction was begun with:  *)
(* once it has ended, at a deadline or because the client has left, no     *)
(* statement and no COMMIT gets through, and database/sql rolls the        *)
(* transaction back of its own accord, whatever the function is doing.     *)
(***************************************************************************)
EXTENDS Naturals, Sequences

CONSTANTS
    Txs,       \* the transactions gorm may open
    Writes,    \* the rows the functions may write
    NoTx,      \* what a context without a transaction carries
    MaxDepth   \* bound: how deep calls of Do are nested

ASSUME UnitOfWorkAssumption ==
    /\ NoTx \notin Txs
    /\ MaxDepth \in Nat

VARIABLES
    stack,      \* the running calls of Do, innermost last: [tx, opened]
    xact,       \* the state of each transaction
    wrote,      \* the transaction each row was written in
    returned,   \* what the Do that opened a transaction returned
    panicking   \* a panic is unwinding the stack

vars == <<stack, xact, wrote, returned, panicking>>

\* txState in the context of a scope, and whether this call opened it.
Frame == [tx : Txs, opened : BOOLEAN]
\* "expired" until database/sql has noticed that the context ended, "undone"
\* from its rollback to the return of the call that began the transaction.
XactState == {"unused", "active", "broken", "expired", "undone", "committed", "rolledback"}
Open == {"active", "broken", "expired"}
\* Begun, and not ended by a call.
Live == Open \cup {"undone"}

TypeOK ==
    /\ stack \in Seq(Frame)
    /\ Len(stack) <= MaxDepth
    /\ xact \in [Txs -> XactState]
    /\ wrote \in [Writes -> Txs \cup {NoTx}]
    /\ returned \in [Txs -> {"none", "nil", "error", "panic"}]
    /\ panicking \in BOOLEAN

Init ==
    /\ stack = <<>>
    /\ xact = [t \in Txs |-> "unused"]
    /\ wrote = [w \in Writes |-> NoTx]
    /\ returned = [t \in Txs |-> "none"]
    /\ panicking = FALSE

Top == stack[Len(stack)]
Pop == SubSeq(stack, 1, Len(stack) - 1)
Running == stack # <<>> /\ ~panicking

-----------------------------------------------------------------------------
(* Do, up to the call of its function.                                     *)

\* (Faulty: the scope's context does not carry the transaction.)
JoinWithoutState ==
    /\ Running
    /\ Len(stack) < MaxDepth
    /\ stack' = Append(stack, [tx |-> NoTx, opened |-> FALSE])
    /\ UNCHANGED <<xact, wrote, returned, panicking>>

\* fromState(ctx) finds a transaction: the function runs in it.
Join ==
    /\ Running
    /\ Len(stack) < MaxDepth
    /\ stack' = Append(stack, [tx |-> Top.tx, opened |-> FALSE])
    /\ UNCHANGED <<xact, wrote, returned, panicking>>

\* The context carries none, at the bottom of the stack or because the caller
\* passed on a context from outside its own scope: gorm begins a transaction.
Begin(t) ==
    /\ ~panicking
    /\ Len(stack) < MaxDepth
    /\ xact[t] = "unused"
    /\ xact' = [xact EXCEPT ![t] = "active"]
    /\ stack' = Append(stack, [tx |-> t, opened |-> TRUE])
    /\ UNCHANGED <<wrote, returned, panicking>>

\* BEGIN fails, as it does with a context that has ended: Do returns the error
\* and its function is not called.  Nothing of this transaction ever is.
BeginFails(t) ==
    /\ ~panicking
    /\ Len(stack) < MaxDepth
    /\ xact[t] = "unused"
    /\ xact' = [xact EXCEPT ![t] = "rolledback"]
    /\ returned' = [returned EXCEPT ![t] = "error"]
    /\ UNCHANGED <<stack, wrote, panicking>>

-----------------------------------------------------------------------------
(* The function: statements on scope.DB() or on DB(scope.Context(), _).    *)

Exec(w) ==
    /\ Running
    /\ xact[Top.tx] = "active"
    /\ wrote[w] = NoTx
    /\ wrote' = [wrote EXCEPT ![w] = Top.tx]
    /\ UNCHANGED <<stack, xact, returned, panicking>>

\* A statement in a transaction that is not active fails too, and changes
\* nothing any more.
ExecFails ==
    /\ Running
    /\ xact[Top.tx] = "active"
    /\ xact' = [xact EXCEPT ![Top.tx] = "broken"]
    /\ UNCHANGED <<stack, wrote, returned, panicking>>

-----------------------------------------------------------------------------
(* The context t was begun with, at any time while it is open.  Contexts   *)
(* that end together end one after the other here.                         *)

ContextEnds(t) ==
    /\ xact[t] \in {"active", "broken"}
    /\ xact' = [xact EXCEPT ![t] = "expired"]
    /\ UNCHANGED <<stack, wrote, returned, panicking>>

\* database/sql's own rollback, underneath the function that runs in t.
ContextRollsBack(t) ==
    /\ xact[t] = "expired"
    /\ xact' = [xact EXCEPT ![t] = "undone"]
    /\ UNCHANGED <<stack, wrote, returned, panicking>>

-----------------------------------------------------------------------------
(* Do, from the return of its function.  Only the call that opened the     *)
(* transaction ends it.                                                    *)

\* (Faulty: every call ends the transaction it ran in.)
LeaveAlways(state, result) ==
    /\ xact' = [xact EXCEPT ![Top.tx] = state]
    /\ returned' = [returned EXCEPT ![Top.tx] = result]
    /\ stack' = Pop
    /\ UNCHANGED wrote

\* gorm's Transaction ends the transaction it began; a joined call ends none.
Leave(state, result) ==
    /\ IF Top.opened
         THEN /\ xact' = [xact EXCEPT ![Top.tx] = state]
              /\ returned' = [returned EXCEPT ![Top.tx] = result]
         ELSE UNCHANGED <<xact, returned>>
    /\ stack' = Pop
    /\ UNCHANGED wrote

\* (Faulty: the error of the COMMIT is dropped.)
ReturnNilUnchecked ==
    /\ Running
    /\ Leave(IF xact[Top.tx] = "active" THEN "committed" ELSE "rolledback", "nil")
    /\ UNCHANGED panicking

\* The function returned nil, whatever inner errors it met and swallowed, and
\* the COMMIT of a call that opened its transaction succeeds: no statement
\* failed and the context has not ended.
ReturnNil ==
    /\ Running
    /\ Top.opened => xact[Top.tx] = "active"
    /\ Leave("committed", "nil")
    /\ UNCHANGED panicking

\* The function returned an error, its own or an inner one it passes on, or
\* the COMMIT failed, as that of a transaction that is not active does.  gorm
\* rolls back then, what database/sql may have done before.
ReturnError ==
    /\ Running
    /\ Leave("rolledback", "error")
    /\ UNCHANGED panicking

\* The COMMIT is done but its acknowledgement is lost.
CommitUnconfirmed ==
    /\ Running
    /\ Top.opened
    /\ xact[Top.tx] = "active"
    /\ Leave("committed", "error")
    /\ UNCHANGED panicking

\* The function panics, and gorm's deferred rollbacks run as the stack unwinds.
Panic ==
    /\ Running
    /\ panicking' = TRUE
    /\ UNCHANGED <<stack, xact, wrote, returned>>

\* (Faulty: no deferred rollback.)
UnwindWithoutRollback ==
    /\ panicking
    /\ stack # <<>>
    /\ Leave(xact[Top.tx], "panic")
    /\ UNCHANGED panicking

Unwind ==
    /\ panicking
    /\ stack # <<>>
    /\ Leave("rolledback", "panic")
    /\ UNCHANGED panicking

\* The recovery middleware catches it, and the goroutine's request is over.
Recover ==
    /\ panicking
    /\ stack = <<>>
    /\ panicking' = FALSE
    /\ UNCHANGED <<stack, xact, wrote, returned>>

Next ==
    \/ Join
    \/ \E t \in Txs : Begin(t) \/ BeginFails(t) \/ ContextEnds(t) \/ ContextRollsBack(t)
    \/ \E w \in Writes : Exec(w)
    \/ ExecFails
    \/ ReturnNil \/ ReturnError \/ CommitUnconfirmed
    \/ Panic \/ Unwind \/ Recover

Spec == Init /\ [][Next]_vars

-----------------------------------------------------------------------------
(* Properties.                                                             *)

\* No call of Do ends a transaction that another still runs in: a nested one
\* that returns, fails or panics leaves the transaction it joined to the call
\* that began it.  Only the end of its context can take it away from under a
\* function, and never by a commit.
NotEndedUnderneath ==
    \A i \in 1..Len(stack) : xact[stack[i].tx] \in Live

\* Whenever a transaction is open, the call that began it still runs: no path
\* out of Do, a panic or the end of the context included, leaves one behind on
\* its connection.
NoneLeaks ==
    \A t \in Txs :
        xact[t] \in Open => \E i \in 1..Len(stack) : stack[i] = [tx |-> t, opened |-> TRUE]

\* Do says nil only of a transaction that is committed, even if a caller in
\* between swallowed the error of a statement or the context ended on the way,
\* and after a panic nothing of the transaction is left.
ReportsAreTrue ==
    \A t \in Txs :
        /\ returned[t] = "nil" => xact[t] = "committed"
        /\ returned[t] = "panic" => xact[t] = "rolledback"

-----------------------------------------------------------------------------
(* The inductive invariant behind them.                                    *)

\* Below a call that joined a transaction is the call that began it.
JoinedHaveOpener ==
    \A i \in 1..Len(stack) : \E j \in 1..i :
        stack[j].opened /\ stack[j].tx = stack[i].tx

\* Every transaction was begun by one call.
OneOpener ==
    \A i, j \in 1..Len(stack) :
        stack[i].opened /\ stack[j].opened /\ stack[i].tx = stack[j].tx => i = j

\* Rows are written, and calls return, for transactions that were begun.
UnusedIsFresh ==
    \A t \in Txs : 
        /\ xact[t] \in {"unused"} \cup Live => returned[t] = "none"
        /\ xact[t] = "unused" => \A w \in Writes : wrote[w] # t

UnitInv ==
    /\ TypeOK
    /\ NotEndedUnderneath
    /\ NoneLeaks
    /\ JoinedHaveOpener
    /\ OneOpener
    /\ UnusedIsFresh
    /\ ReportsAreTrue

-----------------------------------------------------------------------------
(* What the callers of other calls see.                                    *)

Visible == {w \in Writes : wrote[w] # NoTx /\ xact[wrote[w]] = "committed"}

\* Rows become visible all together, those of inner calls with those of the
\* outermost one, when no call uses their transaction any more; and stay.
WrittenTogether ==
    [][/\ Visible \subseteq Visible'
       /\ \A w \in Visible' \ Visible :
            /\ {v \in Writes : wrote'[v] = wrote'[w]} \subseteq Visible'
            /\ \A i \in 1..Len(stack') : stack'[i].tx # wrote'[w]]_vars

\* The rows each transaction wrote, and the transactions that were committed.
RowsOf == [t \in Txs |-> {w \in Writes : wrote[w] = t}]
Committed == {t \in Txs : xact[t] = "committed"}

Flat == INSTANCE AtomicStore WITH
    rows <- RowsOf, committed <- Committed, answer <- returned

\* Calls of Do nested in each other, with inner errors passed on, swallowed or
\* turned into panics, are flat transactions to everybody else: each ends once,
\* as a whole, and the answer of the outermost call is the answer to it.
ImplementsAtomicStore == Flat!Spec

=============================================================================
