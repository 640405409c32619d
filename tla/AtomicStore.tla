---------------------------- MODULE AtomicStore ----------------------------
(***************************************************************************)
(* What UnitOfWork.Do promises, with no nested call, context or broken     *)
(* transaction in sight: transactions that write rows and then end once,   *)
(* with all their rows or with none, and with an answer that says no less  *)
(* than what became of them.  UnitOfWork.tla, the model of the code, is    *)
(* shown to implement this specification.                                  *)
(***************************************************************************)
CONSTANTS
    Txs,      \* the transactions
    Writes    \* the rows they may write

VARIABLES
    rows,       \* the rows written in each transaction
    committed,  \* the transactions whose rows are in the store
    answer      \* what the caller of each transaction was told at its end

vars == <<rows, committed, answer>>

Init ==
    /\ rows = [t \in Txs |-> {}]
    /\ committed = {}
    /\ answer = [t \in Txs |-> "none"]

\* A row is written in a transaction that has not ended.
Write(t, w) ==
    /\ answer[t] = "none"
    /\ \A u \in Txs : w \notin rows[u]
    /\ rows' = [rows EXCEPT ![t] = @ \cup {w}]
    /\ UNCHANGED <<committed, answer>>

\* All the rows of t enter the store together.  Its caller is told so, or has
\* an error when the acknowledgement is lost.
Commit(t) ==
    /\ answer[t] = "none"
    /\ committed' = committed \cup {t}
    /\ \E a \in {"nil", "error"} : answer' = [answer EXCEPT ![t] = a]
    /\ UNCHANGED rows

\* None of the rows of t ever does, and its caller is never told nil.
RollBack(t) ==
    /\ answer[t] = "none"
    /\ \E a \in {"error", "panic"} : answer' = [answer EXCEPT ![t] = a]
    /\ UNCHANGED <<rows, committed>>

Next ==
    \/ \E t \in Txs, w \in Writes : Write(t, w)
    \/ \E t \in Txs : Commit(t) \/ RollBack(t)

Spec == Init /\ [][Next]_vars

=============================================================================
