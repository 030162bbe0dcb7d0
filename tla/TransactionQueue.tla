-------------------------- MODULE TransactionQueue --------------------------
(***************************************************************************)
(* The queue of pending transactions (libcv/TransactionQueue.cpp).         *)
(*                                                                         *)
(* The queue is a record q.  Every method holds m_lock while it changes    *)
(* the queue, so a method is a function from the queue before to the queue *)
(* after, or to the set of possible ones; its callers are the actions of   *)
(* module Client.  m_current is ordered by the time of import; the order   *)
(* decides which transactions a full queue drops and which come first into *)
(* a block, and is left open here: any transaction may be the last.        *)
(*                                                                         *)
(* m_future stays empty: only setFuture fills it, Block::sync calls it on  *)
(* an InvalidNonce alone, and Executive::initialize no longer throws one.  *)
(***************************************************************************)
EXTENDS NonceCheck

CONSTANTS
    GasPrice,   \* transaction -> its gasPrice()
    Limit,      \* m_limit
    NoTx        \* no transaction

ASSUME QueueAssumption ==
    /\ GasPrice \in [Tx -> Nat] /\ Limit \in Nat \ {0} /\ NoTx \notin Tx

Queue ==
    [ known   : SUBSET Tx,                  \* m_known
      dropped : SUBSET Tx,                  \* m_dropped
      current : SUBSET Tx,                  \* m_current, m_currentByHash
      byNonce : [Keys -> Tx \cup {NoTx}] ]  \* m_currentByAddressAndNonce

EmptyQueue ==
    [known |-> {}, dropped |-> {}, current |-> {}, byNonce |-> [k \in Keys |-> NoTx]]

-----------------------------------------------------------------------------
CheckWithLock(q, t, retry) ==
    CASE t \in q.known                 -> "AlreadyKnown"
      [] t \in q.dropped /\ ~retry     -> "AlreadyInChain"
      [] OTHER                         -> "Success"

(* Mutant: the index by sender and nonce keeps the transaction.            *)
RemoveWithLock_KeepNonce(q, t) ==
    IF t \notin q.current THEN q
    ELSE [q EXCEPT !.current = @ \ {t}, !.known = @ \ {t}]

RemoveWithLock(q, t) ==
    IF t \notin q.current THEN q
    ELSE [q EXCEPT !.current = @ \ {t}, !.byNonce[Key[t]] = NoTx, !.known = @ \ {t}]

InsertCurrentWithLock(q, t) ==
    IF t \in q.current THEN q
    ELSE [q EXCEPT !.current = @ \cup {t}, !.byNonce[Key[t]] = t, !.known = @ \cup {t}]

(* The last transactions leave a queue that is longer than its limit.      *)
OutOfBounds(q) ==
    LET over == Cardinality(q.current) - Limit
    IN  {out \in SUBSET q.current : Cardinality(out) = (IF over > 0 THEN over ELSE 0)}

DropOutOfBounds(q, out) ==
    [q EXCEPT !.current = @ \ out, !.known = @ \ out,
              !.byNonce = [k \in Keys |-> IF @[k] \in out THEN NoTx ELSE @[k]]]

(* Mutant: the nonce is not checked on import.                             *)
ImportResult_NoNonce(q, t, nc, number) ==
    IF IsBlockLimitOk(number, t) THEN "Success" ELSE "BlockLimitCheckFail"

(* What manageImport_WITH_LOCK answers, with the nonce check of the chain  *)
(* and the number of the last block.                                       *)
ImportResult(q, t, nc, number) ==
    LET prior == q.byNonce[Key[t]]
    IN  CASE ~IsNonceOk(nc, t)                                    -> "NonceCheckFail"
          [] IsNonceOk(nc, t) /\ ~IsBlockLimitOk(number, t)       -> "BlockLimitCheckFail"
          [] IsNonceOk(nc, t) /\ IsBlockLimitOk(number, t)
             /\ prior # NoTx /\ GasPrice[t] < GasPrice[prior]     -> "OverbidGasPrice"
          [] OTHER                                                -> "Success"

(* The queues a successful import leaves, with what it reports: onReplaced *)
(* when the transaction took the place of one with its key.                *)
ManageImportWithLock(q, t) ==
    LET prior    == q.byNonce[Key[t]]
        inserted == InsertCurrentWithLock(IF prior = NoTx THEN q ELSE RemoveWithLock(q, prior), t)
    IN  {[queue |-> DropOutOfBounds(inserted, out), replaced |-> prior # NoTx, out |-> out] :
            out \in OutOfBounds(inserted)}

(* The outcomes of import.  A transaction that is refused changes nothing. *)
Import(q, t, retry, nc, number) ==
    LET check  == CheckWithLock(q, t, retry)
        result == IF check # "Success" THEN check ELSE ImportResult(q, t, nc, number)
    IN  IF result # "Success"
        THEN {[queue |-> q, result |-> result, replaced |-> FALSE, out |-> {}]}
        ELSE {[queue |-> m.queue, result |-> result, replaced |-> m.replaced, out |-> m.out] :
                 m \in ManageImportWithLock(q, t)}

Drop(q, t) ==
    IF t \notin q.known THEN q
    ELSE RemoveWithLock([q EXCEPT !.dropped = @ \cup {t}], t)

DropGood(q, t) ==
    IF t \notin q.known THEN q ELSE RemoveWithLock(q, t)
=============================================================================
