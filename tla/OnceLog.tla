------------------------------ MODULE OnceLog ------------------------------
(***************************************************************************)
(* What a client of the node is promised, without ids, expiries, clocks,   *)
(* an index or a log on disk.  An accepted transaction joins the list of   *)
(* pending ones; the whole list becomes the next block, in the order of    *)
(* acceptance, or is lost as a whole; what is pending or in a block is not *)
(* accepted again.                                                         *)
(*                                                                         *)
(* The promise has a limit.  A process that dies in the middle of an       *)
(* insertion may leave another chain behind: the one at that moment, with  *)
(* or without the pending list as its last block.  From then on everything *)
(* may fall back to that chain, and to no other, whatever is accepted and  *)
(* committed in between.  ReceiptPool implements this log (OnceSpec there).*)
(***************************************************************************)
EXTENDS Sequences

CONSTANTS
    Txs,        \* the transactions clients may broadcast
    GenesisTx   \* the content of the first block

VARIABLES
    blocks,     \* the committed blocks, each a sequence of transactions
    pending,    \* accepted and in no block yet
    fork        \* the chain everything may fall back to: <<>>, or it alone

vars == <<blocks, pending, fork>>

In(tx, s) == \E i \in DOMAIN s : s[i] = tx

Fresh(tx) ==
    /\ ~In(tx, pending)
    /\ \A i \in DOMAIN blocks : ~In(tx, blocks[i])

Init ==
    /\ blocks = <<<<GenesisTx>>>>
    /\ pending = <<>>
    /\ fork = <<>>

\* A transaction is executed.
Accept(tx) ==
    /\ Fresh(tx)
    /\ pending' = Append(pending, tx)
    /\ UNCHANGED <<blocks, fork>>

\* The pending transactions become a block.
Commit ==
    /\ blocks' = Append(blocks, pending)
    /\ pending' = <<>>
    /\ UNCHANGED fork

\* The process dies; what is in a block stays.
Lose ==
    /\ pending' = <<>>
    /\ UNCHANGED <<blocks, fork>>

\* It dies in the middle of an insertion, for the first time.
LoseMidway ==
    /\ fork = <<>>
    /\ fork' \in {<<blocks>>, <<Append(blocks, pending)>>}
    /\ pending' = <<>>
    /\ UNCHANGED blocks

\* The operator has the chain read anew.
FallBack ==
    /\ fork # <<>>
    /\ blocks' = fork[1]
    /\ fork' \in {<<>>, fork}
    /\ pending' = <<>>

Next ==
    \/ \E tx \in Txs : Accept(tx)
    \/ Commit
    \/ Lose
    \/ LoseMidway
    \/ FallBack

Spec == Init /\ [][Next]_vars

============================================================================
