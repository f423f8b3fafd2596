---------------------------- MODULE LedgerProofs ----------------------------
(***************************************************************************)
(* Proofs about the ledger, for every set of accounts and transactions,    *)
(* every fee table and every size of pool and chain.                       *)
(*                                                                         *)
(* The first half is about what the operators of the ledger compute: the   *)
(* folds over receipts and log entries, unfolded by FoldTheory; the total  *)
(* of the balances; the types of overlay and indexing, one operation at a  *)
(* time; what one receipt more means for the comparison of overlay and     *)
(* index; and the scan of get_account_fee.                                 *)
(*                                                                         *)
(* All theorems follow from LedgerInv, which compares, for each account,   *)
(* what the index holds, what get_account shows with the pool on top, and  *)
(* what indexing the pool would leave.  One lemma per kind of transaction  *)
(* (PushOwner to PushDestroy) shows that a receipt accepted by execute_tx  *)
(* keeps the comparison; SettledStep turns that into the invariant with    *)
(* the receipt in the pool, and BlockIndexed adds the rewards.             *)
(***************************************************************************)
EXTENDS Ledger, FiniteSetTheorems, TLAPS

-----------------------------------------------------------------------------
(* The folds of Ledger as instances of FoldTheory.                         *)

OverlayOp(id, d, acc, r) == OverlayReceipt(id, acc, r)
IndexOp(c, d, batch, r) == IndexReceipt(batch, r)
LogOp(from, d, batch, e) == IndexEntry(batch, from, e)
RewardOp(c, d, sum, r) == sum + r.tx.fee
MintOp(c, d, sum, r) == IF r.tx.type = "Mint" THEN sum + r.tx.amount ELSE sum

OF == INSTANCE FoldTheory WITH op <- OverlayOp
EF == INSTANCE FoldTheory WITH op <- OverlayEntry
XF == INSTANCE FoldTheory WITH op <- IndexOp
LF == INSTANCE FoldTheory WITH op <- LogOp
RF == INSTANCE FoldTheory WITH op <- RewardOp
MF == INSTANCE FoldTheory WITH op <- MintOp

\* The five folds of the ledger, and the two over the log of a transfer.
LEMMA OverlayIsFold == \A id, acc, rs : Overlay(id, acc, rs) = OF!Fold(id, 0, acc, rs)
  BY Zenon DEF Overlay, OverlayOp, OF!Fold, FoldLeft, MapThenFoldSet, Max,
               OF!FoldLeft, OF!MapThenFoldSet, OF!Max

LEMMA IndexIsFold == \A b, rs : IndexReceipts(b, rs) = XF!Fold(0, 0, b, rs)
  BY Zenon DEF IndexReceipts, IndexOp, XF!Fold, FoldLeft, MapThenFoldSet, Max,
               XF!FoldLeft, XF!MapThenFoldSet, XF!Max

LEMMA RewardsIsFold == \A rs : Rewards(rs) = RF!Fold(0, 0, 0, rs)
  BY Zenon DEF Rewards, RewardOp, RF!Fold, FoldLeft, MapThenFoldSet, Max,
               RF!FoldLeft, RF!MapThenFoldSet, RF!Max

LEMMA MintedIsFold == \A rs : Minted(rs) = MF!Fold(0, 0, 0, rs)
  BY Zenon DEF Minted, MintOp, MF!Fold, FoldLeft, MapThenFoldSet, Max,
               MF!FoldLeft, MF!MapThenFoldSet, MF!Max

LEMMA OverlayTransferIsFold ==
  \A id, acc, r :
     OverlayTransfer(id, acc, r) =
         EF!Fold(id, r.tx.from,
                 IF r.tx.from = id THEN Adjust(acc, -(r.tx.fee + r.tx.amount)) ELSE acc, r.log)
  BY Zenon DEF OverlayTransfer, EF!Fold, FoldLeft, MapThenFoldSet, Max,
               EF!FoldLeft, EF!MapThenFoldSet, EF!Max

LEMMA IndexTransferIsFold ==
  \A b, r :
     IndexTransfer(b, r) =
         LF!Fold(r.tx.from, 0, AddBal(b, r.tx.from, -(r.tx.fee + r.tx.amount)), r.log)
  BY Zenon DEF IndexTransfer, LogOp, LF!Fold, FoldLeft, MapThenFoldSet, Max,
               LF!FoldLeft, LF!MapThenFoldSet, LF!Max

-----------------------------------------------------------------------------
(* Totals.  MapThenSumSet takes the accounts in an order of its own.       *)

Pick(t) == CHOOSE x \in t : TRUE

Partial(accs, iter, S) ==
    \A t \in S : iter[t] = IF t = {} THEN 0
                           ELSE BalanceOf(accs[Pick(t)]) + iter[t \ {Pick(t)}]

Balances(accs) == \A id \in Ids : BalanceOf(accs[id]) \in Int

LEMMA Picked == \A t : t # {} => Pick(t) \in t
  BY DEF Pick

\* A subset of the ids that loses its picked element has one element less.
LEMMA SubsetCards ==
  ASSUME NEW t \in SUBSET Ids
  PROVE  /\ IsFiniteSet(t) /\ Cardinality(t) \in Nat /\ (Cardinality(t) = 0 <=> t = {})
         /\ Cardinality(t) <= Cardinality(Ids)
         /\ t # {} => /\ t \ {Pick(t)} \in SUBSET Ids
                      /\ Cardinality(t \ {Pick(t)}) = Cardinality(t) - 1
  <1>1. IsFiniteSet(t) /\ Cardinality(t) <= Cardinality(Ids)
    BY LedgerAssumption, FS_Subset
  <1>2. Cardinality(t) \in Nat /\ (Cardinality(t) = 0 <=> t = {})
    BY <1>1, FS_CardinalityType, FS_EmptySet
  <1>3. ASSUME t # {} PROVE Cardinality(t \ {Pick(t)}) = Cardinality(t) - 1
    BY <1>1, <1>3, Picked, FS_RemoveElement
  <1> QED
    BY <1>1, <1>2, <1>3

LEMMA PartialSums ==
  ASSUME NEW accs, Balances(accs)
  PROVE  \E iter \in [SUBSET Ids -> Int] : Partial(accs, iter, SUBSET Ids)
  <1> DEFINE Small(n) == {t \in SUBSET Ids : Cardinality(t) <= n}
             Has(n) == \E iter \in [Small(n) -> Int] : Partial(accs, iter, Small(n))
             G == {n \in Nat : Has(n)}
             N == Cardinality(Ids)
  <1>0. N \in Nat /\ Small(N) = SUBSET Ids
    BY SubsetCards
  <1>1. Has(0)
    <2> DEFINE iter == [t \in Small(0) |-> 0]
    <2>1. ASSUME NEW t \in Small(0) PROVE t = {}
      <3>1. t \in SUBSET Ids /\ Cardinality(t) <= 0
        OBVIOUS
      <3>2. Cardinality(t) \in Nat /\ (Cardinality(t) = 0 <=> t = {})
        BY <3>1, SubsetCards
      <3> QED
        BY <3>1, <3>2
    <2>2. iter \in [Small(0) -> Int] /\ Partial(accs, iter, Small(0))
      BY <2>1 DEF Partial
    <2> QED
      BY <2>2
  <1>2. ASSUME NEW n \in 0 .. N - 1, Has(n)
        PROVE  Has(n + 1)
    <2>1. PICK old \in [Small(n) -> Int] : Partial(accs, old, Small(n))
      BY <1>2
    <2> DEFINE new == [t \in Small(n + 1) |->
                         IF Cardinality(t) <= n THEN old[t]
                         ELSE BalanceOf(accs[Pick(t)]) + old[t \ {Pick(t)}]]
    <2>2. ASSUME NEW t \in Small(n + 1)
          PROVE  /\ new[t] \in Int
                 /\ new[t] = IF t = {} THEN 0
                             ELSE BalanceOf(accs[Pick(t)]) + new[t \ {Pick(t)}]
      <3>1. t \in SUBSET Ids /\ Cardinality(t) \in Nat /\ Cardinality(t) <= n + 1 /\ n \in Nat
        <4>1. t \in SUBSET Ids /\ Cardinality(t) <= n + 1
          OBVIOUS
        <4>2. Cardinality(t) \in Nat
          BY <4>1, SubsetCards
        <4> QED
          BY <1>0, <4>1, <4>2
      <3>2. CASE t = {}
        <4>0. Cardinality(t) = 0
          BY <3>1, <3>2, SubsetCards
        <4>1. t \in Small(n) /\ Cardinality(t) <= n
          BY <3>1, <4>0
        <4>2. new[t] = old[t] /\ old[t] = 0
          BY <2>1, <3>2, <4>1 DEF Partial
        <4> QED
          BY <4>2, <3>2
      <3>3. CASE t # {}
        <4> DEFINE u == t \ {Pick(t)}
        <4>1. u \in SUBSET Ids /\ Cardinality(u) = Cardinality(t) - 1 /\ Pick(t) \in Ids
          BY <3>1, <3>3, SubsetCards, Picked
        <4>2. u \in Small(n) /\ u \in Small(n + 1) /\ Cardinality(u) <= n
          BY <3>1, <4>1
        <4>3. new[u] = old[u] /\ old[u] \in Int /\ BalanceOf(accs[Pick(t)]) \in Int
          BY <2>1, <4>1, <4>2 DEF Balances
        <4>4. new[t] = BalanceOf(accs[Pick(t)]) + old[u]
          <5>1. CASE Cardinality(t) <= n
            <6>1. t \in Small(n)
              BY <5>1, <3>1
            <6>2. old[t] = BalanceOf(accs[Pick(t)]) + old[u]
              BY <2>1, <6>1, <3>3 DEF Partial
            <6> QED
              BY <5>1, <6>2
          <5>2. CASE ~(Cardinality(t) <= n)
            BY <5>2
          <5> QED
            BY <5>1, <5>2
        <4> HIDE DEF new, u
        <4>5. new[t] \in Int
          BY <4>3, <4>4
        <4> QED
          BY <3>3, <4>3, <4>4, <4>5 DEF u
      <3> QED
        BY <3>2, <3>3
    <2>3. new \in [Small(n + 1) -> Int]
      BY <2>2
    <2> HIDE DEF new
    <2>4. Partial(accs, new, Small(n + 1))
      BY <2>2 DEF Partial
    <2> QED
      BY <2>3, <2>4
  <1>3. N \in G
    <2> HIDE DEF Has, N
    <2>1. 0 \in G /\ \A k \in 0 .. N - 1 : k \in G => k + 1 \in G
      BY <1>0, <1>1, <1>2
    <2> HIDE DEF G
    <2>2. \A k \in 0 .. N : k \in G
      BY <1>0, <2>1, OF!CountUp, Zenon
    <2> QED
      BY <1>0, <2>2
  <1>4. Has(N)
    BY <1>3
  <1>5. PICK iter \in [Small(N) -> Int] : Partial(accs, iter, Small(N))
    BY <1>4
  <1> HIDE DEF Small
  <1> QED
    BY <1>0, <1>5

\* Induction over the sets of accounts.
LEMMA SubsetInduction ==
  ASSUME NEW H, {} \in H,
         \A t \in SUBSET Ids : t # {} /\ t \ {Pick(t)} \in H => t \in H
  PROVE  Ids \in H
  <1> DEFINE G == {n \in Nat : \A t \in SUBSET Ids : Cardinality(t) = n => t \in H}
             N == Cardinality(Ids)
  <1>1. N \in Nat
    BY SubsetCards
  <1>2. 0 \in G
    BY SubsetCards
  <1>3. ASSUME NEW n \in 0 .. N - 1, n \in G PROVE n + 1 \in G
    <2>1. ASSUME NEW t \in SUBSET Ids, Cardinality(t) = n + 1 PROVE t \in H
      <3>1. t # {} /\ t \ {Pick(t)} \in SUBSET Ids /\ Cardinality(t \ {Pick(t)}) = n
        <4>1. n \in Nat /\ n + 1 # 0 /\ (n + 1) - 1 = n
          BY <1>1
        <4>2. t # {}
          BY <2>1, <4>1, SubsetCards
        <4> QED
          BY <2>1, <4>1, <4>2, SubsetCards
      <3>2. t \ {Pick(t)} \in H
        BY <1>3, <3>1
      <3> QED
        BY <3>1, <3>2
    <2> QED
      BY <2>1
  <1>4. \A n \in 0 .. N : n \in G
    <2> HIDE DEF G, N
    <2> QED
      BY <1>1, <1>2, <1>3, OF!CountUp, Zenon
  <1>5. N \in G
    BY <1>1, <1>4
  <1> QED
    BY <1>5

LEMMA TotalRun ==
  ASSUME NEW accs, Balances(accs)
  PROVE  \E iter : Partial(accs, iter, SUBSET Ids) /\ Total(accs) = iter[Ids]
  <1>1. \E iter : iter = [t \in SUBSET Ids |->
            IF t = {} THEN 0 ELSE BalanceOf(accs[Pick(t)]) + iter[t \ {Pick(t)}]]
    <2>1. PICK iter \in [SUBSET Ids -> Int] : Partial(accs, iter, SUBSET Ids)
      BY PartialSums
    <2>2. iter = [t \in SUBSET Ids |->
            IF t = {} THEN 0 ELSE BalanceOf(accs[Pick(t)]) + iter[t \ {Pick(t)}]]
      BY <2>1 DEF Partial
    <2> QED
      BY <2>2
  <1>2. PICK iter :
          /\ iter = [t \in SUBSET Ids |->
                IF t = {} THEN 0 ELSE BalanceOf(accs[Pick(t)]) + iter[t \ {Pick(t)}]]
          /\ Total(accs) = iter[Ids]
    BY <1>1, Zenon DEF Total, MapThenSumSet, MapThenFoldSet, Pick
  <1>3. Partial(accs, iter, SUBSET Ids)
    BY <1>2 DEF Partial
  <1> QED
    BY <1>2, <1>3

\* Changing one account changes the total by as much.
LEMMA TotalChange ==
  ASSUME NEW f, NEW g, NEW x \in Ids, Balances(f), Balances(g),
         \A id \in Ids : id # x => BalanceOf(g[id]) = BalanceOf(f[id])
  PROVE  /\ Total(f) \in Int /\ Total(g) \in Int
         /\ Total(g) - Total(f) = BalanceOf(g[x]) - BalanceOf(f[x])
  <1>1. PICK p : Partial(f, p, SUBSET Ids) /\ Total(f) = p[Ids]
    BY TotalRun
  <1>2. PICK q : Partial(g, q, SUBSET Ids) /\ Total(g) = q[Ids]
    BY TotalRun
  <1> DEFINE H == {t \in SUBSET Ids :
                     /\ p[t] \in Int /\ q[t] \in Int
                     /\ q[t] - p[t] = IF x \in t THEN BalanceOf(g[x]) - BalanceOf(f[x]) ELSE 0}
  <1>3. {} \in H
    <2>1. p[{}] = 0 /\ q[{}] = 0
      BY <1>1, <1>2 DEF Partial
    <2> QED
      BY <2>1
  <1>4. ASSUME NEW t \in SUBSET Ids, t # {}, t \ {Pick(t)} \in H
        PROVE  t \in H
    <2> DEFINE y == Pick(t)
               u == t \ {y}
    <2>1. p[t] = BalanceOf(f[y]) + p[u] /\ q[t] = BalanceOf(g[y]) + q[u]
      BY <1>1, <1>2, <1>4 DEF Partial
    <2>2. y \in t /\ y \in Ids /\ BalanceOf(f[y]) \in Int /\ BalanceOf(g[y]) \in Int
      BY <1>4, Picked DEF Balances
    <2>3. /\ p[u] \in Int /\ q[u] \in Int
          /\ q[u] - p[u] = IF x \in u THEN BalanceOf(g[x]) - BalanceOf(f[x]) ELSE 0
      BY <1>4
    <2>4. BalanceOf(f[x]) \in Int /\ BalanceOf(g[x]) \in Int
      BY DEF Balances
    <2>5. CASE x = y
      BY <2>1, <2>2, <2>3, <2>4, <2>5
    <2>6. CASE x # y
      <3>1. x \in t <=> x \in u
        BY <2>6
      <3>2. BalanceOf(g[y]) = BalanceOf(f[y])
        BY <2>2, <2>6
      <3> HIDE DEF y, u
      <3> QED
        BY <2>1, <2>2, <2>3, <2>4, <3>1, <3>2
    <2> QED
      BY <2>5, <2>6
  <1>5. Ids \in H
    <2> HIDE DEF H
    <2> QED
      BY <1>3, <1>4, SubsetInduction
  <1>6. /\ p[Ids] \in Int /\ q[Ids] \in Int
        /\ q[Ids] - p[Ids] = BalanceOf(g[x]) - BalanceOf(f[x])
    BY <1>5
  <1> QED
    BY <1>1, <1>2, <1>6

LEMMA TotalNat ==
  ASSUME NEW f, \A id \in Ids : BalanceOf(f[id]) \in Nat
  PROVE  Total(f) \in Nat
  <1>0. Balances(f)
    BY DEF Balances
  <1>1. PICK p : Partial(f, p, SUBSET Ids) /\ Total(f) = p[Ids]
    BY <1>0, TotalRun
  <1> DEFINE H == {t \in SUBSET Ids : p[t] \in Nat}
  <1>2. {} \in H
    <2>1. p[{}] = 0
      BY <1>1 DEF Partial
    <2> QED
      BY <2>1
  <1>3. ASSUME NEW t \in SUBSET Ids, t # {}, t \ {Pick(t)} \in H
        PROVE  t \in H
    <2>1. p[t] = BalanceOf(f[Pick(t)]) + p[t \ {Pick(t)}]
      BY <1>1, <1>3 DEF Partial
    <2>2. BalanceOf(f[Pick(t)]) \in Nat
      BY <1>3, Picked
    <2> QED
      BY <2>1, <2>2, <1>3
  <1>4. Ids \in H
    <2> HIDE DEF H
    <2> QED
      BY <1>2, <1>3, SubsetInduction
  <1> QED
    BY <1>1, <1>4

\* No account holds more than the total.
LEMMA TotalBounds ==
  ASSUME NEW f, NEW x \in Ids, \A id \in Ids : BalanceOf(f[id]) \in Nat
  PROVE  Total(f) \in Nat /\ BalanceOf(f[x]) <= Total(f)
  <1> DEFINE g == [id \in Ids |-> IF id = x THEN None ELSE f[id]]
  <1>1. BalanceOf(g[x]) = 0 /\ \A id \in Ids : id # x => BalanceOf(g[id]) = BalanceOf(f[id])
    BY DEF BalanceOf
  <1> HIDE DEF g
  <1>2. \A id \in Ids : BalanceOf(g[id]) \in Nat
    BY <1>1
  <1>3. Total(f) \in Nat /\ Total(g) \in Nat
    BY <1>2, TotalNat
  <1>4. Balances(f) /\ Balances(g)
    BY <1>2 DEF Balances
  <1>5. Total(g) - Total(f) = BalanceOf(g[x]) - BalanceOf(f[x])
    BY <1>1, <1>4, TotalChange
  <1>6. BalanceOf(f[x]) \in Nat
    OBVIOUS
  <1> QED
    BY <1>1, <1>3, <1>5, <1>6

-----------------------------------------------------------------------------
(* Types.                                                                  *)

MaybeAccount == Account \cup {None}

Batches == [accounts : [Ids -> MaybeAccount], supply : Int, owner : Ids, ok : BOOLEAN]

\* new is old with another balance.
WithBalance(new, old, bal) ==
    /\ new \in Account
    /\ new.balance = bal /\ new.destroyed = old.destroyed
    /\ new.script = old.script /\ new.perms = old.perms

LEMMA MaxNat == MAX_AMOUNT \in Nat
  BY LedgerAssumption

\* What the types of transactions say of their fields.
LEMMA TxFields ==
  ASSUME NEW tx \in Tx
  PROVE  /\ tx.type \in {"Owner", "Mint", "Create", "Update", "Transfer"}
         /\ tx.fee \in Int
         /\ tx.type = "Owner" => tx.wallet \in Ids
         /\ tx.type = "Mint" => tx.to \in Ids /\ tx.amount \in Int
         /\ tx.type = "Create" => tx.creator \in Ids /\ tx.account \in NewAccount
         /\ tx.type = "Update" => /\ tx.account_id \in Ids
                                  /\ tx.new_script \in Script \cup {None}
                                  /\ tx.new_permissions \in Permissions \cup {None}
         /\ tx.type = "Transfer" => /\ tx.from \in Ids /\ tx.arg_to \in Ids
                                    /\ tx.amount \in Int /\ tx.arg_amount \in Int
  <1>1. Amount \subseteq Int
    BY LedgerAssumption DEF Amount
  <1>2. CASE tx \in OwnerTxs
    BY <1>1, <1>2 DEF OwnerTxs
  <1>3. CASE tx \in MintTxs
    BY <1>1, <1>3 DEF MintTxs
  <1>4. CASE tx \in CreateTxs
    BY <1>1, <1>4 DEF CreateTxs
  <1>5. CASE tx \in UpdateTxs
    BY <1>1, <1>5 DEF UpdateTxs
  <1>6. CASE tx \in TransferTxs
    BY <1>1, <1>6 DEF TransferTxs
  <1> QED
    BY <1>2, <1>3, <1>4, <1>5, <1>6 DEF Tx

LEMMA EntryFields ==
  ASSUME NEW e \in LogEntry
  PROVE  /\ e.to \in Ids /\ e.entry \in {"Transfer", "Destroy"}
         /\ e.entry = "Transfer" => e.amount \in Int
  BY DEF LogEntry

LEMMA AccountFields ==
  ASSUME NEW acc \in Account
  PROVE  /\ acc # None /\ acc.balance \in Int /\ acc.script \in Script
         /\ acc.perms \in Permissions /\ acc.destroyed \in BOOLEAN
         /\ BalanceOf(acc) = acc.balance
  BY LedgerAssumption DEF Account, BalanceOf

\* A checked sum on a balance gives an account with the new balance, or None.
LEMMA AdjustFacts ==
  ASSUME NEW acc \in Account, NEW amount \in Int
  PROVE  /\ Adjust(acc, amount) \in MaybeAccount
         /\ Adjust(acc, amount) # None <=> InRange(acc.balance + amount)
         /\ InRange(acc.balance + amount) =>
               WithBalance(Adjust(acc, amount), acc, acc.balance + amount)
  <1> DEFINE new == Credited(acc, amount)
  <1>1. WithBalance(new, acc, acc.balance + amount)
    BY DEF WithBalance, Account, Credited
  <1>2. new \in Account /\ new # None
    BY <1>1, AccountFields DEF WithBalance
  <1> HIDE DEF new
  <1>3. Adjust(acc, amount) = IF InRange(acc.balance + amount) THEN new ELSE None
    BY DEF Adjust, new
  <1> QED
    BY <1>1, <1>2, <1>3 DEF MaybeAccount

LEMMA GoneFacts ==
  ASSUME NEW acc \in Account
  PROVE  /\ Gone(acc) \in Account /\ Gone(acc).destroyed = TRUE /\ Gone(acc).balance = 0
         /\ Gone(acc).script = acc.script /\ Gone(acc).perms = acc.perms
  <1> DEFINE mid == [acc EXCEPT !.destroyed = TRUE]
             new == [mid EXCEPT !.balance = 0]
  <1>1. /\ mid \in Account /\ mid.destroyed = TRUE
        /\ mid.script = acc.script /\ mid.perms = acc.perms
    BY DEF Account
  <1>2. Gone(acc) = new
    BY Zenon DEF Gone
  <1> HIDE DEF mid
  <1>3. /\ new \in Account /\ new.balance = 0 /\ new.destroyed = mid.destroyed
        /\ new.script = mid.script /\ new.perms = mid.perms
    BY <1>1 DEF Account
  <1> HIDE DEF new
  <1> QED
    BY <1>1, <1>2, <1>3

LEMMA RenewedFacts ==
  ASSUME NEW acc \in Account, NEW tx,
         tx.new_script \in Script \cup {None}, tx.new_permissions \in Permissions \cup {None}
  PROVE  /\ Renewed(acc, tx) \in Account
         /\ Renewed(acc, tx).balance = acc.balance
         /\ Renewed(acc, tx).destroyed = acc.destroyed
         /\ Renewed(acc, tx).script =
               IF tx.new_script = None THEN acc.script ELSE tx.new_script
         /\ Renewed(acc, tx).perms =
               IF tx.new_permissions = None THEN acc.perms ELSE tx.new_permissions
  <1> DEFINE s == IF tx.new_script = None THEN acc.script ELSE tx.new_script
             p == IF tx.new_permissions = None THEN acc.perms ELSE tx.new_permissions
             mid == [acc EXCEPT !.script = s]
             new == [mid EXCEPT !.perms = p]
  <1>1. s \in Script /\ p \in Permissions
    BY AccountFields
  <1>2. Renewed(acc, tx) = new
    <2>1. mid.perms = acc.perms
      BY DEF Account
    <2> QED
      BY <2>1 DEF Renewed
  <1> HIDE DEF s, p
  <1>3. /\ mid \in Account /\ mid.script = s /\ mid.balance = acc.balance
        /\ mid.destroyed = acc.destroyed
    BY <1>1 DEF Account
  <1> HIDE DEF mid
  <1>4. /\ new \in Account /\ new.script = mid.script /\ new.balance = mid.balance
        /\ new.destroyed = mid.destroyed /\ new.perms = p
    BY <1>1, <1>3 DEF Account
  <1> HIDE DEF new
  <1> QED
    BY <1>2, <1>3, <1>4 DEF s, p

LEMMA OverlayEntryType ==
  ASSUME NEW id, NEW from, NEW acc \in MaybeAccount, NEW e \in LogEntry
  PROVE  OverlayEntry(id, from, acc, e) \in MaybeAccount
  <1>1. CASE acc = None
    BY <1>1 DEF OverlayEntry
  <1>2. CASE acc # None /\ e.entry = "Transfer"
    <2>1. acc \in Account /\ e.amount \in Int
      BY <1>2, EntryFields DEF MaybeAccount
    <2>2. Adjust(acc, e.amount) \in MaybeAccount
      BY <2>1, AdjustFacts
    <2>3. OverlayEntry(id, from, acc, e) \in {acc, Adjust(acc, e.amount)}
      BY <1>2 DEF OverlayEntry
    <2> QED
      BY <2>2, <2>3
  <1>3. CASE acc # None /\ e.entry = "Destroy"
    <2>1. acc \in Account
      BY <1>3 DEF MaybeAccount
    <2>2. Gone(acc) \in MaybeAccount
      BY <2>1, GoneFacts DEF MaybeAccount
    <2>3. OverlayEntry(id, from, acc, e) \in {acc, Gone(acc)}
      BY <1>3 DEF OverlayEntry
    <2> QED
      BY <2>2, <2>3
  <1> QED
    BY <1>1, <1>2, <1>3, EntryFields

\* The fold over a log, one entry at a time.
LEMMA OverlayLog ==
  ASSUME NEW id, NEW from, NEW acc \in MaybeAccount, NEW log \in Seq(LogEntry)
  PROVE  /\ EF!Fold(id, from, acc, log) \in MaybeAccount
         /\ EF!Fold(id, from, acc, <<>>) = acc
         /\ \A e \in LogEntry : EF!Fold(id, from, acc, Append(log, e)) =
                                   OverlayEntry(id, from, EF!Fold(id, from, acc, log), e)
  <1>1. EF!Closed(id, from, MaybeAccount, LogEntry)
    BY OverlayEntryType DEF EF!Closed
  <1>2. EF!Unfolds(id, from, MaybeAccount, LogEntry, acc, log)
    BY <1>1, EF!FoldLeftUnfolds, Zenon
  <1> QED
    BY <1>2 DEF EF!Unfolds

\* The overlay of one receipt leaves an account or None.
LEMMA OverlayReceiptType ==
  ASSUME NEW id \in Ids, NEW acc \in MaybeAccount, NEW r \in Receipts
  PROVE  OverlayReceipt(id, acc, r) \in MaybeAccount
  <1>0. r.tx \in Tx /\ r.log \in Seq(LogEntry)
    BY DEF Receipts
  <1> DEFINE tx == r.tx
  <1>1. /\ tx.type \in {"Owner", "Mint", "Create", "Update", "Transfer"} /\ tx.fee \in Int
        /\ tx.type = "Mint" => tx.amount \in Int
        /\ tx.type = "Create" => tx.account \in NewAccount
        /\ tx.type = "Update" => /\ tx.new_script \in Script \cup {None}
                                 /\ tx.new_permissions \in Permissions \cup {None}
        /\ tx.type = "Transfer" => tx.amount \in Int
    BY <1>0, TxFields
  <1>2. CASE acc = None
    BY <1>2 DEF OverlayReceipt, MaybeAccount
  <1>3. CASE acc # None
    <2>0. acc \in Account
      BY <1>3 DEF MaybeAccount
    <2>1. \A n \in Int : Adjust(acc, n) \in MaybeAccount
      BY <2>0, AdjustFacts
    <2>2. CASE tx.type = "Owner"
      BY <1>3, <2>2 DEF OverlayReceipt
    <2>3. CASE tx.type = "Mint"
      BY <1>1, <1>3, <2>1, <2>3 DEF OverlayReceipt
    <2>4. CASE tx.type = "Create"
      <3>1. -(tx.account.balance + tx.fee) \in Int
        BY <1>1, <2>4, LedgerAssumption DEF NewAccount, Amount
      <3>2. OverlayReceipt(id, acc, r) \in {acc, Adjust(acc, -(tx.account.balance + tx.fee))}
        BY <1>3, <2>4 DEF OverlayReceipt
      <3> QED
        BY <2>1, <3>1, <3>2
    <2>5. CASE tx.type = "Update"
      <3>1. OverlayReceipt(id, acc, r) = OverlayUpdate(id, acc, tx)
        BY <1>3, <2>5 DEF OverlayReceipt
      <3> DEFINE charged == IF tx.account_id = id THEN Adjust(acc, -tx.fee) ELSE acc
      <3>2. charged \in MaybeAccount
        BY <1>1, <2>1
      <3>3. OverlayUpdate(id, acc, tx) = IF charged = None THEN None ELSE Renewed(charged, tx)
        BY DEF OverlayUpdate
      <3> HIDE DEF charged
      <3>4. CASE charged = None
        BY <3>1, <3>3, <3>4 DEF MaybeAccount
      <3>5. CASE charged # None
        <4>1. charged \in Account
          BY <3>2, <3>5 DEF MaybeAccount
        <4>2. Renewed(charged, tx) \in Account
          BY <1>1, <2>5, <4>1, RenewedFacts
        <4> QED
          BY <3>1, <3>3, <3>5, <4>2 DEF MaybeAccount
      <3> QED
        BY <3>4, <3>5
    <2>6. CASE tx.type = "Transfer"
      <3>1. OverlayReceipt(id, acc, r) = OverlayTransfer(id, acc, r)
        BY <1>3, <2>6 DEF OverlayReceipt
      <3> DEFINE debited == IF tx.from = id THEN Adjust(acc, -(tx.fee + tx.amount)) ELSE acc
      <3>2. debited \in MaybeAccount
        BY <1>1, <2>1, <2>6
      <3>3. OverlayTransfer(id, acc, r) = EF!Fold(id, tx.from, debited, r.log)
        BY OverlayTransferIsFold, Zenon
      <3> HIDE DEF debited
      <3> QED
        BY <1>0, <3>1, <3>2, <3>3, OverlayLog
    <2> QED
      BY <1>1, <2>2, <2>3, <2>4, <2>5, <2>6
  <1> QED
    BY <1>2, <1>3

\* get_account with one receipt more.
LEMMA OverlaySteps ==
  ASSUME NEW id \in Ids, NEW acc \in MaybeAccount, NEW rs \in Seq(Receipts)
  PROVE  /\ Overlay(id, acc, rs) \in MaybeAccount
         /\ Overlay(id, acc, <<>>) = acc
         /\ \A r \in Receipts : Overlay(id, acc, Append(rs, r)) =
                                   OverlayReceipt(id, Overlay(id, acc, rs), r)
  <1>1. OF!Closed(id, 0, MaybeAccount, Receipts)
    BY OverlayReceiptType DEF OF!Closed, OverlayOp
  <1>2. OF!Unfolds(id, 0, MaybeAccount, Receipts, acc, rs)
    BY <1>1, OF!FoldLeftUnfolds, Zenon
  <1> QED
    BY <1>2, OverlayIsFold DEF OF!Unfolds, OverlayOp

\* What the types of batches say of their fields.
LEMMA BatchFields ==
  ASSUME NEW b \in Batches
  PROVE  /\ b.accounts \in [Ids -> MaybeAccount] /\ b.supply \in Int /\ b.owner \in Ids
         /\ b.ok \in BOOLEAN
  BY DEF Batches

\* A batch with one account replaced.
LEMMA PutAccount ==
  ASSUME NEW b \in Batches, NEW id \in Ids, NEW acc \in MaybeAccount
  PROVE  LET c == [b EXCEPT !.accounts[id] = acc]
         IN  /\ c \in Batches /\ c.supply = b.supply /\ c.owner = b.owner /\ c.ok = b.ok
             /\ c.accounts[id] = acc
             /\ \A x \in Ids : x # id => c.accounts[x] = b.accounts[x]
  BY DEF Batches

LEMMA NotOk ==
  ASSUME NEW b \in Batches
  PROVE  LET c == [b EXCEPT !.ok = FALSE]
         IN  c \in Batches /\ ~c.ok /\ c.accounts = b.accounts
             /\ c.supply = b.supply /\ c.owner = b.owner
  BY DEF Batches

CanAdd(b, id, amount) ==
    b.ok /\ b.accounts[id] # None /\ InRange(b.accounts[id].balance + amount)

\* A credit changes one balance, or fails and changes nothing.
LEMMA AddBalFacts ==
  ASSUME NEW b \in Batches, NEW id \in Ids, NEW amount \in Int
  PROVE  /\ AddBal(b, id, amount) \in Batches
         /\ AddBal(b, id, amount).supply = b.supply /\ AddBal(b, id, amount).owner = b.owner
         /\ AddBal(b, id, amount).ok <=> CanAdd(b, id, amount)
         /\ \A x \in Ids : x # id => AddBal(b, id, amount).accounts[x] = b.accounts[x]
         /\ CanAdd(b, id, amount) =>
               WithBalance(AddBal(b, id, amount).accounts[id], b.accounts[id],
                           b.accounts[id].balance + amount)
         /\ ~CanAdd(b, id, amount) => AddBal(b, id, amount).accounts = b.accounts
  <1>1. CASE CanAdd(b, id, amount)
    <2> DEFINE old == b.accounts[id]
               new == Credited(old, amount)
               c == [b EXCEPT !.accounts[id] = new]
    <2>1. AddBal(b, id, amount) = c
      BY <1>1 DEF AddBal, CanAdd
    <2>2. old \in Account
      BY <1>1, BatchFields DEF CanAdd, MaybeAccount
    <2> HIDE DEF old
    <2>3. WithBalance(new, old, old.balance + amount)
      BY <2>2 DEF WithBalance, Account, Credited
    <2>4. new \in MaybeAccount
      BY <2>3 DEF WithBalance, MaybeAccount
    <2> HIDE DEF new
    <2>5. /\ c \in Batches /\ c.supply = b.supply /\ c.owner = b.owner /\ c.ok = b.ok
          /\ c.accounts[id] = new
          /\ \A x \in Ids : x # id => c.accounts[x] = b.accounts[x]
      BY <2>4, PutAccount
    <2>6. c.ok
      BY <1>1, <2>5 DEF CanAdd
    <2> HIDE DEF c
    <2> QED
      BY <1>1, <2>1, <2>3, <2>5, <2>6 DEF old
  <1>2. CASE ~CanAdd(b, id, amount)
    <2> DEFINE c == [b EXCEPT !.ok = FALSE]
    <2>1. AddBal(b, id, amount) = c
      BY <1>2 DEF AddBal, CanAdd
    <2>2. c \in Batches /\ ~c.ok /\ c.accounts = b.accounts
          /\ c.supply = b.supply /\ c.owner = b.owner
      BY NotOk
    <2> HIDE DEF c
    <2> QED
      BY <1>2, <2>1, <2>2
  <1> QED
    BY <1>1, <1>2

LEMMA AddSupplyFacts ==
  ASSUME NEW b \in Batches, NEW amount \in Int
  PROVE  /\ AddTokenSupply(b, amount) \in Batches
         /\ AddTokenSupply(b, amount).accounts = b.accounts
         /\ AddTokenSupply(b, amount).owner = b.owner
         /\ AddTokenSupply(b, amount).ok <=> b.ok /\ InRange(b.supply + amount)
         /\ InRange(b.supply + amount) => AddTokenSupply(b, amount).supply = b.supply + amount
  <1>1. CASE InRange(b.supply + amount)
    <2> DEFINE c == [b EXCEPT !.supply = @ + amount]
    <2>1. AddTokenSupply(b, amount) = c
      BY <1>1 DEF AddTokenSupply
    <2>2. c \in Batches /\ c.accounts = b.accounts /\ c.owner = b.owner /\ c.ok = b.ok
          /\ c.supply = b.supply + amount
      BY DEF Batches
    <2> HIDE DEF c
    <2> QED
      BY <1>1, <2>1, <2>2
  <1>2. CASE ~InRange(b.supply + amount)
    <2> DEFINE c == [b EXCEPT !.ok = FALSE]
    <2>1. AddTokenSupply(b, amount) = c
      BY <1>2 DEF AddTokenSupply
    <2>2. c \in Batches /\ ~c.ok /\ c.accounts = b.accounts /\ c.owner = b.owner
      BY NotOk
    <2> HIDE DEF c
    <2> QED
      BY <1>2, <2>1, <2>2
  <1> QED
    BY <1>1, <1>2

\* The batches in which a debit of from has succeeded, or anything has failed.
Debited(from) == {b \in Batches : b.ok => b.accounts[from] # None}

LEMMA IndexDestroyFacts ==
  ASSUME NEW from \in Ids, NEW to \in Ids, NEW b \in Debited(from)
  PROVE  /\ IndexDestroy(b, from, to) \in Debited(from)
         /\ b.ok /\ to # from =>
               LET c == IndexDestroy(b, from, to)
                   bal == b.accounts[from].balance
               IN  /\ c.supply = b.supply /\ c.owner = b.owner
                   /\ c.accounts[from] = Gone(b.accounts[from])
                   /\ c.ok <=> b.accounts[to] # None /\ InRange(b.accounts[to].balance + bal)
                   /\ c.ok => WithBalance(c.accounts[to], b.accounts[to],
                                          b.accounts[to].balance + bal)
                   /\ \A x \in Ids \ {from, to} : c.accounts[x] = b.accounts[x]
  <1>0. b \in Batches /\ (b.ok => b.accounts[from] # None)
    BY DEF Debited
  <1>1. CASE ~b.ok
    BY <1>1 DEF IndexDestroy
  <1>2. CASE b.ok
    <2> DEFINE old == b.accounts[from]
               bal == old.balance
               d == [b EXCEPT !.accounts[from] = Gone(old)]
               c == AddBal(d, to, bal)
    <2>1. IndexDestroy(b, from, to) = c
      BY <1>2 DEF IndexDestroy
    <2>2. old \in Account /\ bal \in Int
      BY <1>0, <1>2, BatchFields, AccountFields DEF MaybeAccount
    <2>3. Gone(old) \in MaybeAccount /\ Gone(old) # None
      BY <2>2, GoneFacts, AccountFields DEF MaybeAccount
    <2> HIDE DEF old
    <2>4. /\ d \in Batches /\ d.supply = b.supply /\ d.owner = b.owner /\ d.ok = b.ok
          /\ d.accounts[from] = Gone(old)
          /\ \A x \in Ids : x # from => d.accounts[x] = b.accounts[x]
      BY <1>0, <2>3, PutAccount
    <2> HIDE DEF d, bal
    <2>5. /\ c \in Batches /\ c.supply = d.supply /\ c.owner = d.owner
          /\ c.ok <=> CanAdd(d, to, bal)
          /\ \A x \in Ids : x # to => c.accounts[x] = d.accounts[x]
          /\ CanAdd(d, to, bal) => WithBalance(c.accounts[to], d.accounts[to],
                                               d.accounts[to].balance + bal)
      BY <2>2, <2>4, AddBalFacts
    <2>6. c.ok => c.accounts[from] # None
      <3>1. CASE to = from
        BY <2>5, <3>1, AccountFields DEF WithBalance
      <3>2. CASE to # from
        BY <2>3, <2>4, <2>5, <3>2
      <3> QED
        BY <3>1, <3>2
    <2> HIDE DEF c
    <2>7. c \in Debited(from)
      BY <2>5, <2>6 DEF Debited
    <2>8. ASSUME to # from
          PROVE  /\ c.supply = b.supply /\ c.owner = b.owner
                 /\ c.accounts[from] = Gone(old)
                 /\ c.ok <=> b.accounts[to] # None /\ InRange(b.accounts[to].balance + bal)
                 /\ c.ok => WithBalance(c.accounts[to], b.accounts[to],
                                        b.accounts[to].balance + bal)
                 /\ \A x \in Ids \ {from, to} : c.accounts[x] = b.accounts[x]
      BY <1>2, <2>4, <2>5, <2>8 DEF CanAdd
    <2> QED
      BY <2>1, <2>7, <2>8 DEF old, bal
  <1> QED
    BY <1>1, <1>2

LEMMA IndexEntryType ==
  ASSUME NEW from \in Ids, NEW b \in Debited(from), NEW e \in LogEntry
  PROVE  IndexEntry(b, from, e) \in Debited(from)
  <1>0. b \in Batches /\ (b.ok => b.accounts[from] # None) /\ e.to \in Ids
    BY EntryFields DEF Debited
  <1>1. CASE e.entry = "Transfer"
    <2> DEFINE c == AddBal(b, e.to, e.amount)
    <2>0. e.amount \in Int
      BY <1>1, EntryFields
    <2>1. /\ c \in Batches
          /\ c.ok <=> CanAdd(b, e.to, e.amount)
          /\ \A x \in Ids : x # e.to => c.accounts[x] = b.accounts[x]
          /\ CanAdd(b, e.to, e.amount) =>
                WithBalance(c.accounts[e.to], b.accounts[e.to],
                            b.accounts[e.to].balance + e.amount)
      BY <1>0, <2>0, AddBalFacts
    <2> HIDE DEF c
    <2>2. c.ok => c.accounts[from] # None
      <3>1. CASE e.to = from
        BY <2>1, <3>1, AccountFields DEF WithBalance
      <3>2. CASE e.to # from
        BY <1>0, <2>1, <3>2 DEF CanAdd
      <3> QED
        BY <3>1, <3>2
    <2>3. IndexEntry(b, from, e) = c
      BY <1>1 DEF IndexEntry, c
    <2> QED
      BY <2>1, <2>2, <2>3 DEF Debited
  <1>2. CASE e.entry = "Destroy"
    <2>1. IndexEntry(b, from, e) = IndexDestroy(b, from, e.to)
      BY <1>2 DEF IndexEntry
    <2> QED
      BY <1>0, <2>1, IndexDestroyFacts
  <1> QED
    BY <1>1, <1>2, EntryFields

LEMMA IndexLog ==
  ASSUME NEW from \in Ids, NEW b \in Debited(from), NEW log \in Seq(LogEntry)
  PROVE  /\ LF!Fold(from, 0, b, log) \in Debited(from)
         /\ LF!Fold(from, 0, b, <<>>) = b
         /\ \A e \in LogEntry : LF!Fold(from, 0, b, Append(log, e)) =
                                   IndexEntry(LF!Fold(from, 0, b, log), from, e)
  <1>1. LF!Closed(from, 0, Debited(from), LogEntry)
    BY IndexEntryType DEF LF!Closed, LogOp
  <1>2. LF!Unfolds(from, 0, Debited(from), LogEntry, b, log)
    BY <1>1, LF!FoldLeftUnfolds, Zenon
  <1> QED
    BY <1>2 DEF LF!Unfolds, LogOp

LEMMA DebitType ==
  ASSUME NEW b \in Batches, NEW from \in Ids, NEW amount \in Int
  PROVE  AddBal(b, from, amount) \in Debited(from)
  <1> DEFINE c == AddBal(b, from, amount)
  <1>1. /\ c \in Batches /\ (c.ok <=> CanAdd(b, from, amount))
        /\ CanAdd(b, from, amount) => WithBalance(c.accounts[from], b.accounts[from],
                                                  b.accounts[from].balance + amount)
    BY AddBalFacts
  <1> HIDE DEF c
  <1>2. c.ok => c.accounts[from] # None
    BY <1>1, AccountFields DEF WithBalance
  <1>3. c \in Debited(from)
    BY <1>1, <1>2 DEF Debited
  <1> QED
    BY <1>3 DEF c

LEMMA NewAccountFields ==
  ASSUME NEW a \in NewAccount
  PROVE  /\ a.id \in Ids /\ a.balance \in Int
         /\ LET acc == [balance |-> a.balance, script |-> a.script, perms |-> a.perms,
                        destroyed |-> a.destroyed]
            IN  /\ acc \in Account /\ acc.balance = a.balance /\ acc.perms = a.perms
                /\ acc.destroyed = a.destroyed
  <1>1. Amount \subseteq Int
    BY LedgerAssumption DEF Amount
  <1> QED
    BY <1>1 DEF NewAccount, Account

LEMMA IndexCreateFacts ==
  ASSUME NEW b \in Batches, NEW tx \in Tx, tx.type = "Create", tx.creator # tx.account.id
  PROVE  LET c == IndexCreate(b, tx)
             paid == -(tx.fee + tx.account.balance)
             id == tx.account.id
         IN  /\ c \in Batches /\ c.supply = b.supply /\ c.owner = b.owner
             /\ c.ok <=> CanAdd(b, tx.creator, paid)
             /\ c.accounts[id] # None /\ c.accounts[id].balance = tx.account.balance
             /\ c.accounts[id].perms = tx.account.perms
             /\ \A x \in Ids \ {tx.creator, id} : c.accounts[x] = b.accounts[x]
             /\ c.ok => WithBalance(c.accounts[tx.creator], b.accounts[tx.creator],
                                    b.accounts[tx.creator].balance + paid)
  <1> DEFINE c == IndexCreate(b, tx)
             amt == -(tx.fee + tx.account.balance)
             id == tx.account.id
             paid == AddBal(b, tx.creator, amt)
             acc == [balance |-> tx.account.balance, script |-> tx.account.script,
                     perms |-> tx.account.perms, destroyed |-> tx.account.destroyed]
  <1>1. tx.fee \in Int /\ tx.creator \in Ids /\ tx.account \in NewAccount
    BY TxFields
  <1>2. id \in Ids /\ acc \in Account /\ acc.balance = tx.account.balance
        /\ acc.perms = tx.account.perms /\ tx.account.balance \in Int
    BY <1>1, NewAccountFields
  <1>3. amt \in Int
    BY <1>1, <1>2
  <1>4. c = [paid EXCEPT !.accounts[id] = acc]
    BY DEF IndexCreate
  <1> HIDE DEF acc, id, amt
  <1>5. /\ paid \in Batches /\ paid.supply = b.supply /\ paid.owner = b.owner
        /\ paid.ok <=> CanAdd(b, tx.creator, amt)
        /\ \A x \in Ids : x # tx.creator => paid.accounts[x] = b.accounts[x]
        /\ CanAdd(b, tx.creator, amt) =>
              WithBalance(paid.accounts[tx.creator], b.accounts[tx.creator],
                          b.accounts[tx.creator].balance + amt)
    BY <1>1, <1>3, AddBalFacts
  <1> HIDE DEF paid, c
  <1>6. acc \in MaybeAccount /\ acc # None
    BY <1>2, AccountFields DEF MaybeAccount
  <1>7. /\ c \in Batches /\ c.supply = paid.supply /\ c.owner = paid.owner /\ c.ok = paid.ok
        /\ c.accounts[id] = acc
        /\ \A x \in Ids : x # id => c.accounts[x] = paid.accounts[x]
    BY <1>2, <1>4, <1>5, <1>6, PutAccount
  <1>8. tx.creator # id
    BY DEF id
  <1>9. /\ c \in Batches /\ c.supply = b.supply /\ c.owner = b.owner
        /\ c.ok <=> CanAdd(b, tx.creator, amt)
        /\ c.accounts[id] # None /\ c.accounts[id].balance = tx.account.balance
        /\ c.accounts[id].perms = tx.account.perms
        /\ \A x \in Ids \ {tx.creator, id} : c.accounts[x] = b.accounts[x]
        /\ c.ok => WithBalance(c.accounts[tx.creator], b.accounts[tx.creator],
                               b.accounts[tx.creator].balance + amt)
    BY <1>1, <1>2, <1>5, <1>6, <1>7, <1>8
  <1> QED
    BY <1>9 DEF c, id, amt

LEMMA IndexUpdateFacts ==
  ASSUME NEW b \in Batches, NEW tx \in Tx, tx.type = "Update"
  PROVE  LET c == IndexUpdate(b, tx)
             id == tx.account_id
         IN  /\ c \in Batches /\ c.supply = b.supply /\ c.owner = b.owner
             /\ c.ok <=> CanAdd(b, id, -tx.fee)
             /\ \A x \in Ids \ {id} : c.accounts[x] = b.accounts[x]
             /\ c.ok =>
                   /\ c.accounts[id] \in Account
                   /\ c.accounts[id].balance = b.accounts[id].balance - tx.fee
                   /\ c.accounts[id].destroyed = b.accounts[id].destroyed
                   /\ c.accounts[id].script =
                         IF tx.new_script = None THEN b.accounts[id].script ELSE tx.new_script
                   /\ c.accounts[id].perms =
                         IF tx.new_permissions = None THEN b.accounts[id].perms
                         ELSE tx.new_permissions
  <1> DEFINE c == IndexUpdate(b, tx)
             id == tx.account_id
             ch == AddBal(b, id, -tx.fee)
  <1>1. /\ tx.fee \in Int /\ -tx.fee \in Int /\ id \in Ids
        /\ tx.new_script \in Script \cup {None}
        /\ tx.new_permissions \in Permissions \cup {None}
    BY TxFields
  <1> HIDE DEF id
  <1>2. /\ ch \in Batches /\ ch.supply = b.supply /\ ch.owner = b.owner
        /\ ch.ok <=> CanAdd(b, id, -tx.fee)
        /\ \A x \in Ids : x # id => ch.accounts[x] = b.accounts[x]
        /\ CanAdd(b, id, -tx.fee) => WithBalance(ch.accounts[id], b.accounts[id],
                                                 b.accounts[id].balance + (-tx.fee))
    BY <1>1, AddBalFacts
  <1>3. c = IF ~ch.ok THEN ch ELSE [ch EXCEPT !.accounts[id] = Renewed(ch.accounts[id], tx)]
    BY DEF IndexUpdate, id
  <1> HIDE DEF ch, c
  <1>4. CASE ~ch.ok
    <2>1. c = ch
      BY <1>3, <1>4
    <2> QED
      BY <1>2, <1>4, <2>1 DEF c, id
  <1>5. CASE ch.ok
    <2> DEFINE old == ch.accounts[id]
               new == Renewed(old, tx)
    <2>1. WithBalance(old, b.accounts[id], b.accounts[id].balance + (-tx.fee))
      BY <1>2, <1>5
    <2>2. old \in Account
      BY <2>1 DEF WithBalance
    <2> HIDE DEF old
    <2>3. /\ new \in Account /\ new.balance = old.balance /\ new.destroyed = old.destroyed
          /\ new.script = IF tx.new_script = None THEN old.script ELSE tx.new_script
          /\ new.perms = IF tx.new_permissions = None THEN old.perms ELSE tx.new_permissions
      BY <1>1, <2>2, RenewedFacts
    <2>4. new \in MaybeAccount
      BY <2>3 DEF MaybeAccount
    <2>5. c = [ch EXCEPT !.accounts[id] = new]
      BY <1>3, <1>5 DEF old
    <2> HIDE DEF new
    <2>6. /\ c \in Batches /\ c.supply = ch.supply /\ c.owner = ch.owner /\ c.ok = ch.ok
          /\ c.accounts[id] = new
          /\ \A x \in Ids : x # id => c.accounts[x] = ch.accounts[x]
      BY <1>1, <1>2, <2>4, <2>5, PutAccount
    <2>7. b.accounts[id].balance + (-tx.fee) = b.accounts[id].balance - tx.fee
      <3>1. b.accounts[id] \in Account
        BY <1>1, <1>2, <1>5, BatchFields DEF CanAdd, MaybeAccount
      <3>2. b.accounts[id].balance \in Int
        BY <3>1, AccountFields
      <3> QED
        BY <1>1, <3>2
    <2>8. /\ new.balance = b.accounts[id].balance - tx.fee
          /\ new.destroyed = b.accounts[id].destroyed
          /\ new.script = IF tx.new_script = None THEN b.accounts[id].script ELSE tx.new_script
          /\ new.perms = IF tx.new_permissions = None THEN b.accounts[id].perms
                         ELSE tx.new_permissions
      BY <2>1, <2>3, <2>7 DEF WithBalance
    <2>9. /\ c.supply = b.supply /\ c.owner = b.owner /\ (c.ok <=> CanAdd(b, id, -tx.fee))
          /\ \A x \in Ids \ {id} : c.accounts[x] = b.accounts[x]
      BY <1>2, <2>6
    <2> QED
      BY <2>3, <2>6, <2>8, <2>9 DEF c, id
  <1> QED
    BY <1>4, <1>5

LEMMA IndexCreateType ==
  ASSUME NEW b \in Batches, NEW tx \in Tx, tx.type = "Create"
  PROVE  IndexCreate(b, tx) \in Batches
  <1> DEFINE acc == [balance |-> tx.account.balance, script |-> tx.account.script,
                     perms |-> tx.account.perms, destroyed |-> tx.account.destroyed]
             paid == AddBal(b, tx.creator, -(tx.fee + tx.account.balance))
  <1>1. tx.fee \in Int /\ tx.creator \in Ids /\ tx.account \in NewAccount
    BY TxFields
  <1>2. tx.account.id \in Ids /\ acc \in MaybeAccount /\ tx.account.balance \in Int
    BY <1>1, NewAccountFields DEF MaybeAccount
  <1>3. paid \in Batches
    <2>1. -(tx.fee + tx.account.balance) \in Int
      BY <1>1, <1>2
    <2> QED
      BY <1>1, <2>1, AddBalFacts
  <1>4. IndexCreate(b, tx) = [paid EXCEPT !.accounts[tx.account.id] = acc]
    BY DEF IndexCreate
  <1> HIDE DEF acc, paid
  <1> QED
    BY <1>2, <1>3, <1>4, PutAccount

\* Indexing keeps the types of a batch.
LEMMA IndexReceiptType ==
  ASSUME NEW b \in Batches, NEW r \in Receipts
  PROVE  IndexReceipt(b, r) \in Batches
  <1>0. r.tx \in Tx /\ r.log \in Seq(LogEntry)
    BY DEF Receipts
  <1>1. r.tx.type \in {"Owner", "Mint", "Create", "Update", "Transfer"}
    BY <1>0, TxFields
  <1>2. CASE ~b.ok
    BY <1>2 DEF IndexReceipt
  <1>3. CASE b.ok /\ r.tx.type = "Owner"
    <2>1. r.tx.wallet \in Ids
      BY <1>0, <1>3, TxFields
    <2>2. [b EXCEPT !.owner = r.tx.wallet] \in Batches
      BY <2>1 DEF Batches
    <2> QED
      BY <1>3, <2>2 DEF IndexReceipt
  <1>4. CASE b.ok /\ r.tx.type = "Mint"
    <2>1. r.tx.to \in Ids /\ r.tx.amount \in Int
      BY <1>0, <1>4, TxFields
    <2>2. AddTokenSupply(b, r.tx.amount) \in Batches
      BY <2>1, AddSupplyFacts
    <2>3. AddBal(AddTokenSupply(b, r.tx.amount), r.tx.to, r.tx.amount) \in Batches
      BY <2>1, <2>2, AddBalFacts
    <2> QED
      BY <1>4, <2>3 DEF IndexReceipt
  <1>5. CASE b.ok /\ r.tx.type = "Create"
    <2>1. IndexCreate(b, r.tx) \in Batches
      BY <1>0, <1>5, IndexCreateType
    <2> QED
      BY <1>5, <2>1 DEF IndexReceipt
  <1>6. CASE b.ok /\ r.tx.type = "Update"
    <2>1. IndexUpdate(b, r.tx) \in Batches
      BY <1>0, <1>6, IndexUpdateFacts
    <2> QED
      BY <1>6, <2>1 DEF IndexReceipt
  <1>7. CASE b.ok /\ r.tx.type = "Transfer"
    <2>1. r.tx.from \in Ids /\ r.tx.fee \in Int /\ r.tx.amount \in Int
      BY <1>0, <1>7, TxFields
    <2>2. -(r.tx.fee + r.tx.amount) \in Int
      BY <2>1
    <2>3. AddBal(b, r.tx.from, -(r.tx.fee + r.tx.amount)) \in Debited(r.tx.from)
      BY <2>1, <2>2, DebitType
    <2>4. IndexTransfer(b, r) \in Debited(r.tx.from)
      BY <1>0, <2>1, <2>3, IndexLog, IndexTransferIsFold
    <2>5. IndexReceipt(b, r) = IndexTransfer(b, r)
      BY <1>7 DEF IndexReceipt
    <2> QED
      BY <2>4, <2>5 DEF Debited
  <1> QED
    BY <1>1, <1>2, <1>3, <1>4, <1>5, <1>6, <1>7

\* index_block with one receipt more.
LEMMA IndexSteps ==
  ASSUME NEW b \in Batches, NEW rs \in Seq(Receipts)
  PROVE  /\ IndexReceipts(b, rs) \in Batches
         /\ IndexReceipts(b, <<>>) = b
         /\ \A r \in Receipts : IndexReceipts(b, Append(rs, r)) =
                                   IndexReceipt(IndexReceipts(b, rs), r)
  <1>1. XF!Closed(0, 0, Batches, Receipts)
    BY IndexReceiptType DEF XF!Closed, IndexOp
  <1>2. XF!Unfolds(0, 0, Batches, Receipts, b, rs)
    BY <1>1, XF!FoldLeftUnfolds, Zenon
  <1> QED
    BY <1>2, IndexIsFold DEF XF!Unfolds, IndexOp

LEMMA RewardsSteps ==
  ASSUME NEW rs \in Seq(Receipts)
  PROVE  /\ Rewards(rs) \in Int /\ Rewards(<<>>) = 0
         /\ \A r \in Receipts : Rewards(Append(rs, r)) = Rewards(rs) + r.tx.fee
  <1>1. RF!Closed(0, 0, Int, Receipts)
    <2>1. \A r \in Receipts : r.tx.fee \in Int
      BY TxFields DEF Receipts
    <2> QED
      BY <2>1 DEF RF!Closed, RewardOp
  <1>2. RF!Unfolds(0, 0, Int, Receipts, 0, rs)
    BY <1>1, RF!FoldLeftUnfolds
  <1> QED
    BY <1>2, RewardsIsFold DEF RF!Unfolds, RewardOp

LEMMA MintedSteps ==
  ASSUME NEW rs \in Seq(Receipts)
  PROVE  /\ Minted(rs) \in Int /\ Minted(<<>>) = 0
         /\ \A r \in Receipts :
               Minted(Append(rs, r)) = IF r.tx.type = "Mint" THEN Minted(rs) + r.tx.amount
                                       ELSE Minted(rs)
  <1>1. MF!Closed(0, 0, Int, Receipts)
    <2>1. \A r \in Receipts : r.tx.type = "Mint" => r.tx.amount \in Int
      BY TxFields DEF Receipts
    <2> QED
      BY <2>1 DEF MF!Closed, MintOp
  <1>2. MF!Unfolds(0, 0, Int, Receipts, 0, rs)
    BY <1>1, MF!FoldLeftUnfolds
  <1> QED
    BY <1>2, MintedIsFold DEF MF!Unfolds, MintOp

-----------------------------------------------------------------------------
(* Batches whose balances are sound.                                       *)

\* Nothing has failed, no balance is negative, and the accounts hold t.
Holds(b, t) ==
    /\ b \in Batches /\ b.ok
    /\ \A id \in Ids : BalanceOf(b.accounts[id]) \in Nat
    /\ Total(b.accounts) = t

LEMMA TotalChange2 ==
  ASSUME NEW f, NEW g, NEW x \in Ids, NEW y \in Ids, x # y, Balances(f), Balances(g),
         \A id \in Ids \ {x, y} : BalanceOf(g[id]) = BalanceOf(f[id])
  PROVE  Total(g) - Total(f) =
            (BalanceOf(g[x]) - BalanceOf(f[x])) + (BalanceOf(g[y]) - BalanceOf(f[y]))
  <1> DEFINE m == [id \in Ids |-> IF id = x THEN g[id] ELSE f[id]]
  <1>1. m[x] = g[x] /\ \A id \in Ids : id # x => m[id] = f[id]
    OBVIOUS
  <1> HIDE DEF m
  <1>2. Balances(m)
    BY <1>1 DEF Balances
  <1>3. /\ Total(f) \in Int /\ Total(m) \in Int
        /\ Total(m) - Total(f) = BalanceOf(m[x]) - BalanceOf(f[x])
    BY <1>1, <1>2, TotalChange
  <1>4. /\ Total(g) \in Int
        /\ Total(g) - Total(m) = BalanceOf(g[y]) - BalanceOf(m[y])
    <2>1. \A id \in Ids : id # y => BalanceOf(g[id]) = BalanceOf(m[id])
      BY <1>1
    <2> QED
      BY <1>2, <2>1, TotalChange
  <1>5. m[y] = f[y]
    BY <1>1
  <1>6. BalanceOf(g[x]) \in Int /\ BalanceOf(f[x]) \in Int
        /\ BalanceOf(g[y]) \in Int /\ BalanceOf(f[y]) \in Int
    BY DEF Balances
  <1> QED
    BY <1>1, <1>3, <1>4, <1>5, <1>6

\* A change of a balance that stays in range, and what it leaves.
LEMMA Moved ==
  ASSUME NEW b, NEW t \in Int, Holds(b, t), NEW id \in Ids, NEW n \in Int,
         b.accounts[id] # None, b.accounts[id].balance + n >= 0, t + n <= MAX_AMOUNT
  PROVE  LET c == AddBal(b, id, n)
         IN  /\ Holds(c, t + n) /\ c.supply = b.supply /\ c.owner = b.owner
             /\ WithBalance(c.accounts[id], b.accounts[id], b.accounts[id].balance + n)
             /\ c.accounts[id].balance <= t + n
             /\ \A x \in Ids : x # id => c.accounts[x] = b.accounts[x]
  <1> DEFINE c == AddBal(b, id, n)
             old == b.accounts[id]
  <1>1. /\ b \in Batches /\ b.ok /\ Total(b.accounts) = t
        /\ \A x \in Ids : BalanceOf(b.accounts[x]) \in Nat
    BY DEF Holds
  <1>2. old \in Account
    BY <1>1, BatchFields DEF MaybeAccount
  <1>3. BalanceOf(old) = old.balance /\ old.balance \in Int
    BY <1>2, AccountFields
  <1>4. BalanceOf(old) <= t
    BY <1>1, TotalBounds
  <1> HIDE DEF old
  <1>5. InRange(old.balance + n)
    BY <1>3, <1>4, LedgerAssumption DEF InRange, Amount, old
  <1>6. CanAdd(b, id, n)
    BY <1>1, <1>5 DEF CanAdd, old
  <1>7. /\ c \in Batches /\ c.supply = b.supply /\ c.owner = b.owner /\ c.ok
        /\ \A x \in Ids : x # id => c.accounts[x] = b.accounts[x]
        /\ WithBalance(c.accounts[id], old, old.balance + n)
    BY <1>1, <1>6, AddBalFacts DEF old
  <1> HIDE DEF c
  <1>8. BalanceOf(c.accounts[id]) = old.balance + n /\ c.accounts[id].balance = old.balance + n
    BY <1>7, AccountFields DEF WithBalance
  <1>9. \A x \in Ids : BalanceOf(c.accounts[x]) \in Nat
    BY <1>1, <1>3, <1>7, <1>8 DEF old
  <1>10. Total(c.accounts) = t + n
    <2>1. Balances(b.accounts) /\ Balances(c.accounts)
      BY <1>1, <1>9 DEF Balances
    <2>2. /\ Total(b.accounts) \in Int /\ Total(c.accounts) \in Int
          /\ Total(c.accounts) - Total(b.accounts) =
                BalanceOf(c.accounts[id]) - BalanceOf(b.accounts[id])
      BY <1>7, <2>1, TotalChange
    <2>3. BalanceOf(b.accounts[id]) = old.balance
      BY <1>3 DEF old
    <2>4. Total(c.accounts) - t = (old.balance + n) - old.balance
      BY <1>1, <1>8, <2>2, <2>3
    <2> QED
      BY <1>3, <2>2, <2>4
  <1>11. Holds(c, t + n)
    BY <1>7, <1>9, <1>10 DEF Holds
  <1> QED
    BY <1>3, <1>4, <1>7, <1>8, <1>11 DEF c, old

\* The destruction of an account moves what it has.
LEMMA Destroyed ==
  ASSUME NEW b, NEW t \in Int, Holds(b, t), t <= MAX_AMOUNT, NEW from \in Ids, NEW to \in Ids,
         to # from, b.accounts[from] # None, b.accounts[to] # None
  PROVE  LET c == IndexDestroy(b, from, to)
         IN  /\ Holds(c, t) /\ c.supply = b.supply /\ c.owner = b.owner
             /\ c.accounts[from] = Gone(b.accounts[from])
             /\ WithBalance(c.accounts[to], b.accounts[to],
                            b.accounts[to].balance + b.accounts[from].balance)
             /\ \A x \in Ids \ {from, to} : c.accounts[x] = b.accounts[x]
  <1> DEFINE c == IndexDestroy(b, from, to)
             f == b.accounts[from]
             g == b.accounts[to]
  <1>1. /\ b \in Batches /\ b.ok /\ Total(b.accounts) = t
        /\ \A x \in Ids : BalanceOf(b.accounts[x]) \in Nat
    BY DEF Holds
  <1>2. f \in Account /\ g \in Account
    BY <1>1, BatchFields DEF MaybeAccount
  <1>3. /\ BalanceOf(f) = f.balance /\ f.balance \in Nat
        /\ BalanceOf(g) = g.balance /\ g.balance \in Nat
    BY <1>1, <1>2, AccountFields
  <1>4. f.balance + g.balance <= t
    <2> DEFINE m == [x \in Ids |-> IF x = from THEN None ELSE b.accounts[x]]
    <2>1. m[from] = None /\ m[to] = g /\ \A x \in Ids : x # from => m[x] = b.accounts[x]
      OBVIOUS
    <2> HIDE DEF m, f, g
    <2>2. \A x \in Ids : BalanceOf(m[x]) \in Nat
      BY <1>1, <2>1 DEF BalanceOf
    <2>3. Total(m) \in Nat /\ g.balance <= Total(m)
      BY <1>3, <2>1, <2>2, TotalBounds
    <2>4. Balances(m) /\ Balances(b.accounts)
      BY <1>1, <2>2 DEF Balances
    <2>5. Total(m) - t = BalanceOf(m[from]) - BalanceOf(f)
      BY <1>1, <2>1, <2>4, TotalChange DEF f
    <2>6. BalanceOf(m[from]) = 0
      BY <2>1 DEF BalanceOf
    <2> QED
      BY <1>3, <2>3, <2>5, <2>6
  <1>5. InRange(g.balance + f.balance)
    <2> HIDE DEF f, g
    <2> QED
      BY <1>3, <1>4, LedgerAssumption DEF InRange, Amount
  <1>6. b \in Debited(from)
    BY <1>1 DEF Debited
  <1>7. /\ c \in Debited(from) /\ c.supply = b.supply /\ c.owner = b.owner
        /\ c.accounts[from] = Gone(f) /\ c.ok
        /\ WithBalance(c.accounts[to], g, g.balance + f.balance)
        /\ \A x \in Ids \ {from, to} : c.accounts[x] = b.accounts[x]
    BY <1>1, <1>5, <1>6, IndexDestroyFacts
  <1>8. c \in Batches
    BY <1>7 DEF Debited
  <1> HIDE DEF c, f, g
  <1>9. BalanceOf(c.accounts[from]) = 0
    BY <1>2, <1>7, GoneFacts, AccountFields
  <1>10. BalanceOf(c.accounts[to]) = g.balance + f.balance
    BY <1>7, AccountFields DEF WithBalance
  <1>11. \A x \in Ids : BalanceOf(c.accounts[x]) \in Nat
    BY <1>1, <1>3, <1>7, <1>9, <1>10
  <1>12. Total(c.accounts) = t
    <2>1. Balances(b.accounts) /\ Balances(c.accounts)
      BY <1>1, <1>11 DEF Balances
    <2>2. Total(c.accounts) - Total(b.accounts) =
             (BalanceOf(c.accounts[from]) - BalanceOf(b.accounts[from]))
             + (BalanceOf(c.accounts[to]) - BalanceOf(b.accounts[to]))
      BY <1>7, <2>1, TotalChange2
    <2>3. Total(c.accounts) \in Nat
      BY <1>11, TotalNat
    <2>4. BalanceOf(b.accounts[from]) = f.balance /\ BalanceOf(b.accounts[to]) = g.balance
      BY <1>3 DEF f, g
    <2> QED
      BY <1>1, <1>3, <1>9, <1>10, <2>2, <2>3, <2>4
  <1>13. Holds(c, t)
    BY <1>7, <1>8, <1>11, <1>12 DEF Holds
  <1> QED
    BY <1>7, <1>13 DEF c, f, g

-----------------------------------------------------------------------------
(* What one more receipt does to the statements about receipts.            *)

LEMMA AppendFacts ==
  ASSUME NEW rs \in Seq(Receipts), NEW r \in Receipts
  PROVE  /\ Append(rs, r) \in Seq(Receipts) /\ Len(Append(rs, r)) = Len(rs) + 1
         /\ DOMAIN Append(rs, r) = (DOMAIN rs) \cup {Len(rs) + 1}
         /\ \A i \in DOMAIN rs : Append(rs, r)[i] = rs[i]
         /\ Append(rs, r)[Len(rs) + 1] = r
  OBVIOUS

LEMMA AppendStatements ==
  ASSUME NEW rs \in Seq(Receipts), NEW r \in Receipts, NEW id, NEW perms
  PROVE  LET new == Append(rs, r)
         IN  /\ UpdatedElsewhere(id, new) <=>
                   \/ UpdatedElsewhere(id, rs)
                   \/ r.tx.type = "Update" /\ r.tx.account_id # id
             /\ MintedTo(id, new) <=>
                   MintedTo(id, rs) \/ (r.tx.type = "Mint" /\ r.tx.to = id)
             /\ CreatedIn(id, new) <=>
                   CreatedIn(id, rs) \/ (r.tx.type = "Create" /\ r.tx.account.id = id)
             /\ (\A i \in DOMAIN new : id \notin Names(new[i])) <=>
                   (\A i \in DOMAIN rs : id \notin Names(rs[i])) /\ id \notin Names(r)
             /\ GivenUnchecked(id, perms, new) <=>
                   \/ GivenUnchecked(id, perms, rs)
                   \/ /\ r.tx.type = "Update" /\ r.tx.account_id = id
                      /\ r.tx.new_permissions = perms /\ r.tx.new_script # None
  <1> DEFINE new == Append(rs, r)
  <1>1. /\ DOMAIN new = (DOMAIN rs) \cup {Len(rs) + 1}
        /\ \A i \in DOMAIN rs : new[i] = rs[i]
        /\ new[Len(rs) + 1] = r
    BY AppendFacts
  <1> HIDE DEF new
  <1>2. UpdatedElsewhere(id, new) <=>
           UpdatedElsewhere(id, rs) \/ (r.tx.type = "Update" /\ r.tx.account_id # id)
    BY <1>1 DEF UpdatedElsewhere
  <1>3. MintedTo(id, new) <=> MintedTo(id, rs) \/ (r.tx.type = "Mint" /\ r.tx.to = id)
    BY <1>1 DEF MintedTo
  <1>4. CreatedIn(id, new) <=>
           CreatedIn(id, rs) \/ (r.tx.type = "Create" /\ r.tx.account.id = id)
    BY <1>1 DEF CreatedIn
  <1>5. (\A i \in DOMAIN new : id \notin Names(new[i])) <=>
           (\A i \in DOMAIN rs : id \notin Names(rs[i])) /\ id \notin Names(r)
    BY <1>1
  <1>6. GivenUnchecked(id, perms, new) <=>
           \/ GivenUnchecked(id, perms, rs)
           \/ /\ r.tx.type = "Update" /\ r.tx.account_id = id
              /\ r.tx.new_permissions = perms /\ r.tx.new_script # None
    BY <1>1 DEF GivenUnchecked
  <1> QED
    BY <1>2, <1>3, <1>4, <1>5, <1>6 DEF new

\* One account before and after receipt r, as get_account shows it (s, then s2)
\* and as indexing leaves it (l, then l2); acc is the account of the index.
StepAgrees(id, acc, s, l, s2, l2, r) ==
    /\ id \notin Names(r) => l2 = l
    /\ acc = None =>
          /\ s2 = None
          /\ l2 # None => l # None \/ (r.tx.type = "Create" /\ r.tx.account.id = id)
    /\ acc # None =>
          /\ s2 # None /\ l2 # None
          /\ 0 <= s2.balance /\ s2.balance <= l2.balance
          /\ s2.destroyed = l2.destroyed
          /\ l.destroyed => l2.destroyed
          /\ ~(r.tx.type = "Update" /\ r.tx.account_id # id)
                /\ s.script = l.script /\ s.perms = l.perms =>
                s2.script = l2.script /\ s2.perms = l2.perms
          /\ l2.destroyed /\ ~(r.tx.type = "Mint" /\ r.tx.to = id) =>
                l2.balance <= IF l.destroyed THEN l.balance ELSE 0

\* Agreement with one receipt more.
LEMMA AgreeStep ==
  ASSUME NEW id, NEW acc \in MaybeAccount, NEW s, NEW l \in MaybeAccount, NEW s2,
         NEW l2 \in MaybeAccount, NEW rs \in Seq(Receipts), NEW r \in Receipts,
         Agree(id, acc, s, l, rs), StepAgrees(id, acc, s, l, s2, l2, r)
  PROVE  Agree(id, acc, s2, l2, Append(rs, r))
  <1> DEFINE new == Append(rs, r)
  <1>0. /\ UpdatedElsewhere(id, new) <=>
              UpdatedElsewhere(id, rs) \/ (r.tx.type = "Update" /\ r.tx.account_id # id)
        /\ MintedTo(id, new) <=> MintedTo(id, rs) \/ (r.tx.type = "Mint" /\ r.tx.to = id)
        /\ CreatedIn(id, new) <=>
              CreatedIn(id, rs) \/ (r.tx.type = "Create" /\ r.tx.account.id = id)
        /\ (\A i \in DOMAIN new : id \notin Names(new[i])) <=>
              (\A i \in DOMAIN rs : id \notin Names(rs[i])) /\ id \notin Names(r)
    BY AppendStatements
  <1> HIDE DEF new
  <1>1. (\A i \in DOMAIN new : id \notin Names(new[i])) => l2 = acc
    BY <1>0 DEF Agree, StepAgrees
  <1>2. CASE acc = None
    BY <1>0, <1>1, <1>2 DEF Agree, StepAgrees, new
  <1>3. CASE acc # None
    <2>1. /\ s # None /\ l # None
          /\ s.destroyed = l.destroyed
          /\ acc.destroyed => l.destroyed
          /\ ~UpdatedElsewhere(id, rs) => s.script = l.script /\ s.perms = l.perms
          /\ l.destroyed /\ ~MintedTo(id, rs) =>
                l.balance <= IF acc.destroyed THEN acc.balance ELSE 0
      BY <1>3 DEF Agree
    <2>2. /\ s2 # None /\ l2 # None
          /\ 0 <= s2.balance /\ s2.balance <= l2.balance
          /\ s2.destroyed = l2.destroyed
          /\ l.destroyed => l2.destroyed
          /\ ~(r.tx.type = "Update" /\ r.tx.account_id # id)
                /\ s.script = l.script /\ s.perms = l.perms =>
                s2.script = l2.script /\ s2.perms = l2.perms
          /\ l2.destroyed /\ ~(r.tx.type = "Mint" /\ r.tx.to = id) =>
                l2.balance <= IF l.destroyed THEN l.balance ELSE 0
      BY <1>3 DEF StepAgrees
    <2>3. l \in Account /\ l2 \in Account /\ acc \in Account
      BY <1>3, <2>1, <2>2 DEF MaybeAccount
    <2>4. l.balance \in Int /\ l2.balance \in Int /\ acc.balance \in Int
      BY <2>3, AccountFields
    <2>5. ~UpdatedElsewhere(id, new) => s2.script = l2.script /\ s2.perms = l2.perms
      BY <1>0, <2>1, <2>2
    <2>6. l2.destroyed /\ ~MintedTo(id, new) =>
             l2.balance <= IF acc.destroyed THEN acc.balance ELSE 0
      BY <1>0, <2>1, <2>2, <2>4
    <2>7. acc.destroyed => l2.destroyed
      BY <2>1, <2>2
    <2> QED
      BY <1>1, <1>3, <2>2, <2>5, <2>6, <2>7 DEF Agree, new
  <1> QED
    BY <1>2, <1>3

\* An account the receipt leaves alone.
LEMMA SameAgrees ==
  ASSUME NEW id, NEW acc, NEW s, NEW l \in MaybeAccount, NEW rs, NEW r,
         Agree(id, acc, s, l, rs)
  PROVE  StepAgrees(id, acc, s, l, s, l, r)
  <1>1. l # None => l.balance \in Int
    BY AccountFields DEF MaybeAccount
  <1> QED
    BY <1>1 DEF Agree, StepAgrees

-----------------------------------------------------------------------------
(* Fees.  B holds the positions, from the head down, of blocks that have   *)
(* receipts of an account; W is FEE_RESET_WINDOW.                          *)

\* W blocks in a row among the first k have none.
QuietRun(B, W, k) == \E a \in 1 .. k - W + 1 : \A j \in a .. a + W - 1 : j \notin B

\* After k blocks, the last n have none and the one before has some, unless the
\* scan has stopped.
Trail(B, W, k, n) ==
    /\ n \in 0 .. W
    /\ n = W <=> QuietRun(B, W, k)
    /\ n < W => /\ n <= k
                /\ \A j \in k - n + 1 .. k : j \notin B
                /\ n < k => k - n \in B

LEMMA TrailStart ==
  ASSUME NEW B, NEW W \in Nat \ {0}
  PROVE  Trail(B, W, 0, 0)
  <1>1. ~QuietRun(B, W, 0)
    BY DEF QuietRun
  <1> QED
    BY <1>1 DEF Trail

LEMMA TrailStep ==
  ASSUME NEW B, NEW W \in Nat \ {0}, NEW k \in Nat, NEW n, Trail(B, W, k, n)
  PROVE  /\ n = W => Trail(B, W, k + 1, n)
         /\ n # W /\ k + 1 \in B => Trail(B, W, k + 1, 0)
         /\ n # W /\ k + 1 \notin B => Trail(B, W, k + 1, n + 1)
  <1>1. CASE n = W
    <2>1. PICK a \in 1 .. k - W + 1 : \A j \in a .. a + W - 1 : j \notin B
      BY <1>1 DEF Trail, QuietRun
    <2>2. a \in 1 .. (k + 1) - W + 1
      BY <2>1
    <2>3. QuietRun(B, W, k + 1)
      BY <2>1, <2>2 DEF QuietRun
    <2> QED
      BY <1>1, <2>3 DEF Trail
  <1>2. CASE n # W
    <2>0. /\ n \in 0 .. W /\ n < W /\ n <= k /\ ~QuietRun(B, W, k)
          /\ \A j \in k - n + 1 .. k : j \notin B
          /\ n < k => k - n \in B
      BY <1>2 DEF Trail
    <2>1. ASSUME QuietRun(B, W, k + 1)
          PROVE  /\ (k + 1) - W + 1 >= 1
                 /\ \A j \in (k + 1) - W + 1 .. k + 1 : j \notin B
      <3>1. PICK a \in 1 .. (k + 1) - W + 1 : \A j \in a .. a + W - 1 : j \notin B
        BY <2>1 DEF QuietRun
      <3>2. a \notin 1 .. k - W + 1
        BY <2>0, <3>1 DEF QuietRun
      <3>3. a = (k + 1) - W + 1 /\ a + W - 1 = k + 1
        BY <3>1, <3>2
      <3> QED
        BY <3>1, <3>3
    <2>2. CASE k + 1 \in B
      <3>1. ~QuietRun(B, W, k + 1)
        BY <2>1, <2>2
      <3> QED
        BY <1>2, <2>2, <3>1 DEF Trail
    <2>3. CASE k + 1 \notin B
      <3>1. \A j \in (k + 1) - (n + 1) + 1 .. k + 1 : j \notin B
        BY <2>0, <2>3
      <3>2. CASE n + 1 = W
        <4> DEFINE a == (k + 1) - W + 1
        <4>1. /\ a \in 1 .. (k + 1) - W + 1
              /\ a = (k + 1) - (n + 1) + 1 /\ a + W - 1 = k + 1
          BY <2>0, <3>2
        <4> HIDE DEF a
        <4>2. QuietRun(B, W, k + 1)
          <5>1. \A j \in a .. a + W - 1 : j \notin B
            BY <3>1, <4>1
          <5> QED
            BY <4>1, <5>1 DEF QuietRun
        <4> QED
          BY <1>2, <2>0, <2>3, <3>2, <4>2 DEF Trail
      <3>3. CASE n + 1 # W
        <4>1. ~QuietRun(B, W, k + 1)
          BY <2>0, <2>1, <3>3
        <4>2. n + 1 \in 0 .. W /\ n + 1 < W /\ n + 1 <= k + 1
          BY <2>0, <3>3
        <4>3. n + 1 < k + 1 => (k + 1) - (n + 1) \in B
          BY <2>0
        <4> QED
          BY <1>2, <2>3, <3>1, <4>1, <4>2, <4>3 DEF Trail
      <3> QED
        BY <3>2, <3>3
    <2> QED
      BY <1>2, <2>2, <2>3
  <1> QED
    BY <1>1, <1>2

LEMMA MatchesNat ==
  ASSUME NEW id, NEW rs \in Seq(Receipts)
  PROVE  Matches(id, rs) \in Nat
  <1> DEFINE S == {i \in DOMAIN rs : Payer(rs[i]) = id}
  <1>1. DOMAIN rs = 1 .. Len(rs) /\ Len(rs) \in Nat
    OBVIOUS
  <1>2. IsFiniteSet(1 .. Len(rs))
    BY <1>1, FS_Interval
  <1>3. IsFiniteSet(S)
    BY <1>1, <1>2, FS_Subset
  <1> HIDE DEF S
  <1>4. Cardinality(S) \in Nat
    BY <1>3, FS_CardinalityType
  <1> QED
    BY <1>4 DEF Matches, S

ScanOp(id, d, scan, rs) == ScanBlock(id, scan, rs)
LinkOp(id, d, sum, h) == CountLinked(id, sum, h)

SF == INSTANCE FoldTheory WITH op <- ScanOp
HF == INSTANCE FoldTheory WITH op <- LinkOp

Scans == [count : Nat, delta : Nat]

Start(n) == [count |-> n, delta |-> 0]

\* The scan, block by block.
LEMMA ScanRun ==
  ASSUME chain \in Seq(Seq(Receipts)), NEW id, NEW n \in Nat
  PROVE  \E f : /\ f[0] = Start(n)
                /\ \A k \in 1 .. Len(chain) :
                      f[k] = ScanBlock(id, f[k - 1], chain[(Len(chain) - k) + 1])
                /\ ScanBlocks(id, Start(n), Reverse(chain)) = f[Len(chain)]
  <1> DEFINE rev == Reverse(chain)
  <1>1. /\ rev \in Seq(Seq(Receipts)) /\ Len(rev) = Len(chain)
        /\ \A k \in 1 .. Len(chain) : rev[k] = chain[(Len(chain) - k) + 1]
    BY DEF Reverse
  <1> HIDE DEF rev
  <1>2. ASSUME NEW sc \in Scans, NEW rs \in Seq(Receipts)
        PROVE  ScanBlock(id, sc, rs) \in Scans
    <2>1. Matches(id, rs) \in Nat
      BY MatchesNat
    <2> QED
      BY <2>1 DEF ScanBlock, Scans
  <1>3. SF!Closed(id, 0, Scans, Seq(Receipts))
    BY <1>2 DEF SF!Closed, ScanOp
  <1>4. Start(n) \in Scans
    BY DEF Start, Scans
  <1>5. PICK f : SF!Run(id, 0, Start(n), rev, f)
    BY <1>1, <1>3, <1>4, SF!FoldLeftRuns, Zenon
  <1>6. ScanBlocks(id, Start(n), rev) = SF!Fold(id, 0, Start(n), rev)
    BY Zenon DEF ScanBlocks, ScanOp, SF!Fold, FoldLeft, MapThenFoldSet, Max,
                 SF!FoldLeft, SF!MapThenFoldSet, SF!Max
  <1>7. /\ f[0] = Start(n)
        /\ \A k \in 1 .. Len(rev) : f[k] = ScanBlock(id, f[k - 1], rev[k])
        /\ SF!Fold(id, 0, Start(n), rev) = f[Len(rev)]
    BY <1>5, Zenon DEF SF!Run, ScanOp
  <1>8. /\ \A k \in 1 .. Len(chain) :
              f[k] = ScanBlock(id, f[k - 1], chain[(Len(chain) - k) + 1])
        /\ ScanBlocks(id, Start(n), rev) = f[Len(chain)]
    BY <1>1, <1>6, <1>7
  <1> QED
    BY <1>7, <1>8 DEF rev

\* The sum over linked heights, height by height.
LEMMA LinkRun ==
  ASSUME chain \in Seq(Seq(Receipts)), NEW id, NEW n \in Nat
  PROVE  \E g : /\ g[0] = n
                /\ \A k \in 1 .. Len(chain) :
                      g[k] = CountLinked(id, g[k - 1], Len(chain) - k)
                /\ LinkedCount(id, n) = g[Len(chain)]
  <1> DEFINE H == 0 .. Len(chain) - 1
  <1>1. /\ HeightsDown \in Seq(H) /\ Len(HeightsDown) = Len(chain)
        /\ \A k \in 1 .. Len(chain) : HeightsDown[k] = Len(chain) - k
    BY DEF HeightsDown
  <1>2. ASSUME NEW sum \in Nat, NEW h \in H PROVE CountLinked(id, sum, h) \in Nat
    <2>1. chain[h + 1] \in Seq(Receipts)
      OBVIOUS
    <2>2. Matches(id, chain[h + 1]) \in Nat
      BY <2>1, MatchesNat
    <2> QED
      BY <2>2 DEF CountLinked
  <1>3. HF!Closed(id, 0, Nat, H)
    BY <1>2 DEF HF!Closed, LinkOp
  <1> HIDE DEF H
  <1>4. PICK g : HF!Run(id, 0, n, HeightsDown, g)
    BY <1>1, <1>3, HF!FoldLeftRuns, Zenon
  <1>5. LinkedCount(id, n) = HF!Fold(id, 0, n, HeightsDown)
    BY Zenon DEF LinkedCount, LinkOp, HF!Fold, FoldLeft, MapThenFoldSet, Max,
                 HF!FoldLeft, HF!MapThenFoldSet, HF!Max
  <1>6. /\ g[0] = n
        /\ \A k \in 1 .. Len(HeightsDown) : g[k] = CountLinked(id, g[k - 1], HeightsDown[k])
        /\ HF!Fold(id, 0, n, HeightsDown) = g[Len(HeightsDown)]
    BY <1>4, Zenon DEF HF!Run, LinkOp
  <1>7. \A k \in 1 .. Len(chain) : g[k] = CountLinked(id, g[k - 1], Len(chain) - k)
    BY <1>1, <1>6
  <1> QED
    BY <1>1, <1>5, <1>6, <1>7

\* Positions from the head down of the blocks that have receipts of id.
BusyAt(id) == {j \in 1 .. Len(chain) : Matches(id, chain[(Len(chain) - j) + 1]) > 0}

\* A height is linked as long as the scan has not stopped above it.
LEMMA LinkedIff ==
  ASSUME chain \in Seq(Seq(Receipts)), NEW id, NEW k \in 0 .. Len(chain) - 1
  PROVE  Linked(id, Len(chain) - (k + 1)) <=> ~QuietRun(BusyAt(id), FEE_RESET_WINDOW, k)
  <1> DEFINE W == FEE_RESET_WINDOW
             n == Len(chain)
             B == BusyAt(id)
             Busy(m) == Matches(id, chain[m + 1]) > 0
  <1>0. W \in Nat \ {0} /\ n \in Nat /\ k \in Nat
    BY LedgerAssumption
  <1>1. \A m \in 0 .. n - 1 : n - m \in B <=> Busy(m)
    <2>1. ASSUME NEW m \in 0 .. n - 1 PROVE n - m \in B <=> Busy(m)
      <3>1. n - m \in 1 .. n /\ (n - (n - m)) + 1 = m + 1
        BY <1>0
      <3> QED
        BY <3>1 DEF BusyAt
    <2> QED
      BY <2>1
  <1>2. Linked(id, n - (k + 1)) <=>
           \A low \in n - k .. n - W : \E m \in low .. low + W - 1 : Busy(m)
    <2>1. (n - (k + 1)) + 1 = n - k /\ Height - FEE_RESET_WINDOW + 1 = n - W
      BY <1>0 DEF Height
    <2> QED
      BY <2>1 DEF Linked
  <1> HIDE DEF W, n, B, Busy
  <1>3. ASSUME QuietRun(B, W, k), Linked(id, n - (k + 1)) PROVE FALSE
    <2>1. PICK a \in 1 .. k - W + 1 : \A j \in a .. a + W - 1 : j \notin B
      BY <1>3 DEF QuietRun
    <2> DEFINE low == n - a - W + 1
    <2>2. low \in n - k .. n - W
      BY <1>0, <2>1
    <2>3. PICK m \in low .. low + W - 1 : Busy(m)
      BY <1>2, <1>3, <2>2
    <2>4. m \in 0 .. n - 1 /\ n - m \in a .. a + W - 1
      BY <1>0, <2>1, <2>3 DEF n
    <2> QED
      BY <1>1, <2>1, <2>3, <2>4
  <1>4. ASSUME ~QuietRun(B, W, k), NEW low \in n - k .. n - W
        PROVE  \E m \in low .. low + W - 1 : Busy(m)
    <2> DEFINE a == n - low - W + 1
    <2>1. a \in 1 .. k - W + 1
      BY <1>0, <1>4
    <2>2. PICK j \in a .. a + W - 1 : j \in B
      BY <1>4, <2>1 DEF QuietRun
    <2> DEFINE m == n - j
    <2>3. m \in low .. low + W - 1 /\ m \in 0 .. n - 1 /\ n - m = j
      BY <1>0, <1>4, <2>1, <2>2, SMTT(30) DEF n
    <2> QED
      BY <1>1, <2>2, <2>3
  <1> QED
    BY <1>2, <1>3, <1>4 DEF n, W, B

\* The scan and the sum go along.
LEMMA ScanCounts ==
  ASSUME chain \in Seq(Seq(Receipts)), NEW id, NEW b \in Nat
  PROVE  ScanBlocks(id, Start(b), Reverse(chain)).count = LinkedCount(id, b)
  <1> DEFINE W == FEE_RESET_WINDOW
             n == Len(chain)
             B == BusyAt(id)
  <1>0. W \in Nat \ {0} /\ n \in Nat
    BY LedgerAssumption
  <1>1. PICK f : /\ f[0] = Start(b)
                 /\ \A k \in 1 .. n : f[k] = ScanBlock(id, f[k - 1], chain[(n - k) + 1])
                 /\ ScanBlocks(id, Start(b), Reverse(chain)) = f[n]
    BY ScanRun
  <1>2. PICK g : /\ g[0] = b
                 /\ \A k \in 1 .. n : g[k] = CountLinked(id, g[k - 1], n - k)
                 /\ LinkedCount(id, b) = g[n]
    <2> HIDE DEF W, B
    <2>1. \E g : /\ g[0] = b
                 /\ \A k \in 1 .. Len(chain) :
                       g[k] = CountLinked(id, g[k - 1], Len(chain) - k)
                 /\ LinkedCount(id, b) = g[Len(chain)]
      BY LinkRun, Zenon
    <2> QED
      BY <2>1, Zenon
  <1> DEFINE Along(k) == f[k].count = g[k] /\ Trail(B, W, k, f[k].delta)
             G == {k \in Nat : Along(k)}
  <1>3. 0 \in G
    <2>1. f[0].count = g[0] /\ f[0].delta = 0
      BY <1>1, <1>2 DEF Start
    <2>2. Trail(B, W, 0, 0)
      BY <1>0, TrailStart
    <2> QED
      BY <2>1, <2>2
  <1>4. ASSUME NEW k \in 0 .. n - 1, k \in G PROVE k + 1 \in G
    <2>1. k \in Nat /\ k + 1 \in 1 .. n /\ (k + 1) - 1 = k /\ k + 1 \in Nat
      BY <1>0
    <2> DEFINE rs == chain[(n - (k + 1)) + 1]
               h == n - (k + 1)
    <2>2. f[k + 1] = ScanBlock(id, f[k], rs) /\ g[k + 1] = CountLinked(id, g[k], h)
      BY <1>1, <1>2, <2>1
    <2>3. k + 1 \in B <=> Matches(id, rs) > 0
      BY <2>1 DEF BusyAt
    <2>4. Linked(id, h) <=> ~QuietRun(B, W, k)
      BY LinkedIff
    <2>5. f[k].count = g[k] /\ Trail(B, W, k, f[k].delta)
      BY <1>4
    <2>6. chain[h + 1] = rs
      OBVIOUS
    <2> HIDE DEF rs, h, B, W
    <2>7. f[k].delta = W <=> ~Linked(id, h)
      BY <2>4, <2>5 DEF Trail
    <2>8. /\ f[k].delta = W => Trail(B, W, k + 1, f[k].delta)
          /\ f[k].delta # W /\ k + 1 \in B => Trail(B, W, k + 1, 0)
          /\ f[k].delta # W /\ k + 1 \notin B => Trail(B, W, k + 1, f[k].delta + 1)
      BY <1>0, <2>1, <2>5, TrailStep
    <2>9. CASE f[k].delta = W
      <3>1. f[k + 1] = f[k] /\ g[k + 1] = g[k]
        BY <2>2, <2>7, <2>9 DEF ScanBlock, CountLinked, W
      <3> QED
        BY <2>1, <2>5, <2>8, <2>9, <3>1
    <2>10. CASE f[k].delta # W
      <3>1. /\ f[k + 1].count = f[k].count + Matches(id, rs)
            /\ f[k + 1].delta = IF Matches(id, rs) > 0 THEN 0 ELSE f[k].delta + 1
        BY <2>2, <2>10 DEF ScanBlock, W
      <3>2. g[k + 1] = g[k] + Matches(id, rs)
        BY <2>2, <2>6, <2>7, <2>10 DEF CountLinked
      <3>3. f[k + 1].count = g[k + 1]
        BY <2>5, <3>1, <3>2
      <3>4. Trail(B, W, k + 1, f[k + 1].delta)
        BY <2>3, <2>8, <2>10, <3>1
      <3> QED
        BY <2>1, <3>3, <3>4
    <2> QED
      BY <2>9, <2>10
  <1>5. \A k \in 0 .. n : k \in G
    <2> HIDE DEF G, n
    <2> QED
      BY <1>0, <1>3, <1>4, SF!CountUp, Zenon
  <1>6. f[n].count = g[n]
    BY <1>0, <1>5
  <1> QED
    BY <1>1, <1>2, <1>6

-----------------------------------------------------------------------------
(* The invariant with one more receipt.                                    *)

\* The receipts rs can be indexed, on an index that is sound.
Settles(rs) ==
    /\ SoundIndex(accounts, supply, owner)
    /\ rs \in Seq(Receipts) /\ Rewards(rs) >= 0 /\ Minted(rs) >= 0
    /\ Left(rs).ok /\ SettledInv(rs)

LEMMA BatchType ==
  ASSUME SoundIndex(accounts, supply, owner)
  PROVE  /\ Batch \in Batches /\ Batch.ok /\ Batch.accounts = accounts
         /\ Batch.supply = supply /\ Batch.owner = owner
         /\ \A id \in Ids : accounts[id] \in MaybeAccount
  BY DEF SoundIndex, Batch, Batches, MaybeAccount

\* Index and overlay of the state, receipt by receipt.
LEMMA ReceiptSteps ==
  ASSUME SoundIndex(accounts, supply, owner), NEW rs \in Seq(Receipts)
  PROVE  /\ Left(rs) \in Batches /\ Left(<<>>) = Batch
         /\ \A id \in Ids : /\ GetAccount(id, rs) \in MaybeAccount
                            /\ GetAccount(id, <<>>) = accounts[id]
         /\ \A r \in Receipts :
               /\ Left(Append(rs, r)) = IndexReceipt(Left(rs), r)
               /\ \A id \in Ids : GetAccount(id, Append(rs, r)) =
                                     OverlayReceipt(id, GetAccount(id, rs), r)
  <1>1. Batch \in Batches /\ \A id \in Ids : accounts[id] \in MaybeAccount
    BY BatchType
  <1>2. /\ Left(rs) \in Batches /\ Left(<<>>) = Batch
        /\ \A r \in Receipts : Left(Append(rs, r)) = IndexReceipt(Left(rs), r)
    BY <1>1, IndexSteps DEF Left
  <1>3. \A id \in Ids :
           /\ GetAccount(id, rs) \in MaybeAccount
           /\ GetAccount(id, <<>>) = accounts[id]
           /\ \A r \in Receipts : GetAccount(id, Append(rs, r)) =
                                     OverlayReceipt(id, GetAccount(id, rs), r)
    BY <1>1, OverlaySteps DEF GetAccount
  <1> QED
    BY <1>2, <1>3

\* What the invariant says of receipts that can be indexed.
LEMMA SettledFacts ==
  ASSUME NEW rs, Settles(rs)
  PROVE  LET b == Left(rs)
             t == b.supply - Rewards(rs)
         IN  /\ b \in Batches /\ b.supply \in Int /\ t \in Int
             /\ Rewards(rs) \in Int /\ Minted(rs) \in Int
             /\ t <= b.supply /\ b.supply <= MAX_AMOUNT /\ 0 <= b.supply
             /\ b.supply = supply + Minted(rs)
             /\ b.owner \in Ids /\ accounts[b.owner] # None
             /\ Holds(b, t)
             /\ \A id \in Ids :
                   /\ accounts[id] \in MaybeAccount /\ b.accounts[id] \in MaybeAccount
                   /\ GetAccount(id, rs) \in MaybeAccount
                   /\ Agree(id, accounts[id], GetAccount(id, rs), b.accounts[id], rs)
                   /\ PermsInv(id, b.accounts[id], rs)
  <1> DEFINE b == Left(rs)
             t == b.supply - Rewards(rs)
  <1>1. /\ SoundIndex(accounts, supply, owner) /\ rs \in Seq(Receipts) /\ Rewards(rs) >= 0
        /\ b.ok /\ SettledInv(rs)
    BY DEF Settles
  <1>2. /\ b \in Batches /\ \A id \in Ids : GetAccount(id, rs) \in MaybeAccount
    BY <1>1, ReceiptSteps
  <1>3. Rewards(rs) \in Int /\ Minted(rs) \in Int
    BY <1>1, RewardsSteps, MintedSteps
  <1>4. /\ \A id \in Ids :
              /\ Agree(id, accounts[id], GetAccount(id, rs), b.accounts[id], rs)
              /\ BalanceOf(b.accounts[id]) >= 0
              /\ PermsInv(id, b.accounts[id], rs)
        /\ accounts[b.owner] # None
        /\ b.supply = supply + Minted(rs)
        /\ b.supply \in 0 .. MAX_AMOUNT
        /\ Total(b.accounts) + Rewards(rs) = b.supply
    BY <1>1 DEF SettledInv
  <1> HIDE DEF b
  <1>5. b.accounts \in [Ids -> MaybeAccount] /\ b.supply \in Int /\ b.owner \in Ids
    BY <1>2, BatchFields
  <1>6. \A id \in Ids : accounts[id] \in MaybeAccount
    BY <1>1, BatchType
  <1>7. \A id \in Ids : BalanceOf(b.accounts[id]) \in Nat
    <2>1. \A id \in Ids : BalanceOf(b.accounts[id]) \in Int
      BY <1>5, AccountFields DEF MaybeAccount, BalanceOf
    <2> QED
      BY <1>4, <2>1
  <1>8. Total(b.accounts) \in Nat
    BY <1>7, TotalNat
  <1>9. /\ t \in Int /\ t <= b.supply /\ b.supply <= MAX_AMOUNT /\ 0 <= b.supply
        /\ Total(b.accounts) = t
    <2>1. b.supply <= MAX_AMOUNT /\ 0 <= b.supply
      BY <1>4, LedgerAssumption
    <2> QED
      BY <1>1, <1>3, <1>4, <1>5, <1>8, <2>1
  <1> HIDE DEF t
  <1>10. Holds(b, t)
    BY <1>1, <1>2, <1>7, <1>9 DEF Holds
  <1> QED
    BY <1>2, <1>3, <1>4, <1>5, <1>6, <1>9, <1>10 DEF b, t

\* Where the permissions of an account come from.
PermsStep(id, l, l2, r) ==
    l2 # None =>
        \/ l # None /\ l2.perms = l.perms
        \/ IsValid(l2.perms)
        \/ /\ r.tx.type = "Update" /\ r.tx.account_id = id
           /\ r.tx.new_permissions = l2.perms /\ r.tx.new_script # None

LEMMA PermsAfter ==
  ASSUME NEW id, NEW l, NEW l2, NEW rs \in Seq(Receipts), NEW r \in Receipts,
         PermsInv(id, l, rs), PermsStep(id, l, l2, r)
  PROVE  PermsInv(id, l2, Append(rs, r))
  <1>1. GivenUnchecked(id, l2.perms, Append(rs, r)) <=>
           \/ GivenUnchecked(id, l2.perms, rs)
           \/ /\ r.tx.type = "Update" /\ r.tx.account_id = id
              /\ r.tx.new_permissions = l2.perms /\ r.tx.new_script # None
    BY AppendStatements
  <1> QED
    BY <1>1 DEF PermsInv, PermsStep

\* How much a receipt mints.
MintOf(r) == IF r.tx.type = "Mint" THEN r.tx.amount ELSE 0

\* Receipt r takes the batch from b to c, for each account and in total.
GoodStep(rs, r, b, c) ==
    /\ \A id \in Ids :
          /\ StepAgrees(id, accounts[id], GetAccount(id, rs), b.accounts[id],
                        OverlayReceipt(id, GetAccount(id, rs), r), c.accounts[id], r)
          /\ PermsStep(id, b.accounts[id], c.accounts[id], r)
    /\ accounts[c.owner] # None
    /\ c.supply = b.supply + MintOf(r)
    /\ c.supply <= MAX_AMOUNT
    /\ Holds(c, c.supply - Rewards(rs) - r.tx.fee)

\* The invariant with one receipt more, from what the receipt does to each
\* account.
LEMMA SettledStep ==
  ASSUME NEW rs, Settles(rs), NEW r \in Receipts, MintOf(r) \in Nat,
         GoodStep(rs, r, Left(rs), IndexReceipt(Left(rs), r))
  PROVE  Left(Append(rs, r)).ok /\ SettledInv(Append(rs, r))
  <1> DEFINE b == Left(rs)
             c == IndexReceipt(b, r)
             new == Append(rs, r)
  <1>1. /\ SoundIndex(accounts, supply, owner) /\ rs \in Seq(Receipts)
    BY DEF Settles
  <1>2. /\ b \in Batches /\ b.supply \in Int /\ Rewards(rs) \in Int /\ Minted(rs) \in Int
        /\ b.supply = supply + Minted(rs) /\ 0 <= b.supply
        /\ \A id \in Ids :
              /\ accounts[id] \in MaybeAccount /\ b.accounts[id] \in MaybeAccount
              /\ GetAccount(id, rs) \in MaybeAccount
              /\ Agree(id, accounts[id], GetAccount(id, rs), b.accounts[id], rs)
              /\ PermsInv(id, b.accounts[id], rs)
    BY SettledFacts
  <1>3. /\ Left(new) = c
        /\ \A id \in Ids : GetAccount(id, new) = OverlayReceipt(id, GetAccount(id, rs), r)
    BY <1>1, ReceiptSteps
  <1>4. r.tx.fee \in Int /\ (r.tx.type = "Mint" => r.tx.amount \in Int) /\ supply \in Int
    BY <1>1, TxFields, LedgerAssumption DEF Receipts, SoundIndex
  <1>5. Rewards(new) = Rewards(rs) + r.tx.fee /\ Minted(new) = Minted(rs) + MintOf(r)
    <2>1. Rewards(new) = Rewards(rs) + r.tx.fee
      BY <1>1, RewardsSteps
    <2>2. Minted(new) = IF r.tx.type = "Mint" THEN Minted(rs) + r.tx.amount ELSE Minted(rs)
      BY <1>1, MintedSteps
    <2> QED
      BY <1>2, <2>1, <2>2 DEF MintOf
  <1>6. /\ \A id \in Ids :
              /\ StepAgrees(id, accounts[id], GetAccount(id, rs), b.accounts[id],
                            OverlayReceipt(id, GetAccount(id, rs), r), c.accounts[id], r)
              /\ PermsStep(id, b.accounts[id], c.accounts[id], r)
        /\ accounts[c.owner] # None
        /\ c.supply = b.supply + MintOf(r)
        /\ c.supply <= MAX_AMOUNT
        /\ Holds(c, c.supply - Rewards(rs) - r.tx.fee)
    BY DEF GoodStep
  <1> HIDE DEF b, c, new
  <1>7. /\ c \in Batches /\ c.ok
        /\ \A id \in Ids : BalanceOf(c.accounts[id]) \in Nat
        /\ Total(c.accounts) = c.supply - Rewards(rs) - r.tx.fee
    BY <1>6 DEF Holds
  <1>8. \A id \in Ids : c.accounts[id] \in MaybeAccount
    BY <1>7, BatchFields
  <1>9. ASSUME NEW id \in Ids
        PROVE  /\ Agree(id, accounts[id], GetAccount(id, new), c.accounts[id], new)
               /\ BalanceOf(c.accounts[id]) >= 0
               /\ PermsInv(id, c.accounts[id], new)
    <2>1. Agree(id, accounts[id], GetAccount(id, new), c.accounts[id], new)
      BY <1>1, <1>2, <1>3, <1>6, <1>8, AgreeStep DEF new
    <2>2. PermsInv(id, c.accounts[id], new)
      BY <1>1, <1>2, <1>6, PermsAfter DEF new
    <2> QED
      BY <1>7, <2>1, <2>2
  <1>10. c.supply \in Int
    BY <1>7, BatchFields
  <1>11. c.supply = supply + Minted(new)
    BY <1>2, <1>4, <1>5, <1>6
  <1>12. c.supply \in 0 .. MAX_AMOUNT
    BY <1>2, <1>6, <1>10, LedgerAssumption
  <1>13. Total(c.accounts) + Rewards(new) = c.supply
    BY <1>2, <1>4, <1>5, <1>7, <1>10
  <1>14. SettledInv(new)
    BY <1>3, <1>6, <1>9, <1>11, <1>12, <1>13 DEF SettledInv
  <1> QED
    BY <1>3, <1>7, <1>14 DEF new

\* No fee is negative.
LEMMA FeeFacts ==
  ASSUME NEW id, NEW rs, HasFee(id, rs)
  PROVE  TotalFee(id, rs) \in Nat /\ AccountTxFee(id, rs) \in Nat /\ MinBalance(id, rs) \in Nat
  <1>1. TotalFee(id, rs) \in Nat
    BY LedgerAssumption DEF HasFee, TotalFee
  <1> QED
    BY <1>1 DEF AccountTxFee, MinBalance

LEMMA ReceiptFields ==
  ASSUME NEW tx \in Tx, NEW log \in Seq(LogEntry)
  PROVE  /\ Receipt(tx, log) \in Receipts
         /\ Receipt(tx, log).tx = tx /\ Receipt(tx, log).log = log
  BY DEF Receipt, Receipts

LEMMA EmptyLog ==
  ASSUME NEW tx \in Tx
  PROVE  Receipt(tx, <<>>) \in Receipts /\ Receipt(tx, <<>>).tx = tx
  <1>1. <<>> \in Seq(LogEntry)
    OBVIOUS
  <1> QED
    BY <1>1, ReceiptFields

\* An account that get_account shows is in the index and stays there.
LEMMA SeenFacts ==
  ASSUME NEW rs, Settles(rs), NEW id \in Ids,
         accounts[id] # None \/ GetAccount(id, rs) # None
  PROVE  LET s == GetAccount(id, rs)
             l == Left(rs).accounts[id]
         IN  /\ accounts[id] # None /\ s # None /\ l # None
             /\ s \in Account /\ l \in Account
             /\ s.balance \in Int /\ l.balance \in Int
             /\ 0 <= s.balance /\ s.balance <= l.balance
             /\ s.destroyed = l.destroyed
             /\ ~UpdatedElsewhere(id, rs) => s.script = l.script /\ s.perms = l.perms
  <1> DEFINE s == GetAccount(id, rs)
             l == Left(rs).accounts[id]
  <1>1. Agree(id, accounts[id], s, l, rs) /\ s \in MaybeAccount /\ l \in MaybeAccount
    BY SettledFacts
  <1> HIDE DEF s, l
  <1>2. accounts[id] # None
    BY <1>1 DEF Agree, s
  <1>3. /\ s # None /\ l # None /\ 0 <= s.balance /\ s.balance <= l.balance
        /\ s.destroyed = l.destroyed
        /\ ~UpdatedElsewhere(id, rs) => s.script = l.script /\ s.perms = l.perms
    BY <1>1, <1>2 DEF Agree
  <1>4. s \in Account /\ l \in Account
    BY <1>1, <1>3 DEF MaybeAccount
  <1>5. s.balance \in Int /\ l.balance \in Int
    BY <1>4, AccountFields
  <1> QED
    BY <1>2, <1>3, <1>4, <1>5 DEF s, l

\* The same change to both sides of an account.
Shifted(s, l, s2, l2, n) ==
    /\ WithBalance(s2, s, s.balance + n) /\ WithBalance(l2, l, l.balance + n)
    /\ 0 <= s2.balance /\ s2.balance <= l2.balance

LEMMA AdjustBoth ==
  ASSUME NEW s \in Account, NEW l \in Account, NEW l2, NEW n \in Int,
         s.balance <= l.balance, 0 <= s.balance + n, l.balance + n <= MAX_AMOUNT,
         WithBalance(l2, l, l.balance + n)
  PROVE  Adjust(s, n) \in Account /\ Shifted(s, l, Adjust(s, n), l2, n)
  <1>1. s.balance \in Int /\ l.balance \in Int
    BY AccountFields
  <1>2. InRange(s.balance + n)
    BY <1>1, LedgerAssumption DEF InRange, Amount
  <1>3. WithBalance(Adjust(s, n), s, s.balance + n)
    BY <1>2, AdjustFacts
  <1> QED
    BY <1>1, <1>3 DEF Shifted, WithBalance

\* A shifted account agrees, when it is not a destroyed one that gains by
\* anything but a mint.
LEMMA ShiftedAgrees ==
  ASSUME NEW id, NEW acc, NEW s \in Account, NEW l \in Account, NEW s2, NEW l2, NEW n \in Int,
         NEW r, acc # None, Shifted(s, l, s2, l2, n), s.destroyed = l.destroyed,
         id \in Names(r) \/ l2 = l,
         l.destroyed => n <= 0 \/ (r.tx.type = "Mint" /\ r.tx.to = id)
  PROVE  StepAgrees(id, acc, s, l, s2, l2, r) /\ PermsStep(id, l, l2, r)
  <1>1. /\ s2 \in Account /\ s2.destroyed = s.destroyed
        /\ s2.script = s.script /\ s2.perms = s.perms
        /\ l2 \in Account /\ l2.destroyed = l.destroyed
        /\ l2.balance = l.balance + n
        /\ l2.script = l.script /\ l2.perms = l.perms
        /\ 0 <= s2.balance /\ s2.balance <= l2.balance
    BY DEF Shifted, WithBalance
  <1>2. s2 # None /\ l2 # None /\ l # None /\ l.balance \in Int
    BY <1>1, AccountFields
  <1>3. l2.destroyed /\ ~(r.tx.type = "Mint" /\ r.tx.to = id) =>
           l2.balance <= IF l.destroyed THEN l.balance ELSE 0
    BY <1>1, <1>2
  <1> QED
    BY <1>1, <1>2, <1>3 DEF StepAgrees, PermsStep

\* A receipt that leaves an account alone.
LEMMA SameStep ==
  ASSUME NEW rs, Settles(rs), NEW id \in Ids, NEW r
  PROVE  LET s == GetAccount(id, rs)
             l == Left(rs).accounts[id]
         IN  StepAgrees(id, accounts[id], s, l, s, l, r) /\ PermsStep(id, l, l, r)
  <1>1. /\ Left(rs).accounts[id] \in MaybeAccount
        /\ Agree(id, accounts[id], GetAccount(id, rs), Left(rs).accounts[id], rs)
    BY SettledFacts
  <1> QED
    BY <1>1, SameAgrees DEF PermsStep

\* An owner transaction names an account that exists.
LEMMA PushOwner ==
  ASSUME NEW rs, Settles(rs), NEW tx \in Tx, tx.type = "Owner", OwnerOk(tx, rs)
  PROVE  GoodStep(rs, Receipt(tx, <<>>), Left(rs), IndexReceipt(Left(rs), Receipt(tx, <<>>)))
  <1> DEFINE r == Receipt(tx, <<>>)
             b == Left(rs)
             c == IndexReceipt(b, r)
  <1>1. r.tx = tx
    BY EmptyLog
  <1>2. tx.wallet \in Ids /\ tx.fee = 0 /\ GetAccount(tx.wallet, rs) # None
    BY TxFields DEF OwnerOk
  <1>3. /\ b \in Batches /\ b.ok /\ Holds(b, b.supply - Rewards(rs)) /\ b.supply \in Int
        /\ Rewards(rs) \in Int /\ b.supply <= MAX_AMOUNT
    BY SettledFacts DEF Settles
  <1> HIDE DEF r
  <1>4. c = [b EXCEPT !.owner = tx.wallet]
    BY <1>1, <1>3 DEF IndexReceipt
  <1> HIDE DEF b, c
  <1>5. /\ c \in Batches /\ c.accounts = b.accounts /\ c.supply = b.supply /\ c.ok = b.ok
        /\ c.owner = tx.wallet
    BY <1>2, <1>3, <1>4 DEF Batches
  <1>6. accounts[c.owner] # None
    BY <1>2, <1>5, SeenFacts
  <1>7. \A id \in Ids : OverlayReceipt(id, GetAccount(id, rs), r) = GetAccount(id, rs)
    BY <1>1 DEF OverlayReceipt
  <1>8. ASSUME NEW id \in Ids
        PROVE  /\ StepAgrees(id, accounts[id], GetAccount(id, rs), b.accounts[id],
                             OverlayReceipt(id, GetAccount(id, rs), r), c.accounts[id], r)
               /\ PermsStep(id, b.accounts[id], c.accounts[id], r)
    BY <1>5, <1>7, SameStep DEF b
  <1>9. MintOf(r) = 0
    BY <1>1 DEF MintOf
  <1>10. Holds(c, c.supply - Rewards(rs) - tx.fee)
    <2>1. c.supply - Rewards(rs) - tx.fee = b.supply - Rewards(rs)
      BY <1>2, <1>3, <1>5
    <2> QED
      BY <1>3, <1>5, <2>1 DEF Holds
  <1>11. c.supply = b.supply + MintOf(r) /\ c.supply <= MAX_AMOUNT
    BY <1>3, <1>5, <1>9
  <1>12. GoodStep(rs, r, b, c)
    BY <1>1, <1>6, <1>8, <1>10, <1>11 DEF GoodStep
  <1> QED
    BY <1>12 DEF r, b, c

\* A mint is indexed, or it is one of the bad ones.
LEMMA PushMint ==
  ASSUME NEW rs, Settles(rs), NEW tx \in Tx, tx.type = "Mint", MintOk(tx, rs)
  PROVE  LET r == Receipt(tx, <<>>)
             c == IndexReceipt(Left(rs), r)
         IN  IF c.ok THEN GoodStep(rs, r, Left(rs), c) ELSE BadMints(Append(rs, r))
  <1> DEFINE r == Receipt(tx, <<>>)
             b == Left(rs)
             m == AddTokenSupply(b, tx.amount)
             c == IndexReceipt(b, r)
             t == b.supply - Rewards(rs)
             to == tx.to
             n == tx.amount
  <1>1. r.tx = tx /\ r \in Receipts
    BY EmptyLog
  <1>2. to \in Ids /\ n \in Int /\ tx.fee = 0 /\ n >= 0
    BY TxFields DEF MintOk
  <1>3. /\ b \in Batches /\ b.ok /\ Holds(b, t) /\ b.supply \in Int /\ t \in Int
        /\ Rewards(rs) \in Int /\ b.supply <= MAX_AMOUNT /\ 0 <= b.supply /\ t <= b.supply
        /\ accounts[b.owner] # None /\ b.supply = supply + Minted(rs)
        /\ Minted(rs) \in Int /\ rs \in Seq(Receipts)
        /\ \A id \in Ids :
              /\ b.accounts[id] \in MaybeAccount
              /\ Agree(id, accounts[id], GetAccount(id, rs), b.accounts[id], rs)
    BY SettledFacts DEF Settles
  <1>s. supply \in Int
    BY LedgerAssumption DEF Settles, SoundIndex
  <1> HIDE DEF r
  <1>4. c = AddBal(m, to, n)
    BY <1>1, <1>3 DEF IndexReceipt
  <1> HIDE DEF b, c, t
  <1>5. /\ m \in Batches /\ m.accounts = b.accounts /\ m.owner = b.owner
        /\ m.ok <=> InRange(b.supply + n)
        /\ InRange(b.supply + n) => m.supply = b.supply + n
    BY <1>2, <1>3, AddSupplyFacts
  <1> HIDE DEF m
  <1>6. MintOf(r) = n
    BY <1>1 DEF MintOf
  <1>7. CASE ~InRange(b.supply + n)
    <2>1. ~c.ok
      BY <1>2, <1>4, <1>5, <1>7, AddBalFacts DEF CanAdd
    <2>2. Minted(Append(rs, r)) = Minted(rs) + n
      BY <1>1, <1>3, MintedSteps
    <2>3. supply + Minted(Append(rs, r)) = b.supply + n
      BY <1>2, <1>3, <1>s, <2>2
    <2> QED
      BY <1>7, <2>1, <2>3 DEF BadMints, r, b, c
  <1>8. CASE InRange(b.supply + n) /\ b.accounts[to] = None
    <2>1. ~c.ok
      BY <1>2, <1>4, <1>5, <1>8, AddBalFacts DEF CanAdd
    <2>2. accounts[to] = None
      BY <1>2, <1>3, <1>8 DEF Agree
    <2>3. MintedTo(to, Append(rs, r))
      BY <1>1, <1>3, AppendStatements
    <2> QED
      BY <1>2, <2>1, <2>2, <2>3 DEF BadMints, r, b, c
  <1>9. CASE InRange(b.supply + n) /\ b.accounts[to] # None
    <2>1. b.supply + n <= MAX_AMOUNT /\ m.ok /\ m.supply = b.supply + n
      BY <1>5, <1>9, LedgerAssumption DEF InRange, Amount
    <2>2. Holds(m, t)
      BY <1>3, <1>5, <2>1 DEF Holds
    <2>3. b.accounts[to] \in Account
      BY <1>2, <1>3, <1>9 DEF MaybeAccount
    <2>4. b.accounts[to].balance \in Nat
      BY <1>2, <1>3, <2>3, AccountFields DEF Holds
    <2>5. t + n <= MAX_AMOUNT /\ b.accounts[to].balance + n >= 0
      <3>1. t \in Int /\ t <= b.supply /\ b.supply \in Int
        BY <1>3
      <3>2. n \in Int /\ n >= 0
        BY <1>2
      <3> HIDE DEF n, to
      <3>3. t + n <= MAX_AMOUNT
        BY <2>1, <3>1, <3>2, MaxNat
      <3>4. b.accounts[to].balance + n >= 0
        BY <2>4, <3>2
      <3> QED
        BY <3>3, <3>4
    <2>6. /\ Holds(c, t + n) /\ c.supply = m.supply /\ c.owner = b.owner
          /\ WithBalance(c.accounts[to], b.accounts[to], b.accounts[to].balance + n)
          /\ c.accounts[to].balance <= t + n
          /\ \A x \in Ids : x # to => c.accounts[x] = b.accounts[x]
      BY <1>2, <1>3, <1>4, <1>5, <1>9, <2>2, <2>5, Moved
    <2>7. ASSUME NEW id \in Ids
          PROVE  /\ StepAgrees(id, accounts[id], GetAccount(id, rs), b.accounts[id],
                               OverlayReceipt(id, GetAccount(id, rs), r), c.accounts[id], r)
                 /\ PermsStep(id, b.accounts[id], c.accounts[id], r)
      <3>1. CASE id # to
        <4>1. OverlayReceipt(id, GetAccount(id, rs), r) = GetAccount(id, rs)
          BY <1>1, <3>1 DEF OverlayReceipt
        <4>2. c.accounts[id] = b.accounts[id]
          BY <2>6, <3>1
        <4> QED
          BY <4>1, <4>2, SameStep DEF b
      <3>2. CASE id = to /\ accounts[id] = None
        <4>1. GetAccount(id, rs) = None
          BY <1>3, <3>2 DEF Agree
        <4>2. OverlayReceipt(id, GetAccount(id, rs), r) = None
          BY <4>1 DEF OverlayReceipt
        <4>3. id \in Names(r)
          BY <1>1, <3>2 DEF Names
        <4>4. c.accounts[id].perms = b.accounts[id].perms
          BY <2>6, <3>2 DEF WithBalance
        <4> QED
          BY <1>9, <3>2, <4>2, <4>3, <4>4 DEF StepAgrees, PermsStep
      <3>3. CASE id = to /\ accounts[id] # None
        <4> DEFINE s == GetAccount(id, rs)
                   l == b.accounts[id]
        <4>1. /\ s # None /\ s \in Account /\ l \in Account
              /\ s.balance \in Int /\ l.balance \in Int
              /\ 0 <= s.balance /\ s.balance <= l.balance /\ s.destroyed = l.destroyed
          BY <3>3, SeenFacts DEF b
        <4>2. OverlayReceipt(id, s, r) = Adjust(s, n)
          BY <1>1, <3>3, <4>1 DEF OverlayReceipt
        <4>3. WithBalance(c.accounts[id], l, l.balance + n) /\ c.accounts[id].balance <= t + n
          BY <2>6, <3>3
        <4>4. id \in Names(r) /\ r.tx.type = "Mint" /\ r.tx.to = id
          BY <1>1, <3>3 DEF Names
        <4> HIDE DEF s, l
        <4>5. l.balance + n <= MAX_AMOUNT
          BY <1>2, <1>3, <2>5, <4>1, <4>3, MaxNat DEF WithBalance
        <4>6. 0 <= s.balance + n
          BY <1>2, <4>1
        <4>7. Shifted(s, l, Adjust(s, n), c.accounts[id], n)
          BY <1>2, <4>1, <4>3, <4>5, <4>6, AdjustBoth
        <4>8. /\ StepAgrees(id, accounts[id], s, l, Adjust(s, n), c.accounts[id], r)
              /\ PermsStep(id, l, c.accounts[id], r)
          BY <1>2, <3>3, <4>1, <4>4, <4>7, ShiftedAgrees
        <4> QED
          BY <4>2, <4>8 DEF s, l
      <3> QED
        BY <3>1, <3>2, <3>3
    <2>8. /\ accounts[c.owner] # None /\ c.supply = b.supply + MintOf(r)
          /\ c.supply <= MAX_AMOUNT
      BY <1>3, <1>6, <2>1, <2>6
    <2>9. Holds(c, c.supply - Rewards(rs) - tx.fee)
      <3>1. c.supply - Rewards(rs) - tx.fee = t + n
        BY <1>2, <1>3, <2>1, <2>6 DEF t
      <3> QED
        BY <2>6, <3>1
    <2>10. GoodStep(rs, r, b, c)
      BY <1>1, <2>7, <2>8, <2>9 DEF GoodStep
    <2>11. c.ok
      BY <2>6 DEF Holds
    <2> QED
      BY <2>10, <2>11 DEF r, b, c
  <1> QED
    BY <1>7, <1>8, <1>9

\* The creator can pay, and the new account is not there yet.
LEMMA PushCreate ==
  ASSUME NEW rs, Settles(rs), NEW tx \in Tx, tx.type = "Create", CreateOk(tx, rs)
  PROVE  /\ tx.fee >= 0
         /\ GoodStep(rs, Receipt(tx, <<>>), Left(rs),
                     IndexReceipt(Left(rs), Receipt(tx, <<>>)))
  <1> DEFINE r == Receipt(tx, <<>>)
             b == Left(rs)
             c == IndexReceipt(b, r)
             t == b.supply - Rewards(rs)
             x == tx.creator
             y == tx.account.id
             n == tx.account.balance
             fee == tx.fee
             s == GetAccount(x, rs)
             l == b.accounts[x]
  <1>1. r.tx = tx /\ r \in Receipts
    BY EmptyLog
  <1>2. fee \in Int /\ x \in Ids /\ tx.account \in NewAccount
    BY TxFields
  <1>3. y \in Ids /\ n \in Int
    BY <1>2, NewAccountFields
  <1>4. /\ IsValid(tx.account.perms) /\ accounts[y] = None /\ s # None /\ HasFee(x, rs)
        /\ fee >= AccountTxFee(x, rs) /\ n >= MinBalance(x, rs)
        /\ s.balance - fee - n >= 0
        /\ ~CreatedIn(y, rs)
    BY DEF CreateOk, CreatedIn
  <1>5. fee >= 0 /\ n >= 0
    <2>1. AccountTxFee(x, rs) \in Nat /\ MinBalance(x, rs) \in Nat
      BY <1>4, FeeFacts
    <2> QED
      BY <1>2, <1>3, <1>4, <2>1
  <1>6. /\ b \in Batches /\ b.ok /\ Holds(b, t) /\ b.supply \in Int /\ t \in Int
        /\ Rewards(rs) \in Int /\ b.supply <= MAX_AMOUNT /\ t <= b.supply
        /\ accounts[b.owner] # None
        /\ \A id \in Ids :
              /\ b.accounts[id] \in MaybeAccount
              /\ Agree(id, accounts[id], GetAccount(id, rs), b.accounts[id], rs)
    BY SettledFacts DEF Settles
  <1>7. /\ accounts[x] # None /\ l # None /\ s \in Account /\ l \in Account
        /\ s.balance \in Int /\ l.balance \in Int
        /\ 0 <= s.balance /\ s.balance <= l.balance /\ s.destroyed = l.destroyed
    BY <1>2, <1>4, SeenFacts
  <1>8. x # y /\ b.accounts[y] = None /\ GetAccount(y, rs) = None
    BY <1>3, <1>4, <1>6, <1>7 DEF Agree
  <1>9. c = IndexCreate(b, tx)
    BY <1>1, <1>6 DEF IndexReceipt
  <1> HIDE DEF r, b, c
  <1> DEFINE k == -(fee + n)
  <1>10. /\ c \in Batches /\ c.supply = b.supply /\ c.owner = b.owner
         /\ c.ok <=> CanAdd(b, x, k)
         /\ c.accounts[y] # None /\ c.accounts[y].balance = n
         /\ c.accounts[y].perms = tx.account.perms
         /\ \A id \in Ids \ {x, y} : c.accounts[id] = b.accounts[id]
         /\ c.ok => WithBalance(c.accounts[x], l, l.balance + k)
    BY <1>6, <1>8, <1>9, IndexCreateFacts
  <1> HIDE DEF t, x, y, n, fee, s, l
  <1>11. k \in Int /\ k <= 0 /\ s.balance + k >= 0 /\ l.balance + k >= 0
         /\ -(n + fee) = k
    BY <1>2, <1>3, <1>4, <1>5, <1>7
  <1>12. l.balance <= t
    <2>1. \A id \in Ids : BalanceOf(b.accounts[id]) \in Nat
      BY <1>6 DEF Holds
    <2>2. BalanceOf(b.accounts[x]) <= Total(b.accounts)
      BY <1>2, <2>1, TotalBounds
    <2> QED
      BY <1>6, <1>7, <2>2, AccountFields DEF Holds, l
  <1>13. l.balance + k <= MAX_AMOUNT
    <2> HIDE DEF k
    <2> QED
      BY <1>6, <1>7, <1>11, <1>12, MaxNat
  <1>14. CanAdd(b, x, k)
    <2>1. InRange(l.balance + k)
      <3> HIDE DEF k
      <3> QED
        BY <1>7, <1>11, <1>13, MaxNat DEF InRange, Amount
    <2> QED
      BY <1>6, <1>7, <2>1 DEF CanAdd, l
  <1> HIDE DEF k
  <1>15. c.ok /\ WithBalance(c.accounts[x], l, l.balance + k)
    BY <1>10, <1>14
  <1>16. /\ BalanceOf(c.accounts[x]) = l.balance + k /\ BalanceOf(b.accounts[x]) = l.balance
         /\ BalanceOf(c.accounts[y]) = n /\ BalanceOf(b.accounts[y]) = 0
    BY <1>7, <1>8, <1>10, <1>15, AccountFields DEF WithBalance, BalanceOf, l
  <1>17. Holds(c, t - fee)
    <2>1. \A id \in Ids : BalanceOf(b.accounts[id]) \in Nat
      BY <1>6 DEF Holds
    <2>2. \A id \in Ids : BalanceOf(c.accounts[id]) \in Nat
      <3>1. l.balance + k \in Nat /\ n \in Nat
        BY <1>3, <1>5, <1>7, <1>11
      <3> QED
        BY <1>10, <1>16, <2>1, <3>1
    <2>3. Balances(b.accounts) /\ Balances(c.accounts)
      BY <2>1, <2>2 DEF Balances
    <2>4. Total(c.accounts) - Total(b.accounts) =
             (BalanceOf(c.accounts[x]) - BalanceOf(b.accounts[x]))
             + (BalanceOf(c.accounts[y]) - BalanceOf(b.accounts[y]))
      BY <1>2, <1>3, <1>8, <1>10, <2>3, TotalChange2
    <2>5. Total(c.accounts) \in Int /\ Total(b.accounts) = t
      <3>1. Total(c.accounts) \in Nat
        BY <2>2, TotalNat
      <3> QED
        BY <1>6, <3>1 DEF Holds
    <2>6. Total(c.accounts) - t = ((l.balance + k) - l.balance) + (n - 0)
      BY <1>16, <2>4, <2>5
    <2>7. k = -(fee + n)
      BY DEF k
    <2>8. Total(c.accounts) = t - fee
      BY <1>2, <1>3, <1>6, <1>7, <1>11, <2>5, <2>6, <2>7
    <2> QED
      BY <1>10, <1>15, <2>2, <2>8 DEF Holds
  <1>18. ASSUME NEW id \in Ids
         PROVE  /\ StepAgrees(id, accounts[id], GetAccount(id, rs), b.accounts[id],
                              OverlayReceipt(id, GetAccount(id, rs), r), c.accounts[id], r)
                /\ PermsStep(id, b.accounts[id], c.accounts[id], r)
    <2>1. CASE id = x
      <3>1. OverlayReceipt(id, s, r) = Adjust(s, k)
        BY <1>1, <1>7, <1>11, <2>1, AccountFields DEF OverlayReceipt, x, n, fee
      <3>2. id \in Names(r)
        BY <1>1, <2>1 DEF Names, x
      <3>3. Shifted(s, l, Adjust(s, k), c.accounts[x], k)
        BY <1>7, <1>11, <1>13, <1>15, AdjustBoth
      <3>4. /\ StepAgrees(id, accounts[id], s, l, Adjust(s, k), c.accounts[x], r)
            /\ PermsStep(id, l, c.accounts[x], r)
        BY <1>7, <1>11, <2>1, <3>2, <3>3, ShiftedAgrees
      <3> QED
        BY <2>1, <3>1, <3>4 DEF s, l
    <2>2. CASE id = y
      <3>1. OverlayReceipt(id, GetAccount(id, rs), r) = None
        BY <1>8, <2>2 DEF OverlayReceipt
      <3>2. id \in Names(r) /\ r.tx.type = "Create" /\ r.tx.account.id = id
        BY <1>1, <2>2 DEF Names, y
      <3>3. IsValid(c.accounts[id].perms)
        BY <1>4, <1>10, <2>2
      <3> QED
        BY <1>4, <2>2, <3>1, <3>2, <3>3 DEF StepAgrees, PermsStep
    <2>3. CASE id # x /\ id # y
      <3>1. OverlayReceipt(id, GetAccount(id, rs), r) = GetAccount(id, rs)
        BY <1>1, <2>3 DEF OverlayReceipt, x
      <3>2. c.accounts[id] = b.accounts[id]
        BY <1>10, <2>3
      <3> QED
        BY <3>1, <3>2, SameStep DEF b
    <2> QED
      BY <2>1, <2>2, <2>3
  <1>19. c.supply = b.supply + MintOf(r) /\ c.supply <= MAX_AMOUNT /\ accounts[c.owner] # None
    BY <1>1, <1>6, <1>10 DEF MintOf
  <1>20. Holds(c, c.supply - Rewards(rs) - fee)
    <2>1. c.supply - Rewards(rs) - fee = t - fee
      BY <1>10 DEF t
    <2> QED
      BY <1>17, <2>1
  <1>21. GoodStep(rs, r, b, c)
    BY <1>1, <1>18, <1>19, <1>20 DEF GoodStep, fee
  <1> QED
    BY <1>5, <1>21 DEF r, b, c, fee

\* get_account with an update on top.
LEMMA OverlayUpdated ==
  ASSUME NEW id, NEW s \in Account, NEW r, r.tx \in Tx, r.tx.type = "Update",
         r.tx.account_id = id => InRange(s.balance - r.tx.fee)
  PROVE  LET s2 == OverlayReceipt(id, s, r)
         IN  /\ s2 \in Account /\ s2.destroyed = s.destroyed
             /\ s2.balance = IF r.tx.account_id = id THEN s.balance - r.tx.fee ELSE s.balance
             /\ s2.script = IF r.tx.new_script = None THEN s.script ELSE r.tx.new_script
             /\ s2.perms = IF r.tx.new_permissions = None THEN s.perms
                           ELSE r.tx.new_permissions
  <1> DEFINE tx == r.tx
             charged == IF tx.account_id = id THEN Adjust(s, -tx.fee) ELSE s
             s2 == OverlayReceipt(id, s, r)
  <1>1. /\ tx.fee \in Int /\ -tx.fee \in Int
        /\ tx.new_script \in Script \cup {None} /\ tx.new_permissions \in Permissions \cup {None}
    BY TxFields
  <1>2. s # None /\ s.balance \in Int
    BY AccountFields
  <1>3. s2 = IF charged = None THEN None ELSE Renewed(charged, tx)
    BY <1>2 DEF OverlayReceipt, OverlayUpdate
  <1>4. WithBalance(charged, s, IF tx.account_id = id THEN s.balance - tx.fee ELSE s.balance)
    <2>1. CASE tx.account_id = id
      <3>1. s.balance + (-tx.fee) = s.balance - tx.fee
        BY <1>1, <1>2
      <3>2. WithBalance(Adjust(s, -tx.fee), s, s.balance + (-tx.fee))
        BY <1>1, <2>1, <3>1, AdjustFacts
      <3> QED
        BY <2>1, <3>1, <3>2
    <2>2. CASE tx.account_id # id
      BY <2>2 DEF WithBalance
    <2> QED
      BY <2>1, <2>2
  <1> HIDE DEF charged, s2
  <1>5. charged \in Account /\ charged # None
    BY <1>4, AccountFields DEF WithBalance
  <1>6. s2 = Renewed(charged, tx)
    BY <1>3, <1>5
  <1>7. /\ s2 \in Account /\ s2.balance = charged.balance /\ s2.destroyed = charged.destroyed
        /\ s2.script = IF tx.new_script = None THEN charged.script ELSE tx.new_script
        /\ s2.perms = IF tx.new_permissions = None THEN charged.perms ELSE tx.new_permissions
    BY <1>1, <1>5, <1>6, RenewedFacts
  <1> QED
    BY <1>4, <1>7 DEF WithBalance, s2

\* The account can pay, and new permissions that come alone are valid.
LEMMA PushUpdate ==
  ASSUME NEW rs, Settles(rs), NEW tx \in Tx, tx.type = "Update", UpdateOk(tx, rs)
  PROVE  /\ tx.fee >= 0
         /\ GoodStep(rs, Receipt(tx, <<>>), Left(rs),
                     IndexReceipt(Left(rs), Receipt(tx, <<>>)))
  <1> DEFINE r == Receipt(tx, <<>>)
             b == Left(rs)
             c == IndexReceipt(b, r)
             t == b.supply - Rewards(rs)
             x == tx.account_id
             fee == tx.fee
             s == GetAccount(x, rs)
             l == b.accounts[x]
  <1>1. r.tx = tx /\ r \in Receipts
    BY EmptyLog
  <1>2. fee \in Int /\ x \in Ids
    BY TxFields
  <1>4. /\ s # None /\ HasFee(x, rs) /\ ~s.destroyed
        /\ tx.new_script = None /\ tx.new_permissions # None => IsValid(tx.new_permissions)
        /\ fee >= AccountTxFee(x, rs) /\ s.balance - fee >= 0
    BY DEF UpdateOk
  <1>5. fee >= 0
    <2>1. AccountTxFee(x, rs) \in Nat
      BY <1>4, FeeFacts
    <2> QED
      BY <1>2, <1>4, <2>1
  <1>6. /\ b \in Batches /\ b.ok /\ Holds(b, t) /\ b.supply \in Int /\ t \in Int
        /\ Rewards(rs) \in Int /\ b.supply <= MAX_AMOUNT /\ t <= b.supply
        /\ accounts[b.owner] # None
        /\ \A id \in Ids :
              /\ b.accounts[id] \in MaybeAccount
              /\ Agree(id, accounts[id], GetAccount(id, rs), b.accounts[id], rs)
    BY SettledFacts DEF Settles
  <1>7. /\ accounts[x] # None /\ l # None /\ s \in Account /\ l \in Account
        /\ s.balance \in Int /\ l.balance \in Int
        /\ 0 <= s.balance /\ s.balance <= l.balance /\ s.destroyed = l.destroyed
        /\ BalanceOf(l) = l.balance
    BY <1>2, <1>4, SeenFacts, AccountFields
  <1>9. c = IndexUpdate(b, tx)
    BY <1>1, <1>6 DEF IndexReceipt
  <1> HIDE DEF r, b, c
  <1>10. /\ c \in Batches /\ c.supply = b.supply /\ c.owner = b.owner
         /\ c.ok <=> CanAdd(b, x, -fee)
         /\ \A id \in Ids \ {x} : c.accounts[id] = b.accounts[id]
         /\ c.ok =>
               /\ c.accounts[x] \in Account
               /\ c.accounts[x].balance = l.balance - fee
               /\ c.accounts[x].destroyed = l.destroyed
               /\ c.accounts[x].script =
                     IF tx.new_script = None THEN l.script ELSE tx.new_script
               /\ c.accounts[x].perms =
                     IF tx.new_permissions = None THEN l.perms ELSE tx.new_permissions
    BY <1>6, <1>9, IndexUpdateFacts
  <1> HIDE DEF t, x, fee, s, l
  <1>11. l.balance - fee >= 0 /\ l.balance + (-fee) = l.balance - fee
    BY <1>2, <1>4, <1>7
  <1>12. l.balance <= t
    <2>1. \A id \in Ids : BalanceOf(b.accounts[id]) \in Nat
      BY <1>6 DEF Holds
    <2>2. BalanceOf(b.accounts[x]) <= Total(b.accounts)
      BY <1>2, <2>1, TotalBounds
    <2> QED
      BY <1>6, <1>7, <2>2 DEF Holds, l
  <1>13. InRange(l.balance - fee) /\ InRange(s.balance - fee)
    BY <1>2, <1>4, <1>5, <1>6, <1>7, <1>11, <1>12, MaxNat DEF InRange, Amount
  <1>14. c.ok
    <2>1. InRange(l.balance + (-fee))
      BY <1>11, <1>13
    <2>2. CanAdd(b, x, -fee)
      BY <1>6, <1>7, <2>1 DEF CanAdd, l
    <2> QED
      BY <1>10, <2>2
  <1>15. /\ c.accounts[x] \in Account
         /\ c.accounts[x].balance = l.balance - fee
         /\ c.accounts[x].destroyed = l.destroyed
         /\ c.accounts[x].script =
               IF tx.new_script = None THEN l.script ELSE tx.new_script
         /\ c.accounts[x].perms =
               IF tx.new_permissions = None THEN l.perms ELSE tx.new_permissions
         /\ c.accounts[x] # None /\ BalanceOf(c.accounts[x]) = l.balance - fee
    BY <1>10, <1>14, AccountFields
  <1>17. Holds(c, t - fee)
    <2>1. \A id \in Ids : BalanceOf(b.accounts[id]) \in Nat
      BY <1>6 DEF Holds
    <2>2. \A id \in Ids : BalanceOf(c.accounts[id]) \in Nat
      <3>1. l.balance - fee \in Nat
        BY <1>2, <1>7, <1>11
      <3> QED
        BY <1>10, <1>15, <2>1, <3>1
    <2>3. Balances(b.accounts) /\ Balances(c.accounts)
      BY <2>1, <2>2 DEF Balances
    <2>4. /\ Total(c.accounts) \in Int
          /\ Total(c.accounts) - Total(b.accounts) =
                BalanceOf(c.accounts[x]) - BalanceOf(b.accounts[x])
      <3>1. \A id \in Ids : id # x => BalanceOf(c.accounts[id]) = BalanceOf(b.accounts[id])
        BY <1>10
      <3> QED
        BY <1>2, <2>3, <3>1, TotalChange
    <2>5. Total(b.accounts) = t /\ BalanceOf(b.accounts[x]) = l.balance
      BY <1>6, <1>7 DEF Holds, l
    <2>6. Total(c.accounts) - t = (l.balance - fee) - l.balance
      BY <1>15, <2>4, <2>5
    <2>t. t \in Int /\ fee \in Int /\ l.balance \in Int /\ Total(c.accounts) \in Int
      BY <1>2, <1>6, <1>7, <2>4
    <2>7. Total(c.accounts) = t - fee
      BY <2>6, <2>t
    <2> QED
      BY <1>10, <1>14, <2>2, <2>7 DEF Holds
  <1>18. ASSUME NEW id \in Ids
         PROVE  /\ StepAgrees(id, accounts[id], GetAccount(id, rs), b.accounts[id],
                              OverlayReceipt(id, GetAccount(id, rs), r), c.accounts[id], r)
                /\ PermsStep(id, b.accounts[id], c.accounts[id], r)
    <2> DEFINE si == GetAccount(id, rs)
               li == b.accounts[id]
               s2 == OverlayReceipt(id, si, r)
    <2>1. CASE id = x
      <3>1. si = s /\ li = l /\ r.tx.type = "Update" /\ r.tx.account_id = id /\ id \in Names(r)
        BY <1>1, <2>1 DEF s, l, x, Names
      <3>2. /\ s2 \in Account /\ s2.destroyed = s.destroyed /\ s2.balance = s.balance - fee
            /\ s2.script = IF tx.new_script = None THEN s.script ELSE tx.new_script
            /\ s2.perms = IF tx.new_permissions = None THEN s.perms ELSE tx.new_permissions
        BY <1>1, <1>7, <1>13, <3>1, OverlayUpdated DEF fee
      <3>3. s2 # None /\ 0 <= s2.balance /\ s2.balance <= c.accounts[x].balance
        BY <1>2, <1>4, <1>7, <1>15, <3>2, AccountFields
      <3> HIDE DEF si, li, s2
      <3>4. StepAgrees(id, accounts[id], s, l, s2, c.accounts[x], r)
        BY <1>4, <1>7, <1>15, <2>1, <3>1, <3>2, <3>3 DEF StepAgrees
      <3>5. PermsStep(id, l, c.accounts[x], r)
        BY <1>1, <1>4, <1>7, <1>15, <2>1, <3>1 DEF PermsStep
      <3> QED
        BY <2>1, <3>1, <3>4, <3>5 DEF si, li, s2
    <2>2. CASE id # x /\ accounts[id] = None
      <3>1. si = None
        BY <1>6, <2>2 DEF Agree
      <3>2. s2 = None
        BY <3>1 DEF OverlayReceipt
      <3>3. c.accounts[id] = li
        BY <1>10, <2>2
      <3> QED
        BY <2>2, <3>2, <3>3 DEF StepAgrees, PermsStep
    <2>3. CASE id # x /\ accounts[id] # None
      <3>1. /\ si \in Account /\ li \in Account /\ li.balance \in Int /\ li # None
            /\ 0 <= si.balance /\ si.balance <= li.balance /\ si.destroyed = li.destroyed
        BY <2>3, SeenFacts DEF b
      <3>2. c.accounts[id] = li
        BY <1>10, <2>3
      <3>3. r.tx.account_id # id /\ r.tx.type = "Update"
        BY <1>1, <2>3 DEF x
      <3> HIDE DEF si, li
      <3>4. s2 \in Account /\ s2.destroyed = si.destroyed /\ s2.balance = si.balance
        BY <1>1, <3>1, <3>3, OverlayUpdated
      <3>5. s2 # None
        BY <3>4, AccountFields
      <3> HIDE DEF s2
      <3>6. StepAgrees(id, accounts[id], si, li, s2, li, r) /\ PermsStep(id, li, li, r)
        BY <2>3, <3>1, <3>3, <3>4, <3>5 DEF StepAgrees, PermsStep
      <3> QED
        BY <3>2, <3>6 DEF si, li, s2
    <2> QED
      BY <2>1, <2>2, <2>3
  <1>19. c.supply = b.supply + MintOf(r) /\ c.supply <= MAX_AMOUNT /\ accounts[c.owner] # None
    BY <1>1, <1>6, <1>10 DEF MintOf
  <1>20. Holds(c, c.supply - Rewards(rs) - fee)
    <2>1. c.supply - Rewards(rs) - fee = t - fee
      BY <1>10 DEF t
    <2> QED
      BY <1>17, <2>1
  <1>21. GoodStep(rs, r, b, c)
    BY <1>1, <1>18, <1>19, <1>20 DEF GoodStep, fee
  <1> QED
    BY <1>5, <1>21 DEF r, b, c, fee

-----------------------------------------------------------------------------
(* Transfers: the log has one entry or two.                                *)

LEMMA ScriptFields ==
  ASSUME NEW script \in Script
  PROVE  /\ script.kind \in {"genesis", "default", "destroy"} /\ script.acc \in Ids
         /\ script.kind = "destroy" => script.to \in Ids
  BY DEF Script

One(e) == Append(<<>>, e)

Two(e1, e2) == Append(One(e1), e2)

LEMMA LogTypes ==
  ASSUME NEW e1 \in LogEntry, NEW e2 \in LogEntry
  PROVE  /\ One(e1) \in Seq(LogEntry) /\ Two(e1, e2) \in Seq(LogEntry)
         /\ <<e1>> \o <<>> = One(e1) /\ <<e1>> \o <<e2>> = Two(e1, e2)
         /\ DOMAIN One(e1) = {1} /\ One(e1)[1] = e1
         /\ DOMAIN Two(e1, e2) = {1, 2} /\ Two(e1, e2)[1] = e1 /\ Two(e1, e2)[2] = e2
  BY DEF One, Two

LEMMA EntryTypes ==
  ASSUME NEW to \in Ids, NEW n \in Int
  PROVE  /\ Transfer(to, n) \in LogEntry /\ Transfer(to, n).entry = "Transfer"
         /\ Transfer(to, n).to = to /\ Transfer(to, n).amount = n
         /\ Destroy(to) \in LogEntry /\ Destroy(to).entry = "Destroy" /\ Destroy(to).to = to
  BY DEF Transfer, Destroy, LogEntry

LEMMA OverlayLogs ==
  ASSUME NEW id, NEW from, NEW acc \in MaybeAccount, NEW e1 \in LogEntry, NEW e2 \in LogEntry
  PROVE  LET acc1 == OverlayEntry(id, from, acc, e1)
         IN  /\ acc1 \in MaybeAccount
             /\ EF!Fold(id, from, acc, One(e1)) = acc1
             /\ EF!Fold(id, from, acc, Two(e1, e2)) = OverlayEntry(id, from, acc1, e2)
  <1>0. <<>> \in Seq(LogEntry)
    OBVIOUS
  <1>1. One(e1) \in Seq(LogEntry)
    BY LogTypes
  <1>a. ASSUME NEW log \in Seq(LogEntry)
        PROVE  /\ EF!Fold(id, from, acc, <<>>) = acc
               /\ \A e \in LogEntry : EF!Fold(id, from, acc, Append(log, e)) =
                                         OverlayEntry(id, from, EF!Fold(id, from, acc, log), e)
    BY OverlayLog
  <1>2. /\ EF!Fold(id, from, acc, <<>>) = acc
        /\ EF!Fold(id, from, acc, One(e1)) =
              OverlayEntry(id, from, EF!Fold(id, from, acc, <<>>), e1)
    BY <1>0, <1>a, Zenon DEF One
  <1>3. EF!Fold(id, from, acc, One(e1)) = OverlayEntry(id, from, acc, e1)
    BY <1>2, Zenon
  <1>4. EF!Fold(id, from, acc, Two(e1, e2)) =
           OverlayEntry(id, from, EF!Fold(id, from, acc, One(e1)), e2)
    BY <1>1, <1>a, Zenon DEF Two
  <1> QED
    BY <1>3, <1>4, OverlayEntryType

LEMMA IndexLogs ==
  ASSUME NEW from \in Ids, NEW b \in Debited(from), NEW e1 \in LogEntry, NEW e2 \in LogEntry
  PROVE  /\ LF!Fold(from, 0, b, One(e1)) = IndexEntry(b, from, e1)
         /\ LF!Fold(from, 0, b, Two(e1, e2)) = IndexEntry(IndexEntry(b, from, e1), from, e2)
  <1>0. <<>> \in Seq(LogEntry)
    OBVIOUS
  <1>1. One(e1) \in Seq(LogEntry)
    BY LogTypes
  <1>2. /\ LF!Fold(from, 0, b, <<>>) = b
        /\ LF!Fold(from, 0, b, One(e1)) = IndexEntry(LF!Fold(from, 0, b, <<>>), from, e1)
    BY <1>0, IndexLog, Zenon DEF One
  <1>3. LF!Fold(from, 0, b, One(e1)) = IndexEntry(b, from, e1)
    BY <1>2, Zenon
  <1>4. LF!Fold(from, 0, b, Two(e1, e2)) = IndexEntry(LF!Fold(from, 0, b, One(e1)), from, e2)
    BY <1>1, IndexLog, Zenon DEF Two
  <1> QED
    BY <1>3, <1>4

\* What indexing and overlaying a transfer come to.
LEMMA TransferSteps ==
  ASSUME NEW tx \in Tx, tx.type = "Transfer", NEW e1 \in LogEntry, NEW e2 \in LogEntry,
         NEW b \in Batches, b.ok, NEW id \in Ids, NEW s \in Account
  PROVE  LET k == -(tx.fee + tx.amount)
             b1 == AddBal(b, tx.from, k)
             b2 == IndexEntry(b1, tx.from, e1)
             s1 == IF tx.from = id THEN Adjust(s, k) ELSE s
             s2 == OverlayEntry(id, tx.from, s1, e1)
         IN  /\ IndexReceipt(b, Receipt(tx, One(e1))) = b2
             /\ IndexReceipt(b, Receipt(tx, Two(e1, e2))) = IndexEntry(b2, tx.from, e2)
             /\ OverlayReceipt(id, s, Receipt(tx, One(e1))) = s2
             /\ OverlayReceipt(id, s, Receipt(tx, Two(e1, e2))) =
                   OverlayEntry(id, tx.from, s2, e2)
  <1> DEFINE k == -(tx.fee + tx.amount)
             b1 == AddBal(b, tx.from, k)
             b2 == IndexEntry(b1, tx.from, e1)
             s1 == IF tx.from = id THEN Adjust(s, k) ELSE s
             s2 == OverlayEntry(id, tx.from, s1, e1)
  <1>1. tx.from \in Ids /\ k \in Int
    <2>1. tx.from \in Ids /\ tx.fee \in Int /\ tx.amount \in Int
      BY TxFields
    <2> QED
      BY <2>1
  <1>2. b1 \in Debited(tx.from)
    BY <1>1, DebitType
  <1>3. s1 \in MaybeAccount /\ s # None
    BY <1>1, AdjustFacts, AccountFields DEF MaybeAccount
  <1>4. ASSUME NEW log \in Seq(LogEntry)
        PROVE  /\ IndexReceipt(b, Receipt(tx, log)) = LF!Fold(tx.from, 0, b1, log)
               /\ OverlayReceipt(id, s, Receipt(tx, log)) = EF!Fold(id, tx.from, s1, log)
    <2> DEFINE r == Receipt(tx, log)
    <2>1. r.tx = tx /\ r.log = log
      BY ReceiptFields
    <2> HIDE DEF r
    <2>2. IndexReceipt(b, r) = IndexTransfer(b, r)
      BY <2>1 DEF IndexReceipt
    <2>3. OverlayReceipt(id, s, r) = OverlayTransfer(id, s, r)
      BY <1>3, <2>1 DEF OverlayReceipt
    <2>4. IndexTransfer(b, r) = LF!Fold(tx.from, 0, b1, log)
      BY <2>1, IndexTransferIsFold
    <2>5. OverlayTransfer(id, s, r) = EF!Fold(id, tx.from, s1, log)
      BY <2>1, OverlayTransferIsFold
    <2> QED
      BY <2>2, <2>3, <2>4, <2>5 DEF r
  <1> HIDE DEF b1, s1
  <1>5. One(e1) \in Seq(LogEntry) /\ Two(e1, e2) \in Seq(LogEntry)
    BY LogTypes
  <1>6. /\ LF!Fold(tx.from, 0, b1, One(e1)) = b2
        /\ LF!Fold(tx.from, 0, b1, Two(e1, e2)) = IndexEntry(b2, tx.from, e2)
    BY <1>1, <1>2, IndexLogs
  <1>7. /\ EF!Fold(id, tx.from, s1, One(e1)) = s2
        /\ EF!Fold(id, tx.from, s1, Two(e1, e2)) = OverlayEntry(id, tx.from, s2, e2)
    BY <1>3, OverlayLogs
  <1> QED
    BY <1>4, <1>5, <1>6, <1>7 DEF b1, s1

LEMMA HeldNat ==
  ASSUME NEW b, NEW t, Holds(b, t), NEW id \in Ids, b.accounts[id] # None
  PROVE  b.accounts[id] \in Account /\ b.accounts[id].balance \in Nat
  <1>1. b.accounts[id] \in Account /\ BalanceOf(b.accounts[id]) \in Nat
    BY BatchFields DEF Holds, MaybeAccount
  <1> QED
    BY <1>1, AccountFields

\* A move in the batch together with the same move in the overlay of account id.
LEMMA MovedBoth ==
  ASSUME NEW b, NEW t \in Int, Holds(b, t), NEW x \in Ids, NEW n \in Int,
         b.accounts[x] # None, b.accounts[x].balance + n >= 0, t + n <= MAX_AMOUNT,
         NEW id \in Ids, NEW s0, NEW l0, NEW s, NEW m \in Int,
         s0.balance \in Int, l0.balance \in Int,
         Shifted(s0, l0, s, b.accounts[id], m), id = x => s.balance + n >= 0
  PROVE  LET s2 == IF x = id THEN Adjust(s, n) ELSE s
             l2 == AddBal(b, x, n).accounts[id]
         IN  s2 # None /\ Shifted(s0, l0, s2, l2, m + (IF x = id THEN n ELSE 0))
  <1> DEFINE c == AddBal(b, x, n)
             l == b.accounts[id]
  <1>1. /\ WithBalance(c.accounts[x], b.accounts[x], b.accounts[x].balance + n)
        /\ c.accounts[x].balance <= t + n
        /\ \A y \in Ids : y # x => c.accounts[y] = b.accounts[y]
    BY Moved
  <1>2. /\ WithBalance(s, s0, s0.balance + m) /\ WithBalance(l, l0, l0.balance + m)
        /\ 0 <= s.balance /\ s.balance <= l.balance
    BY DEF Shifted
  <1>3. s \in Account /\ l \in Account
    BY <1>2 DEF WithBalance
  <1>4. s.balance \in Int /\ l.balance \in Int /\ s # None
    BY <1>3, AccountFields
  <1> HIDE DEF c, l
  <1>5. CASE id = x
    <2>1. WithBalance(c.accounts[id], l, l.balance + n) /\ l.balance + n <= MAX_AMOUNT
      <3>1. WithBalance(c.accounts[id], l, l.balance + n) /\ c.accounts[id].balance <= t + n
        BY <1>1, <1>5 DEF l
      <3>2. l.balance + n <= t + n
        BY <3>1 DEF WithBalance
      <3> QED
        BY <1>4, <3>1, <3>2, MaxNat
    <2>2. Adjust(s, n) \in Account /\ Shifted(s, l, Adjust(s, n), c.accounts[id], n)
      BY <1>2, <1>3, <1>4, <1>5, <2>1, AdjustBoth
    <2>3. Adjust(s, n) # None
      BY <2>2, AccountFields
    <2>4. /\ s.balance + n = s0.balance + (m + n)
          /\ l.balance + n = l0.balance + (m + n)
      <3>1. s.balance = s0.balance + m /\ l.balance = l0.balance + m
        BY <1>2 DEF WithBalance
      <3> QED
        BY <3>1
    <2>5. Shifted(s0, l0, Adjust(s, n), c.accounts[id], m + n)
      BY <1>2, <2>2, <2>4 DEF Shifted, WithBalance
    <2> QED
      BY <1>5, <2>3, <2>5 DEF c
  <1>6. CASE id # x
    <2>1. c.accounts[id] = l /\ m + 0 = m
      BY <1>1, <1>6 DEF l
    <2>2. Shifted(s0, l0, s, l, m)
      BY DEF l
    <2> QED
      BY <1>4, <1>6, <2>1, <2>2 DEF c
  <1> QED
    BY <1>5, <1>6

LEMMA Unshifted ==
  ASSUME NEW s \in Account, NEW l \in Account, 0 <= s.balance, s.balance <= l.balance
  PROVE  Shifted(s, l, s, l, 0)
  <1>1. s.balance \in Int /\ l.balance \in Int
    BY AccountFields
  <1> QED
    BY <1>1 DEF Shifted, WithBalance

\* What TransferOk gives of the sender.
LEMMA SenderPays ==
  ASSUME NEW rs, Settles(rs), NEW tx \in Tx, tx.type = "Transfer", TransferOk(tx, rs)
  PROVE  LET s == GetAccount(tx.from, rs)
             l == Left(rs).accounts[tx.from]
         IN  /\ tx.from \in Ids /\ tx.arg_to \in Ids
             /\ tx.amount \in Nat /\ tx.fee \in Nat /\ tx.arg_amount \in Int
             /\ accounts[tx.from] # None /\ s # None /\ l # None /\ s \in Account
             /\ s.balance + (-(tx.fee + tx.amount)) >= 0
             /\ l.balance + (-(tx.fee + tx.amount)) >= 0
             /\ s.script \in Script /\ AllowsTransfer(s.script, tx, rs)
  <1> DEFINE s == GetAccount(tx.from, rs)
             l == Left(rs).accounts[tx.from]
  <1>1. /\ tx.from \in Ids /\ tx.arg_to \in Ids /\ tx.fee \in Int
        /\ tx.amount \in Int /\ tx.arg_amount \in Int
    BY TxFields
  <1>2. /\ tx.amount >= 0 /\ s # None /\ HasFee(tx.from, rs)
        /\ tx.fee >= TotalFee(tx.from, rs) /\ s.balance - tx.fee - tx.amount >= 0
        /\ AllowsTransfer(s.script, tx, rs)
    BY DEF TransferOk
  <1>3. TotalFee(tx.from, rs) \in Nat
    BY <1>2, FeeFacts
  <1>4. /\ accounts[tx.from] # None /\ l # None /\ s \in Account
        /\ s.balance \in Int /\ l.balance \in Int /\ s.balance <= l.balance
    BY <1>1, <1>2, SeenFacts
  <1>5. s.script \in Script
    BY <1>4, AccountFields
  <1> HIDE DEF s, l
  <1>6. /\ tx.amount \in Nat /\ tx.fee \in Nat
        /\ s.balance + (-(tx.fee + tx.amount)) >= 0
        /\ l.balance + (-(tx.fee + tx.amount)) >= 0
    BY <1>1, <1>2, <1>3, <1>4
  <1> QED
    BY <1>1, <1>2, <1>4, <1>5, <1>6 DEF s, l

\* A transfer that keeps its account: what is sent arrives, the rest returns.
LEMMA SendMoves ==
  ASSUME NEW rs, Settles(rs), NEW x \in Ids, NEW y \in Ids,
         accounts[x] # None, accounts[y] # None,
         NEW fee \in Nat, NEW n \in Nat, NEW m \in Nat, m <= n,
         GetAccount(x, rs).balance + (-(fee + n)) >= 0,
         Left(rs).accounts[x].balance + (-(fee + n)) >= 0
  PROVE  LET b  == Left(rs)
             b1 == AddBal(b, x, -(fee + n))
             b2 == AddBal(b1, y, m)
             b3 == AddBal(b2, x, n - m)
             t  == b.supply - Rewards(rs)
         IN  /\ Holds(b2, t - fee - (n - m)) /\ b2.supply = b.supply /\ b2.owner = b.owner
             /\ Holds(b3, t - fee) /\ b3.supply = b.supply /\ b3.owner = b.owner
             /\ \A id \in Ids \ {x, y} : /\ b2.accounts[id] = b.accounts[id]
                                         /\ b3.accounts[id] = b.accounts[id]
             /\ \A id \in Ids :
                   accounts[id] # None =>
                   LET s  == GetAccount(id, rs)
                       s1 == IF x = id THEN Adjust(s, -(fee + n)) ELSE s
                       s2 == IF y = id THEN Adjust(s1, m) ELSE s1
                       s3 == IF x = id THEN Adjust(s2, n - m) ELSE s2
                       k  == (IF x = id THEN -(fee + n) ELSE 0) + (IF y = id THEN m ELSE 0)
                   IN  /\ s1 # None /\ s2 # None
                       /\ Shifted(s, b.accounts[id], s2, b2.accounts[id], k)
                       /\ Shifted(s, b.accounts[id], s3, b3.accounts[id],
                                  k + (IF x = id THEN n - m ELSE 0))
  <1> DEFINE b  == Left(rs)
             j  == -(fee + n)
             h  == n - m
             b1 == AddBal(b, x, j)
             b2 == AddBal(b1, y, m)
             b3 == AddBal(b2, x, h)
             t  == b.supply - Rewards(rs)
  <1>1. /\ Holds(b, t) /\ t \in Int /\ b.supply \in Int /\ t <= b.supply
        /\ b.supply <= MAX_AMOUNT
    BY SettledFacts
  <1>2. b.accounts[x] # None /\ b.accounts[y] # None
    BY SeenFacts
  <1>3. b.accounts[x].balance + j >= 0 /\ GetAccount(x, rs).balance + j >= 0
    OBVIOUS
  <1>4. /\ j \in Int /\ h \in Nat /\ t + j \in Int /\ t + j + m \in Int
        /\ t + j <= MAX_AMOUNT /\ t + j + m <= MAX_AMOUNT /\ t + j + m + h <= MAX_AMOUNT
        /\ t + j + m = t - fee - h /\ t + j + m + h = t - fee
    <2> HIDE DEF t, b
    <2> QED
      BY <1>1, MaxNat
  <1> HIDE DEF j, h, t, b
  <1>5. /\ Holds(b1, t + j) /\ b1.supply = b.supply /\ b1.owner = b.owner
        /\ WithBalance(b1.accounts[x], b.accounts[x], b.accounts[x].balance + j)
        /\ \A id \in Ids : id # x => b1.accounts[id] = b.accounts[id]
    BY <1>1, <1>2, <1>3, <1>4, Moved
  <1>6. b1.accounts[x] # None /\ b1.accounts[y] # None
    BY <1>2, <1>5, AccountFields DEF WithBalance
  <1> HIDE DEF b1
  <1>7. b1.accounts[y].balance + m >= 0
    <2>1. b1.accounts[y].balance \in Nat
      BY <1>5, <1>6, HeldNat
    <2> QED
      BY <2>1
  <1>8. /\ Holds(b2, t + j + m) /\ b2.supply = b.supply /\ b2.owner = b.owner
        /\ WithBalance(b2.accounts[y], b1.accounts[y], b1.accounts[y].balance + m)
        /\ \A id \in Ids : id # y => b2.accounts[id] = b1.accounts[id]
    BY <1>4, <1>5, <1>6, <1>7, Moved
  <1>9. b2.accounts[x] # None
    BY <1>6, <1>8, AccountFields DEF WithBalance
  <1> HIDE DEF b2
  <1>10. b2.accounts[x].balance + h >= 0
    <2>1. b2.accounts[x].balance \in Nat
      BY <1>8, <1>9, HeldNat
    <2> QED
      BY <1>4, <2>1
  <1>11. /\ Holds(b3, t + j + m + h) /\ b3.supply = b.supply /\ b3.owner = b.owner
         /\ \A id \in Ids : id # x => b3.accounts[id] = b2.accounts[id]
    BY <1>4, <1>8, <1>9, <1>10, Moved
  <1>12. ASSUME NEW id \in Ids, accounts[id] # None
         PROVE  LET s  == GetAccount(id, rs)
                    s1 == IF x = id THEN Adjust(s, j) ELSE s
                    s2 == IF y = id THEN Adjust(s1, m) ELSE s1
                    s3 == IF x = id THEN Adjust(s2, h) ELSE s2
                    k  == (IF x = id THEN j ELSE 0) + (IF y = id THEN m ELSE 0)
                IN  /\ s1 # None /\ s2 # None
                    /\ Shifted(s, b.accounts[id], s2, b2.accounts[id], k)
                    /\ Shifted(s, b.accounts[id], s3, b3.accounts[id],
                               k + (IF x = id THEN h ELSE 0))
    <2> DEFINE s  == GetAccount(id, rs)
               l  == b.accounts[id]
               s1 == IF x = id THEN Adjust(s, j) ELSE s
               s2 == IF y = id THEN Adjust(s1, m) ELSE s1
               s3 == IF x = id THEN Adjust(s2, h) ELSE s2
               k1 == IF x = id THEN j ELSE 0
               k2 == IF y = id THEN m ELSE 0
               k3 == IF x = id THEN h ELSE 0
    <2>1. /\ s \in Account /\ l \in Account /\ s.balance \in Int /\ l.balance \in Int
          /\ 0 <= s.balance /\ s.balance <= l.balance
      BY <1>12, SeenFacts DEF b
    <2>2. Shifted(s, l, s, l, 0)
      BY <2>1, Unshifted
    <2>3. id = x => s.balance + j >= 0
      BY <1>3
    <2> HIDE DEF s, l
    <2>4. s1 # None /\ Shifted(s, l, s1, b1.accounts[id], 0 + k1)
      BY <1>1, <1>2, <1>3, <1>4, <2>1, <2>2, <2>3, MovedBoth DEF b1, l
    <2>5. k1 \in Int /\ k2 \in Int /\ k3 \in Int /\ 0 + k1 = k1 /\ k1 + k2 \in Int
      BY <1>4
    <2>6. s1 \in Account /\ 0 <= s1.balance
      BY <2>4 DEF Shifted, WithBalance
    <2>7. s1.balance + m >= 0
      BY <2>6, AccountFields
    <2> HIDE DEF s1, k1
    <2>8. s2 # None /\ Shifted(s, l, s2, b2.accounts[id], k1 + k2)
      <3>1. Shifted(s, l, s1, b1.accounts[id], k1)
        BY <2>4, <2>5
      <3> DEFINE t1 == t + j
      <3>2. t1 \in Int /\ m \in Int /\ k1 \in Int /\ t1 + m <= MAX_AMOUNT /\ Holds(b1, t1)
        BY <1>4, <1>5, <2>5
      <3> HIDE DEF t1
      <3>3. s2 # None /\ Shifted(s, l, s2, AddBal(b1, y, m).accounts[id], k1 + k2)
        BY <1>6, <1>7, <2>1, <2>7, <3>1, <3>2, MovedBoth
      <3> QED
        BY <3>3 DEF b2
    <2>9. s2 \in Account /\ 0 <= s2.balance
      BY <2>8 DEF Shifted, WithBalance
    <2>10. s2.balance + h >= 0
      BY <1>4, <2>9, AccountFields
    <2> HIDE DEF s2, k2
    <2>11. Shifted(s, l, s3, b3.accounts[id], k1 + k2 + k3)
      <3> DEFINE t2 == t + j + m
                 k == k1 + k2
      <3>1. /\ t2 \in Int /\ h \in Int /\ k \in Int /\ t2 + h <= MAX_AMOUNT
            /\ Holds(b2, t2) /\ Shifted(s, l, s2, b2.accounts[id], k)
        BY <1>4, <1>8, <2>5, <2>8
      <3> HIDE DEF t2, k
      <3>2. s3 # None /\ Shifted(s, l, s3, AddBal(b2, x, h).accounts[id], k + k3)
        BY <1>9, <1>10, <2>1, <2>10, <3>1, MovedBoth
      <3> QED
        BY <3>2 DEF k
    <2> HIDE DEF s3, k3
    <2>12. /\ s1 # None /\ s2 # None
           /\ Shifted(s, l, s2, b2.accounts[id], k1 + k2)
           /\ Shifted(s, l, s3, b3.accounts[id], k1 + k2 + k3)
      BY <2>4, <2>8, <2>11
    <2> QED
      BY <2>12 DEF s, l, s1, s2, s3, k1, k2, k3
  <1> HIDE DEF b3
  <1>13. \A id \in Ids \ {x, y} : /\ b2.accounts[id] = b.accounts[id]
                                  /\ b3.accounts[id] = b.accounts[id]
    BY <1>5, <1>8, <1>11
  <1>14. Holds(b2, t - fee - h) /\ Holds(b3, t - fee)
    BY <1>4, <1>8, <1>11
  <1> QED
    BY <1>8, <1>11, <1>12, <1>13, <1>14 DEF b, j, h, b1, b2, b3, t

\* What get_account shows of an entry of the log that names a receiver.
LEMMA OverlayReceived ==
  ASSUME NEW id, NEW from, NEW s, s # None, NEW to \in Ids, NEW n \in Int
  PROVE  OverlayEntry(id, from, s, Transfer(to, n)) = IF to = id THEN Adjust(s, n) ELSE s
  BY EntryTypes DEF OverlayEntry

LEMMA OverlayDestroyed ==
  ASSUME NEW id, NEW from, NEW s, s # None, NEW to \in Ids
  PROVE  OverlayEntry(id, from, s, Destroy(to)) = IF from = id THEN Gone(s) ELSE s
  BY DEF OverlayEntry, Destroy

LEMMA IndexReceived ==
  ASSUME NEW b, NEW from, NEW to \in Ids, NEW n \in Int
  PROVE  IndexEntry(b, from, Transfer(to, n)) = AddBal(b, to, n)
  BY EntryTypes DEF IndexEntry

LEMMA IndexDestroyed ==
  ASSUME NEW b, NEW from, NEW to \in Ids
  PROVE  IndexEntry(b, from, Destroy(to)) = IndexDestroy(b, from, to)
  BY DEF IndexEntry, Destroy

LEMMA TransferNames ==
  ASSUME NEW tx \in Tx, tx.type = "Transfer", NEW e1 \in LogEntry, NEW e2 \in LogEntry,
         NEW log, log = One(e1) \/ log = Two(e1, e2)
  PROVE  LET r == Receipt(tx, log)
         IN  r \in Receipts /\ r.tx = tx /\ tx.from \in Names(r) /\ e1.to \in Names(r)
  <1> DEFINE r == Receipt(tx, log)
  <1>1. log \in Seq(LogEntry) /\ 1 \in DOMAIN log /\ log[1] = e1
    <2>1. /\ One(e1) \in Seq(LogEntry) /\ DOMAIN One(e1) = {1} /\ One(e1)[1] = e1
          /\ Two(e1, e2) \in Seq(LogEntry) /\ DOMAIN Two(e1, e2) = {1, 2}
          /\ Two(e1, e2)[1] = e1
      BY LogTypes
    <2> QED
      BY <2>1
  <1>2. r \in Receipts /\ r.tx = tx /\ r.log = log
    BY <1>1, ReceiptFields
  <1> HIDE DEF r
  <1>3. Names(r) = {tx.from} \cup {log[i].to : i \in DOMAIN log}
    BY <1>2 DEF Names
  <1> QED
    BY <1>1, <1>2, <1>3 DEF r

\* A transfer whose script keeps the account.
LEMMA PushSend ==
  ASSUME NEW rs, Settles(rs), NEW tx \in Tx, tx.type = "Transfer", TransferOk(tx, rs),
         GetAccount(tx.from, rs).script.kind # "destroy"
  PROVE  LET r == Receipt(tx, TransferLog(GetAccount(tx.from, rs).script, tx))
         IN  r \in Receipts /\ GoodStep(rs, r, Left(rs), IndexReceipt(Left(rs), r))
  <1> DEFINE script == GetAccount(tx.from, rs).script
             log == TransferLog(script, tx)
             r == Receipt(tx, log)
             b == Left(rs)
             c == IndexReceipt(b, r)
             t == b.supply - Rewards(rs)
             x == tx.from
             y == tx.arg_to
             fee == tx.fee
             n == tx.amount
             m == tx.arg_amount
             e1 == Transfer(y, m)
             e2 == Transfer(x, n - m)
             b1 == AddBal(b, x, -(fee + n))
             b2 == AddBal(b1, y, m)
             b3 == AddBal(b2, x, n - m)
  <1>1. /\ x \in Ids /\ y \in Ids /\ n \in Nat /\ fee \in Nat /\ m \in Int
        /\ accounts[x] # None /\ GetAccount(x, rs).balance + (-(fee + n)) >= 0
        /\ b.accounts[x].balance + (-(fee + n)) >= 0
        /\ script \in Script /\ AllowsTransfer(script, tx, rs)
    BY SenderPays
  <1>2. m >= 0 /\ m <= n /\ Live(y, rs)
    BY <1>1 DEF AllowsTransfer
  <1>3. m \in Nat /\ n - m \in Nat
    BY <1>1, <1>2
  <1>4. GetAccount(y, rs) # None /\ ~GetAccount(y, rs).destroyed
    BY <1>2 DEF Live
  <1>5. accounts[y] # None /\ ~b.accounts[y].destroyed
    BY <1>1, <1>4, SeenFacts
  <1>6. e1 \in LogEntry /\ e2 \in LogEntry /\ e1.to = y
    BY <1>1, <1>3, EntryTypes
  <1>7. log = IF n > m THEN Two(e1, e2) ELSE One(e1)
    <2>1. log = <<e1>> \o (IF n > m THEN <<e2>> ELSE <<>>)
      BY DEF TransferLog
    <2> HIDE DEF log, e1, e2
    <2> QED
      BY <1>6, <2>1, LogTypes
  <1>8. r \in Receipts /\ r.tx = tx /\ x \in Names(r) /\ y \in Names(r)
    <2>1. log = One(e1) \/ log = Two(e1, e2)
      BY <1>7
    <2> HIDE DEF log, e1, e2
    <2> QED
      BY <1>6, <2>1, TransferNames
  <1>9. /\ b \in Batches /\ b.ok /\ b.supply \in Int /\ Rewards(rs) \in Int /\ t \in Int
        /\ b.supply <= MAX_AMOUNT /\ accounts[b.owner] # None
        /\ \A id \in Ids : Agree(id, accounts[id], GetAccount(id, rs), b.accounts[id], rs)
    BY SettledFacts DEF Settles
  <1>10. /\ Holds(b2, t - fee - (n - m)) /\ b2.supply = b.supply /\ b2.owner = b.owner
         /\ Holds(b3, t - fee) /\ b3.supply = b.supply /\ b3.owner = b.owner
         /\ \A id \in Ids \ {x, y} : /\ b2.accounts[id] = b.accounts[id]
                                     /\ b3.accounts[id] = b.accounts[id]
         /\ \A id \in Ids :
               accounts[id] # None =>
               LET s  == GetAccount(id, rs)
                   s1 == IF x = id THEN Adjust(s, -(fee + n)) ELSE s
                   s2 == IF y = id THEN Adjust(s1, m) ELSE s1
                   s3 == IF x = id THEN Adjust(s2, n - m) ELSE s2
                   k  == (IF x = id THEN -(fee + n) ELSE 0) + (IF y = id THEN m ELSE 0)
               IN  /\ s1 # None /\ s2 # None
                   /\ Shifted(s, b.accounts[id], s2, b2.accounts[id], k)
                   /\ Shifted(s, b.accounts[id], s3, b3.accounts[id],
                              k + (IF x = id THEN n - m ELSE 0))
    <2> HIDE DEF x, y, fee, n, m
    <2> QED
      BY <1>1, <1>2, <1>3, <1>5, SendMoves
  <1>11. c = IF n > m THEN b3 ELSE b2
    <2>1. GetAccount(x, rs) \in Account
      BY SenderPays
    <2>2. /\ IndexReceipt(b, Receipt(tx, One(e1))) = IndexEntry(b1, x, e1)
          /\ IndexReceipt(b, Receipt(tx, Two(e1, e2))) =
                IndexEntry(IndexEntry(b1, x, e1), x, e2)
      BY <1>1, <1>6, <1>9, <2>1, TransferSteps
    <2>3. IndexEntry(b1, x, e1) = b2
      BY <1>1, IndexReceived
    <2>4. IndexEntry(b2, x, e2) = b3
      <3> DEFINE h == n - m
      <3>1. h \in Int
        BY <1>3
      <3> HIDE DEF h, b2
      <3>2. IndexEntry(b2, x, Transfer(x, h)) = AddBal(b2, x, h)
        BY <1>1, <3>1, IndexReceived
      <3> QED
        BY <3>2 DEF h
    <2> HIDE DEF log, e1, e2, b1, b2, b3, b
    <2> QED
      BY <1>7, <2>2, <2>3, <2>4
  <1>12. Holds(c, t - fee) /\ c.supply = b.supply /\ c.owner = b.owner
         /\ \A id \in Ids \ {x, y} : c.accounts[id] = b.accounts[id]
    <2>1. ~(n > m) => t - fee - (n - m) = t - fee
      BY <1>1, <1>2, <1>9
    <2> HIDE DEF b1, b2, b3, c, b
    <2> QED
      BY <1>10, <1>11, <2>1
  <1>13. ASSUME NEW id \in Ids
         PROVE  /\ StepAgrees(id, accounts[id], GetAccount(id, rs), b.accounts[id],
                              OverlayReceipt(id, GetAccount(id, rs), r), c.accounts[id], r)
                /\ PermsStep(id, b.accounts[id], c.accounts[id], r)
    <2>1. CASE accounts[id] = None
      <3>1. GetAccount(id, rs) = None
        BY <1>9, <2>1 DEF Agree
      <3>2. OverlayReceipt(id, GetAccount(id, rs), r) = GetAccount(id, rs)
        BY <3>1 DEF OverlayReceipt
      <3>3. c.accounts[id] = b.accounts[id]
        BY <1>1, <1>5, <1>12, <2>1
      <3> QED
        BY <3>2, <3>3, SameStep
    <2>2. CASE accounts[id] # None
      <3> DEFINE s  == GetAccount(id, rs)
                 l  == b.accounts[id]
                 s1 == IF x = id THEN Adjust(s, -(fee + n)) ELSE s
                 s2 == IF y = id THEN Adjust(s1, m) ELSE s1
                 s3 == IF x = id THEN Adjust(s2, n - m) ELSE s2
                 k  == (IF x = id THEN -(fee + n) ELSE 0) + (IF y = id THEN m ELSE 0)
                 q  == IF x = id THEN n - m ELSE 0
                 k2 == IF n > m THEN k + q ELSE k
      <3>1. /\ s1 # None /\ s2 # None
            /\ Shifted(s, l, s2, b2.accounts[id], k)
            /\ Shifted(s, l, s3, b3.accounts[id], k + q)
        BY <1>10, <2>2
      <3>2. s \in Account /\ l \in Account /\ s.destroyed = l.destroyed
        BY <2>2, SeenFacts
      <3>3. OverlayReceipt(id, s, r) = IF n > m THEN s3 ELSE s2
        <4>1. /\ OverlayReceipt(id, s, Receipt(tx, One(e1))) = OverlayEntry(id, x, s1, e1)
              /\ OverlayReceipt(id, s, Receipt(tx, Two(e1, e2))) =
                    OverlayEntry(id, x, OverlayEntry(id, x, s1, e1), e2)
          BY <1>6, <1>9, <3>2, TransferSteps
        <4> HIDE DEF s1
        <4>2. OverlayEntry(id, x, s1, e1) = s2
          BY <1>1, <3>1, OverlayReceived
        <4> HIDE DEF s2
        <4>3. OverlayEntry(id, x, s2, e2) = s3
          BY <1>1, <1>3, <3>1, OverlayReceived
        <4> HIDE DEF s3, e1, e2, log, s
        <4> QED
          BY <1>7, <4>1, <4>2, <4>3
      <3>4. k2 \in Int /\ (id # y => k2 <= 0)
        <4> HIDE DEF x, y, n, m, fee
        <4> QED
          BY <1>1, <1>2, <1>3
      <3>5. l.destroyed => k2 <= 0
        BY <1>5, <3>4
      <3>6. id \in Names(r) \/ c.accounts[id] = l
        BY <1>8, <1>12
      <3> DEFINE sn == OverlayReceipt(id, s, r)
      <3>7. Shifted(s, l, sn, c.accounts[id], k2)
        <4> HIDE DEF s, l, s2, s3, b2, b3, c, k, q, r
        <4> QED
          BY <1>11, <3>1, <3>3
      <3> HIDE DEF k2, sn, s, l, c, r, b
      <3>8. StepAgrees(id, accounts[id], s, l, sn, c.accounts[id], r)
            /\ PermsStep(id, l, c.accounts[id], r)
        BY <2>2, <3>2, <3>4, <3>5, <3>6, <3>7, ShiftedAgrees
      <3> QED
        BY <3>8 DEF sn, s, l
    <2> QED
      BY <2>1, <2>2
  <1>14. c.supply = b.supply + MintOf(r) /\ c.supply <= MAX_AMOUNT /\ accounts[c.owner] # None
    <2> HIDE DEF r, b, c
    <2> QED
      BY <1>8, <1>9, <1>12 DEF MintOf
  <1>15. Holds(c, c.supply - Rewards(rs) - fee)
    <2> HIDE DEF c
    <2> QED
      BY <1>12
  <1> HIDE DEF r, b, c
  <1>16. GoodStep(rs, r, b, c)
    BY <1>8, <1>13, <1>14, <1>15 DEF GoodStep
  <1> QED
    BY <1>8, <1>16 DEF r, b, c

\* A transfer whose script destroys the account.
LEMMA PushDestroy ==
  ASSUME NEW rs, Settles(rs), NEW tx \in Tx, tx.type = "Transfer", TransferOk(tx, rs),
         GetAccount(tx.from, rs).script.kind = "destroy"
  PROVE  LET r == Receipt(tx, TransferLog(GetAccount(tx.from, rs).script, tx))
         IN  r \in Receipts /\ GoodStep(rs, r, Left(rs), IndexReceipt(Left(rs), r))
  <1> DEFINE script == GetAccount(tx.from, rs).script
             log == TransferLog(script, tx)
             r == Receipt(tx, log)
             b == Left(rs)
             c == IndexReceipt(b, r)
             t == b.supply - Rewards(rs)
             x == tx.from
             y == script.to
             fee == tx.fee
             n == tx.amount
             j == -(fee + n)
             e1 == Destroy(y)
             e2 == Transfer(y, n)
             b1 == AddBal(b, x, j)
             b2 == IndexDestroy(b1, x, y)
             b3 == AddBal(b2, y, n)
             sx == GetAccount(x, rs)
             sy == GetAccount(y, rs)
             lx == b.accounts[x]
             ly == b.accounts[y]
  <1>1. /\ x \in Ids /\ n \in Nat /\ fee \in Nat /\ accounts[x] # None
        /\ sx.balance + j >= 0 /\ lx.balance + j >= 0
        /\ script \in Script /\ AllowsTransfer(script, tx, rs)
    BY SenderPays
  <1>2. y \in Ids /\ y # x /\ Live(y, rs)
    <2>1. y \in Ids
      BY <1>1, ScriptFields
    <2> QED
      BY <1>1, <2>1 DEF AllowsTransfer
  <1>3. sy # None /\ ~sy.destroyed
    BY <1>2 DEF Live
  <1>4. /\ accounts[y] # None /\ sy \in Account /\ ly \in Account /\ ly # None
        /\ sy.balance \in Int /\ ly.balance \in Int
        /\ 0 <= sy.balance /\ sy.balance <= ly.balance /\ ~ly.destroyed
    BY <1>2, <1>3, SeenFacts
  <1>5. /\ sx \in Account /\ lx \in Account /\ lx # None
        /\ sx.balance \in Int /\ lx.balance \in Int
        /\ 0 <= sx.balance /\ sx.balance <= lx.balance /\ sx.destroyed = lx.destroyed
    BY <1>1, SeenFacts
  <1>6. e1 \in LogEntry /\ e2 \in LogEntry /\ e1.to = y
    BY <1>1, <1>2, EntryTypes
  <1>7. log = IF n > 0 THEN Two(e1, e2) ELSE One(e1)
    <2>1. log = <<e1>> \o (IF n > 0 THEN <<e2>> ELSE <<>>)
      BY DEF TransferLog
    <2> HIDE DEF log, e1, e2
    <2> QED
      BY <1>6, <2>1, LogTypes
  <1>8. r \in Receipts /\ r.tx = tx /\ x \in Names(r) /\ y \in Names(r)
    <2>1. log = One(e1) \/ log = Two(e1, e2)
      BY <1>7
    <2> HIDE DEF log, e1, e2
    <2> QED
      BY <1>6, <2>1, TransferNames
  <1>9. /\ b \in Batches /\ b.ok /\ b.supply \in Int /\ Rewards(rs) \in Int /\ t \in Int
        /\ b.supply <= MAX_AMOUNT /\ t <= b.supply /\ Holds(b, t) /\ accounts[b.owner] # None
        /\ \A id \in Ids : Agree(id, accounts[id], GetAccount(id, rs), b.accounts[id], rs)
    BY SettledFacts DEF Settles
  <1>10. c = IF n > 0 THEN b3 ELSE b2
    <2>1. /\ IndexReceipt(b, Receipt(tx, One(e1))) = IndexEntry(b1, x, e1)
          /\ IndexReceipt(b, Receipt(tx, Two(e1, e2))) =
                IndexEntry(IndexEntry(b1, x, e1), x, e2)
      BY <1>1, <1>5, <1>6, <1>9, TransferSteps
    <2>2. IndexEntry(b1, x, e1) = b2
      BY <1>2, IndexDestroyed
    <2>3. IndexEntry(b2, x, e2) = b3
      <3> HIDE DEF b2
      <3> QED
        BY <1>1, <1>2, IndexReceived
    <2> HIDE DEF log, e1, e2, b1, b2, b3, b
    <2> QED
      BY <1>7, <2>1, <2>2, <2>3
  <1>11. j \in Int /\ t + j \in Int /\ t + j <= MAX_AMOUNT /\ t + j + n <= MAX_AMOUNT
         /\ t + j + n = t - fee
    <2> HIDE DEF t, b, n, fee
    <2> QED
      BY <1>1, <1>9, MaxNat
  <1> HIDE DEF script, log, r, c, t, x, y, fee, n, j, e1, e2, sx, sy, b1, b2, b3
  <1> DEFINE t1 == t + j
  <1>12. /\ Holds(b1, t1) /\ b1.supply = b.supply /\ b1.owner = b.owner
         /\ WithBalance(b1.accounts[x], lx, lx.balance + j)
         /\ \A id \in Ids : id # x => b1.accounts[id] = b.accounts[id]
    BY <1>1, <1>5, <1>9, <1>11, Moved DEF b1
  <1> HIDE DEF b
  <1>13. /\ b1.accounts[x] # None /\ b1.accounts[y] = ly /\ b1.accounts[y] # None
         /\ b1.accounts[x] \in Account
    BY <1>2, <1>4, <1>12, AccountFields DEF WithBalance
  <1>14. t1 \in Int /\ t1 <= MAX_AMOUNT /\ t1 + n <= MAX_AMOUNT /\ t1 + n = t - fee
    BY <1>11
  <1> HIDE DEF t1, lx, ly
  <1> DEFINE bal == b1.accounts[x].balance
  <1>15. bal \in Nat
    BY <1>1, <1>12, <1>13, HeldNat
  <1> HIDE DEF bal
  <1>16. /\ Holds(b2, t1) /\ b2.supply = b.supply /\ b2.owner = b.owner
         /\ b2.accounts[x] = Gone(b1.accounts[x])
         /\ WithBalance(b2.accounts[y], ly, ly.balance + bal)
         /\ \A id \in Ids \ {x, y} : b2.accounts[id] = b.accounts[id]
    <2>1. /\ Holds(b2, t1) /\ b2.supply = b1.supply /\ b2.owner = b1.owner
          /\ b2.accounts[x] = Gone(b1.accounts[x])
          /\ WithBalance(b2.accounts[y], b1.accounts[y], b1.accounts[y].balance + bal)
          /\ \A id \in Ids \ {x, y} : b2.accounts[id] = b1.accounts[id]
      BY <1>1, <1>2, <1>12, <1>13, <1>14, Destroyed DEF b2, bal
    <2> QED
      BY <1>12, <1>13, <2>1
  <1>17. /\ b2.accounts[y] \in Account /\ b2.accounts[y] # None
         /\ b2.accounts[y].balance \in Nat /\ b2.accounts[y].balance + n >= 0
    <2>1. b2.accounts[y] \in Account /\ b2.accounts[y] # None
      BY <1>16, AccountFields DEF WithBalance
    <2>2. b2.accounts[y].balance \in Nat
      BY <1>2, <1>16, <2>1, HeldNat
    <2> QED
      BY <1>1, <2>1, <2>2
  <1>18. /\ Holds(b3, t1 + n) /\ b3.supply = b.supply /\ b3.owner = b.owner
         /\ WithBalance(b3.accounts[y], b2.accounts[y], b2.accounts[y].balance + n)
         /\ b3.accounts[y].balance <= t1 + n
         /\ \A id \in Ids : id # y => b3.accounts[id] = b2.accounts[id]
    BY <1>1, <1>2, <1>14, <1>16, <1>17, Moved DEF b3
  \* The destruction and the amount, from here on as one change of the batch.
  <1>19. /\ Holds(c, t - fee) /\ c.supply = b.supply /\ c.owner = b.owner
         /\ c.accounts[x] = Gone(b1.accounts[x])
         /\ WithBalance(c.accounts[y], ly, ly.balance + (bal + n))
         /\ \A id \in Ids \ {x, y} : c.accounts[id] = b.accounts[id]
    <2>1. CASE n > 0
      <3>1. c = b3
        BY <1>10, <2>1
      <3>2. b2.accounts[y].balance + n = ly.balance + (bal + n)
        BY <1>1, <1>4, <1>15, <1>16 DEF WithBalance
      <3>3. WithBalance(b3.accounts[y], ly, ly.balance + (bal + n))
        BY <1>16, <1>18, <3>2 DEF WithBalance
      <3> QED
        BY <1>1, <1>2, <1>14, <1>16, <1>18, <3>1, <3>3
    <2>2. CASE n = 0
      <3>1. c = b2
        BY <1>10, <2>2
      <3>2. t1 = t - fee /\ bal + n = bal
        BY <1>14, <1>15, <2>2
      <3> QED
        BY <1>16, <3>1, <3>2
    <2> QED
      BY <1>1, <2>1, <2>2
  <1>20. c.accounts[y].balance <= MAX_AMOUNT
    <2>1. \A id \in Ids : BalanceOf(c.accounts[id]) \in Nat
      BY <1>19 DEF Holds
    <2>2. BalanceOf(c.accounts[y]) <= Total(c.accounts)
      BY <1>2, <2>1, TotalBounds
    <2>3. c.accounts[y] \in Account /\ c.accounts[y].balance = BalanceOf(c.accounts[y])
      BY <1>19, AccountFields DEF WithBalance
    <2>4. c.accounts[y].balance <= t - fee
      BY <1>19, <2>2, <2>3 DEF Holds
    <2>5. c.accounts[y].balance \in Int
      BY <2>3, AccountFields
    <2> QED
      BY <1>1, <1>9, <2>4, <2>5, MaxNat
  <1>21. ASSUME NEW id \in Ids, NEW s \in Account
         PROVE  LET s1 == IF x = id THEN Adjust(s, j) ELSE s
                    s2 == IF x = id THEN Gone(s1) ELSE s1
                    s3 == IF y = id THEN Adjust(s2, n) ELSE s2
                IN  s1 # None /\ s2 # None =>
                       OverlayReceipt(id, s, r) = IF n > 0 THEN s3 ELSE s2
    <2> DEFINE s1 == IF x = id THEN Adjust(s, j) ELSE s
               s2 == IF x = id THEN Gone(s1) ELSE s1
               s3 == IF y = id THEN Adjust(s2, n) ELSE s2
    <2> SUFFICES ASSUME s1 # None, s2 # None
                 PROVE  OverlayReceipt(id, s, r) = IF n > 0 THEN s3 ELSE s2
      OBVIOUS
    <2>1. /\ OverlayReceipt(id, s, Receipt(tx, One(e1))) = OverlayEntry(id, x, s1, e1)
          /\ OverlayReceipt(id, s, Receipt(tx, Two(e1, e2))) =
                OverlayEntry(id, x, OverlayEntry(id, x, s1, e1), e2)
      BY <1>6, <1>9, TransferSteps DEF x, j, fee, n
    <2> HIDE DEF s1
    <2>2. OverlayEntry(id, x, s1, e1) = s2
      BY <1>2, OverlayDestroyed DEF e1
    <2> HIDE DEF s2
    <2>3. OverlayEntry(id, x, s2, e2) = s3
      BY <1>1, <1>2, OverlayReceived DEF e2
    <2> HIDE DEF s3
    <2> QED
      BY <1>7, <2>1, <2>2, <2>3 DEF r
  <1>22. ASSUME NEW id \in Ids
         PROVE  /\ StepAgrees(id, accounts[id], GetAccount(id, rs), b.accounts[id],
                              OverlayReceipt(id, GetAccount(id, rs), r), c.accounts[id], r)
                /\ PermsStep(id, b.accounts[id], c.accounts[id], r)
    <2>1. CASE accounts[id] = None
      <3>1. GetAccount(id, rs) = None
        BY <1>9, <2>1 DEF Agree
      <3>2. OverlayReceipt(id, GetAccount(id, rs), r) = GetAccount(id, rs)
        BY <3>1 DEF OverlayReceipt
      <3>3. c.accounts[id] = b.accounts[id]
        BY <1>1, <1>4, <1>19, <2>1
      <3> QED
        BY <3>2, <3>3, SameStep DEF b
    <2>2. CASE accounts[id] # None /\ id # x /\ id # y
      <3>1. GetAccount(id, rs) \in Account
        BY <2>2, SeenFacts
      <3>2. GetAccount(id, rs) # None
        BY <3>1, AccountFields
      <3>3. OverlayReceipt(id, GetAccount(id, rs), r) = GetAccount(id, rs)
        BY <1>21, <2>2, <3>1, <3>2
      <3>4. c.accounts[id] = b.accounts[id]
        BY <1>19, <2>2
      <3> QED
        BY <3>3, <3>4, SameStep DEF b
    <2>3. CASE id = x
      <3> DEFINE s1 == Adjust(sx, j)
                 s2 == Gone(s1)
                 l1 == b1.accounts[x]
      <3>1. InRange(sx.balance + j)
        <4>1. lx.balance <= t
          <5>1. \A i \in Ids : BalanceOf(b.accounts[i]) \in Nat
            BY <1>9 DEF Holds
          <5>2. BalanceOf(b.accounts[x]) <= Total(b.accounts)
            BY <1>1, <5>1, TotalBounds
          <5>3. BalanceOf(b.accounts[x]) = lx.balance
            BY <1>5, AccountFields DEF lx
          <5> QED
            BY <1>9, <5>2, <5>3 DEF Holds
        <4> QED
          BY <1>1, <1>5, <1>9, <1>11, <4>1, MaxNat DEF InRange, Amount
      <3>2. WithBalance(s1, sx, sx.balance + j)
        BY <1>5, <1>11, <3>1, AdjustFacts
      <3>3. s1 \in Account /\ s1 # None /\ s1.script = sx.script /\ s1.perms = sx.perms
        BY <3>2, AccountFields DEF WithBalance
      <3>4. /\ s2 \in Account /\ s2.destroyed = TRUE /\ s2.balance = 0
            /\ s2.script = s1.script /\ s2.perms = s1.perms
        BY <3>3, GoneFacts
      <3>5. s2 # None
        BY <3>4, AccountFields
      <3>6. OverlayReceipt(id, sx, r) = s2
        BY <1>2, <1>5, <1>21, <2>3, <3>3, <3>5
      <3>7. /\ c.accounts[x] \in Account /\ c.accounts[x].destroyed = TRUE
            /\ c.accounts[x].balance = 0
            /\ c.accounts[x].script = lx.script /\ c.accounts[x].perms = lx.perms
        <4>1. l1 \in Account /\ l1.script = lx.script /\ l1.perms = lx.perms
          BY <1>12, <1>13 DEF WithBalance
        <4>2. c.accounts[x] = Gone(l1)
          BY <1>19
        <4> HIDE DEF l1
        <4>3. /\ Gone(l1) \in Account /\ Gone(l1).destroyed = TRUE
              /\ Gone(l1).balance = 0
              /\ Gone(l1).script = l1.script /\ Gone(l1).perms = l1.perms
          BY <4>1, GoneFacts
        <4> QED
          BY <4>1, <4>2, <4>3
      <3>8. c.accounts[x] # None
        BY <3>7, AccountFields
      <3> HIDE DEF s1, s2
      <3>9. 0 <= lx.balance
        BY <1>5
      <3>10. StepAgrees(id, accounts[id], sx, lx, s2, c.accounts[x], r)
        <4> DEFINE l2 == c.accounts[x]
        <4>1. id \in Names(r)
          BY <1>8, <2>3
        <4>2. /\ 0 <= s2.balance /\ s2.balance <= l2.balance
              /\ l2.balance <= IF lx.destroyed THEN lx.balance ELSE 0
          BY <3>4, <3>7, <3>9
        <4>3. s2.destroyed = l2.destroyed /\ l2.destroyed
          BY <3>4, <3>7
        <4>4. sx.script = lx.script /\ sx.perms = lx.perms =>
                 s2.script = l2.script /\ s2.perms = l2.perms
          BY <3>3, <3>4, <3>7
        <4>5. accounts[id] # None /\ s2 # None /\ l2 # None
          BY <1>1, <2>3, <3>5, <3>8
        <4> HIDE DEF l2
        <4> QED
          BY <4>1, <4>2, <4>3, <4>4, <4>5 DEF StepAgrees, l2
      <3>11. PermsStep(id, lx, c.accounts[x], r)
        BY <1>5, <3>7 DEF PermsStep
      <3> QED
        BY <2>3, <3>6, <3>10, <3>11 DEF sx, lx
    <2>4. CASE id = y
      <3> DEFINE s3 == IF n > 0 THEN Adjust(sy, n) ELSE sy
      <3>1. OverlayReceipt(id, sy, r) = s3
        BY <1>2, <1>3, <1>4, <1>21, <2>4
      <3>2. /\ c.accounts[y] \in Account /\ c.accounts[y].balance = ly.balance + (bal + n)
            /\ c.accounts[y].destroyed = ly.destroyed
            /\ c.accounts[y].script = ly.script /\ c.accounts[y].perms = ly.perms
        BY <1>19 DEF WithBalance
      <3>3. c.accounts[y] # None
        BY <3>2, AccountFields
      <3>4. InRange(sy.balance + n)
        BY <1>1, <1>4, <1>15, <1>20, <3>2, MaxNat DEF InRange, Amount
      <3>5. WithBalance(s3, sy, sy.balance + n)
        <4>1. CASE n > 0
          <5>1. WithBalance(Adjust(sy, n), sy, sy.balance + n)
            BY <1>1, <1>4, <3>4, AdjustFacts
          <5> QED
            BY <4>1, <5>1
        <4>2. CASE n = 0
          <5>1. sy.balance + n = sy.balance /\ s3 = sy
            BY <1>4, <4>2
          <5> QED
            BY <1>4, <5>1 DEF WithBalance
        <4> QED
          BY <1>1, <4>1, <4>2
      <3> HIDE DEF s3
      <3>6. /\ s3 \in Account /\ s3.balance = sy.balance + n /\ s3.destroyed = sy.destroyed
            /\ s3.script = sy.script /\ s3.perms = sy.perms
        BY <3>5 DEF WithBalance
      <3>7. s3 # None
        BY <3>6, AccountFields
      <3>8. 0 <= s3.balance /\ s3.balance <= c.accounts[y].balance
        BY <1>1, <1>4, <1>15, <3>2, <3>6
      <3>9. s3.destroyed = c.accounts[y].destroyed /\ ~c.accounts[y].destroyed
        <4>1. sy.destroyed = ly.destroyed
          BY <1>2, <1>3, SeenFacts DEF sy, ly, b
        <4> QED
          BY <1>4, <3>2, <3>6, <4>1
      <3>10. StepAgrees(id, accounts[id], sy, ly, s3, c.accounts[y], r)
        BY <1>4, <1>8, <2>4, <3>2, <3>3, <3>6, <3>7, <3>8, <3>9 DEF StepAgrees
      <3>11. PermsStep(id, ly, c.accounts[y], r)
        BY <1>4, <3>2 DEF PermsStep
      <3> QED
        BY <2>4, <3>1, <3>10, <3>11 DEF sy, ly
    <2> QED
      BY <2>1, <2>2, <2>3, <2>4
  <1>23. c.supply = b.supply + MintOf(r) /\ c.supply <= MAX_AMOUNT /\ accounts[c.owner] # None
    BY <1>8, <1>9, <1>19 DEF MintOf
  <1>24. Holds(c, c.supply - Rewards(rs) - fee)
    BY <1>19 DEF t
  <1>25. GoodStep(rs, r, b, c)
    BY <1>8, <1>22, <1>23, <1>24 DEF GoodStep, fee
  <1> QED
    BY <1>8, <1>25 DEF r, b, c, log, script

-----------------------------------------------------------------------------
(* Every accepted transaction.                                             *)

LEMMA TransferLogType ==
  ASSUME NEW tx \in Tx, tx.type = "Transfer", NEW script \in Script
  PROVE  TransferLog(script, tx) \in Seq(LogEntry)
  <1>1. tx.from \in Ids /\ tx.arg_to \in Ids /\ tx.amount \in Int /\ tx.arg_amount \in Int
    BY TxFields
  <1>2. CASE script.kind = "destroy"
    <2> DEFINE e1 == Destroy(script.to)
               e2 == Transfer(script.to, tx.amount)
    <2>1. e1 \in LogEntry /\ e2 \in LogEntry
      BY <1>1, <1>2, ScriptFields, EntryTypes
    <2>2. TransferLog(script, tx) = <<e1>> \o (IF tx.amount > 0 THEN <<e2>> ELSE <<>>)
      BY <1>2 DEF TransferLog
    <2> HIDE DEF e1, e2
    <2> QED
      BY <2>1, <2>2, LogTypes
  <1>3. CASE script.kind # "destroy"
    <2> DEFINE e1 == Transfer(tx.arg_to, tx.arg_amount)
               e2 == Transfer(tx.from, tx.amount - tx.arg_amount)
    <2>1. e1 \in LogEntry
      BY <1>1, EntryTypes
    <2>2. e2 \in LogEntry
      <3>1. tx.amount - tx.arg_amount \in Int
        BY <1>1
      <3> QED
        BY <1>1, <3>1, EntryTypes
    <2>3. TransferLog(script, tx) =
             <<e1>> \o (IF tx.amount > tx.arg_amount THEN <<e2>> ELSE <<>>)
      BY <1>3 DEF TransferLog
    <2> HIDE DEF e1, e2
    <2> QED
      BY <2>1, <2>2, <2>3, LogTypes
  <1> QED
    BY <1>2, <1>3

\* What execute_tx accepts has a type, and neither its fee nor its mint is
\* negative.
LEMMA ExecuteFacts ==
  ASSUME SoundIndex(accounts, supply, owner), NEW rs \in Seq(Receipts), NEW tx \in Tx,
         ExecuteOk(tx, rs)
  PROVE  LET r == Receipt(tx, ExecuteLog(tx, rs))
         IN  r \in Receipts /\ r.tx = tx /\ r.tx.fee \in Nat /\ MintOf(r) \in Nat
  <1> DEFINE log == ExecuteLog(tx, rs)
             r == Receipt(tx, log)
  <1>1. /\ tx.type \in {"Owner", "Mint", "Create", "Update", "Transfer"} /\ tx.fee \in Int
        /\ tx.type = "Mint" => tx.amount \in Int
        /\ tx.type = "Transfer" => tx.from \in Ids
    BY TxFields
  <1>2. /\ tx.type = "Owner" => OwnerOk(tx, rs)
        /\ tx.type = "Mint" => MintOk(tx, rs)
        /\ tx.type = "Create" => CreateOk(tx, rs)
        /\ tx.type = "Update" => UpdateOk(tx, rs)
        /\ tx.type = "Transfer" => TransferOk(tx, rs)
    BY DEF ExecuteOk
  <1>3. log \in Seq(LogEntry)
    <2>1. CASE tx.type = "Transfer"
      <3>1. GetAccount(tx.from, rs) # None
        BY <1>2, <2>1 DEF TransferOk
      <3>2. GetAccount(tx.from, rs) \in Account
        BY <1>1, <2>1, <3>1, ReceiptSteps DEF MaybeAccount
      <3>3. GetAccount(tx.from, rs).script \in Script
        BY <3>2, AccountFields
      <3> QED
        BY <2>1, <3>3, TransferLogType DEF ExecuteLog
    <2>2. CASE tx.type # "Transfer"
      BY <2>2 DEF ExecuteLog
    <2> QED
      BY <2>1, <2>2
  <1> HIDE DEF log
  <1>4. r \in Receipts /\ r.tx = tx
    BY <1>3, ReceiptFields
  <1> HIDE DEF r
  <1>5. tx.fee >= 0
    <2>1. CASE tx.type \in {"Owner", "Mint"}
      BY <1>2, <2>1 DEF OwnerOk, MintOk
    <2>2. CASE tx.type = "Create"
      <3>1. tx.fee >= AccountTxFee(tx.creator, rs) /\ HasFee(tx.creator, rs)
        BY <1>2, <2>2 DEF CreateOk
      <3>2. AccountTxFee(tx.creator, rs) \in Nat
        BY <3>1, FeeFacts
      <3> QED
        BY <1>1, <3>1, <3>2
    <2>3. CASE tx.type = "Update"
      <3>1. tx.fee >= AccountTxFee(tx.account_id, rs) /\ HasFee(tx.account_id, rs)
        BY <1>2, <2>3 DEF UpdateOk
      <3>2. AccountTxFee(tx.account_id, rs) \in Nat
        BY <3>1, FeeFacts
      <3> QED
        BY <1>1, <3>1, <3>2
    <2>4. CASE tx.type = "Transfer"
      <3>1. tx.fee >= TotalFee(tx.from, rs) /\ HasFee(tx.from, rs)
        BY <1>2, <2>4 DEF TransferOk
      <3>2. TotalFee(tx.from, rs) \in Nat
        BY <3>1, FeeFacts
      <3> QED
        BY <1>1, <3>1, <3>2
    <2> QED
      BY <1>1, <2>1, <2>2, <2>3, <2>4
  <1>6. MintOf(r) \in Nat
    <2>1. tx.type = "Mint" => tx.amount >= 0
      BY <1>2 DEF MintOk
    <2> QED
      BY <1>1, <1>4, <2>1 DEF MintOf
  <1> QED
    BY <1>1, <1>4, <1>5, <1>6 DEF r, log

\* One more receipt on receipts that can be indexed.
LEMMA SettledPush ==
  ASSUME NEW rs, Settles(rs), NEW tx \in Tx, ExecuteOk(tx, rs)
  PROVE  LET new == Append(rs, Receipt(tx, ExecuteLog(tx, rs)))
         IN  IF Left(new).ok THEN SettledInv(new) ELSE BadMints(new)
  <1> DEFINE r == Receipt(tx, ExecuteLog(tx, rs))
             new == Append(rs, r)
             c == IndexReceipt(Left(rs), r)
  <1>0. SoundIndex(accounts, supply, owner) /\ rs \in Seq(Receipts)
    BY DEF Settles
  <1>1. r \in Receipts /\ r.tx = tx /\ MintOf(r) \in Nat
    BY <1>0, ExecuteFacts
  <1>2. Left(new) = c
    BY <1>0, <1>1, ReceiptSteps
  <1>3. IF c.ok THEN GoodStep(rs, r, Left(rs), c) ELSE BadMints(new)
    <2>0. tx.type # "Transfer" => r = Receipt(tx, <<>>)
      BY DEF ExecuteLog
    <2>a. GoodStep(rs, r, Left(rs), c) => c.ok
      BY DEF GoodStep, Holds
    <2>1. CASE tx.type = "Owner" /\ OwnerOk(tx, rs)
      <3>1. GoodStep(rs, r, Left(rs), c)
        BY <2>0, <2>1, PushOwner
      <3> QED
        BY <2>a, <3>1
    <2>2. CASE tx.type = "Mint" /\ MintOk(tx, rs)
      BY <2>0, <2>2, PushMint
    <2>3. CASE tx.type = "Create" /\ CreateOk(tx, rs)
      <3>1. GoodStep(rs, r, Left(rs), c)
        BY <2>0, <2>3, PushCreate
      <3> QED
        BY <2>a, <3>1
    <2>4. CASE tx.type = "Update" /\ UpdateOk(tx, rs)
      <3>1. GoodStep(rs, r, Left(rs), c)
        BY <2>0, <2>4, PushUpdate
      <3> QED
        BY <2>a, <3>1
    <2>5. CASE tx.type = "Transfer" /\ TransferOk(tx, rs)
      <3>0. r = Receipt(tx, TransferLog(GetAccount(tx.from, rs).script, tx))
        BY <2>5 DEF ExecuteLog
      <3>1. GoodStep(rs, r, Left(rs), c)
        BY <2>5, <3>0, PushSend, PushDestroy
      <3> QED
        BY <2>a, <3>1
    <2> QED
      BY <2>1, <2>2, <2>3, <2>4, <2>5 DEF ExecuteOk
  <1> HIDE DEF c, r
  <1>4. CASE c.ok
    <2>1. SettledInv(new)
      BY <1>1, <1>3, <1>4, SettledStep DEF c
    <2> QED
      BY <1>2, <1>4, <2>1 DEF r
  <1>5. CASE ~c.ok
    BY <1>2, <1>3, <1>5 DEF r
  <1> QED
    BY <1>4, <1>5

\* Receipts that cannot be indexed stay so.
LEMMA BadPush ==
  ASSUME SoundIndex(accounts, supply, owner), NEW rs \in Seq(Receipts), Minted(rs) >= 0,
         NEW r \in Receipts, MintOf(r) \in Nat, ~Left(rs).ok, BadMints(rs)
  PROVE  ~Left(Append(rs, r)).ok /\ BadMints(Append(rs, r))
  <1> DEFINE new == Append(rs, r)
  <1>1. Left(new) = Left(rs)
    <2>1. Left(new) = IndexReceipt(Left(rs), r)
      BY ReceiptSteps
    <2> QED
      BY <2>1 DEF IndexReceipt
  <1>2. Minted(rs) \in Int /\ Minted(new) = Minted(rs) + MintOf(r)
    <2>1. /\ Minted(rs) \in Int
          /\ Minted(new) = IF r.tx.type = "Mint" THEN Minted(rs) + r.tx.amount ELSE Minted(rs)
      BY MintedSteps
    <2> QED
      BY <2>1 DEF MintOf
  <1>3. \A id : MintedTo(id, rs) => MintedTo(id, new)
    BY AppendStatements
  <1>4. supply \in Nat
    BY LedgerAssumption DEF SoundIndex
  <1> HIDE DEF new
  <1>5. CASE \E id \in Ids : accounts[id] = None /\ MintedTo(id, rs)
    BY <1>1, <1>3, <1>5 DEF BadMints, new
  <1>6. CASE ~InRange(supply + Minted(rs))
    <2>1. supply + Minted(rs) > MAX_AMOUNT
      BY <1>2, <1>4, <1>6, MaxNat DEF InRange, Amount
    <2>2. ~InRange(supply + Minted(new))
      BY <1>2, <1>4, <2>1, MaxNat DEF InRange, Amount
    <2> QED
      BY <1>1, <2>2 DEF BadMints, new
  <1> QED
    BY <1>5, <1>6 DEF BadMints

-----------------------------------------------------------------------------
(* Steps.                                                                  *)

\* A transaction is judged by the index, the chain and the receipts before it.
LEMMA SameVerdict ==
  ASSUME NEW tx, NEW rs, UNCHANGED <<accounts, supply, owner, chain>>
  PROVE  ExecuteOk(tx, rs)' <=> ExecuteOk(tx, rs)
  BY DEF ExecuteOk, ExecutePanics, OwnerOk, MintOk, CreateOk, UpdateOk, TransferOk,
         AllowsOwner, AllowsTransfer, Live, CheckPerms, GetAccount, TotalFee, AccountTxFee,
         MinBalance, HasFee, FeeCount, NetworkCount, Height

LEMMA SameInvariant ==
  ASSUME NEW rs, UNCHANGED <<accounts, supply, owner, chain>>, pool' = rs
  PROVE  /\ Left(pool)' = Left(rs)
         /\ SettledInv(rs) => SettledInv(pool)'
         /\ BadMints(rs) => BadMints(pool)'
         /\ \A id \in Ids : PermsInv(id, accounts[id], <<>>) => PermsInv(id, accounts[id], <<>>)'
  <1>1. Left(pool)' = Left(rs)
    BY DEF Left, Batch
  <1>2. SettledInv(rs) => SettledInv(pool)'
    BY <1>1 DEF SettledInv, GetAccount, PermsInv
  <1>3. BadMints(rs) => BadMints(pool)'
    BY DEF BadMints
  <1>4. \A id \in Ids :
           PermsInv(id, accounts[id], <<>>) => PermsInv(id, accounts[id], <<>>)'
    BY DEF PermsInv
  <1> QED
    BY <1>1, <1>2, <1>3, <1>4

\* Where the receipts before the i-th end.
LEMMA PrefixKept ==
  ASSUME NEW rs \in Seq(Receipts), NEW r \in Receipts
  PROVE  /\ \A i \in DOMAIN rs : SubSeq(Append(rs, r), 1, i - 1) = SubSeq(rs, 1, i - 1)
         /\ SubSeq(Append(rs, r), 1, Len(rs)) = rs
  OBVIOUS

LEMMA VerifiedPush ==
  ASSUME NEW rs \in Seq(Receipts), NEW r \in Receipts, VerifyBlock(rs), ExecuteOk(r.tx, rs)
  PROVE  VerifyBlock(Append(rs, r))
  <1> DEFINE new == Append(rs, r)
  <1>1. /\ DOMAIN new = (DOMAIN rs) \cup {Len(rs) + 1}
        /\ \A i \in DOMAIN rs : new[i] = rs[i]
        /\ new[Len(rs) + 1] = r
    BY AppendFacts
  <1>p. /\ \A i \in DOMAIN rs : SubSeq(new, 1, i - 1) = SubSeq(rs, 1, i - 1)
        /\ SubSeq(new, 1, Len(rs)) = rs
    BY PrefixKept
  <1> HIDE DEF new
  <1>2. ASSUME NEW i \in DOMAIN new
        PROVE  ExecuteOk(new[i].tx, SubSeq(new, 1, i - 1))
    <2>1. CASE i \in DOMAIN rs
      <3>1. SubSeq(new, 1, i - 1) = SubSeq(rs, 1, i - 1) /\ new[i] = rs[i]
        BY <1>1, <2>1, <1>p, Zenon
      <3>2. ExecuteOk(rs[i].tx, SubSeq(rs, 1, i - 1))
        BY <2>1, Zenon DEF VerifyBlock
      <3> QED
        BY <3>1, <3>2, Zenon
    <2>2. CASE i = Len(rs) + 1
      <3>1. i - 1 = Len(rs) /\ new[i] = r
        BY <1>1, <2>2
      <3>2. SubSeq(new, 1, i - 1) = rs
        BY <3>1, <1>p, Zenon
      <3> QED
        BY <3>1, <3>2, Zenon
    <2> QED
      BY <1>1, <1>2, <2>1, <2>2
  <1> QED
    BY <1>2 DEF VerifyBlock, new

\* push_tx.
LEMMA PushKeeps ==
  ASSUME LedgerInv, NEW tx \in Txs, Push(tx)
  PROVE  LedgerInv'
  <1>1. /\ SoundIndex(accounts, supply, owner) /\ pool \in Seq(Receipts)
        /\ chain \in Seq(Seq(Receipts)) /\ aborted \in BOOLEAN
        /\ Rewards(pool) >= 0 /\ Minted(pool) >= 0 /\ VerifyBlock(pool)
        /\ Left(pool).ok => SettledInv(pool)
        /\ ~Left(pool).ok => BadMints(pool)
        /\ \A id \in Ids : PermsInv(id, accounts[id], <<>>)
    BY DEF LedgerInv
  <1>2. /\ Len(pool) < MaxPool /\ ExecuteOk(tx, pool)
        /\ pool' = Append(pool, Receipt(tx, ExecuteLog(tx, pool)))
        /\ UNCHANGED <<accounts, supply, owner, chain>> /\ aborted' = aborted
    BY DEF Push
  <1>3. tx \in Tx
    BY LedgerAssumption
  <1>4. PICK old, r, new : old = pool /\ r = Receipt(tx, ExecuteLog(tx, pool))
                           /\ new = Append(old, r)
    OBVIOUS
  <1>5. r \in Receipts /\ r.tx = tx /\ r.tx.fee \in Nat /\ MintOf(r) \in Nat
    BY <1>1, <1>2, <1>3, <1>4, ExecuteFacts
  <1>6. pool' = new
    BY <1>2, <1>4
  <1>7. new \in Seq(Receipts) /\ Len(new) <= MaxPool
    <2>1. Len(old) \in Nat /\ MaxPool \in Nat /\ Len(old) < MaxPool /\ old \in Seq(Receipts)
      BY <1>1, <1>2, <1>4, LedgerAssumption
    <2> QED
      BY <1>4, <1>5, <2>1, AppendFacts
  <1>8. Rewards(new) >= 0 /\ Minted(new) >= 0
    <2>1. Rewards(old) \in Int /\ Rewards(new) = Rewards(old) + r.tx.fee
      BY <1>1, <1>4, <1>5, RewardsSteps
    <2>2. /\ Minted(old) \in Int
          /\ Minted(new) = IF r.tx.type = "Mint" THEN Minted(old) + r.tx.amount ELSE Minted(old)
      BY <1>1, <1>4, <1>5, MintedSteps
    <2>3. Rewards(old) >= 0 /\ Minted(old) >= 0
      BY <1>1, <1>4
    <2> QED
      BY <1>5, <2>1, <2>2, <2>3 DEF MintOf
  <1>9. VerifyBlock(new)
    BY <1>1, <1>2, <1>4, <1>5, VerifiedPush
  <1>10. VerifyBlock(pool)'
    <2>1. ASSUME NEW i \in DOMAIN new
          PROVE  ExecuteOk(new[i].tx, SubSeq(new, 1, i - 1))'
      <3>1. ExecuteOk(new[i].tx, SubSeq(new, 1, i - 1))
        BY <1>9 DEF VerifyBlock
      <3>2. PICK ti, ri : ti = new[i].tx /\ ri = SubSeq(new, 1, i - 1)
        OBVIOUS
      <3>3. ExecuteOk(ti, ri)' <=> ExecuteOk(ti, ri)
        BY <1>2, SameVerdict
      <3> QED
        BY <3>1, <3>2, <3>3
    <2> QED
      BY <1>6, <2>1 DEF VerifyBlock
  <1>11. IF Left(new).ok THEN SettledInv(new) ELSE BadMints(new)
    <2>1. CASE Left(pool).ok
      <3>1. Settles(pool)
        BY <1>1, <2>1 DEF Settles
      <3> QED
        BY <1>2, <1>3, <1>4, <3>1, SettledPush
    <2>2. CASE ~Left(pool).ok
      <3>1. ~Left(new).ok /\ BadMints(new)
        BY <1>1, <1>4, <1>5, <2>2, BadPush
      <3> QED
        BY <3>1
    <2> QED
      BY <2>1, <2>2
  <1>12. /\ Left(pool)' = Left(new)
         /\ SettledInv(new) => SettledInv(pool)'
         /\ BadMints(new) => BadMints(pool)'
         /\ \A id \in Ids : PermsInv(id, accounts[id], <<>>)'
    BY <1>1, <1>2, <1>6, SameInvariant
  <1>13. /\ (Left(pool).ok)' => SettledInv(pool)'
         /\ (~Left(pool).ok)' => BadMints(pool)'
    BY <1>11, <1>12
  <1>14. /\ SoundIndex(accounts', supply', owner') /\ chain' \in Seq(Seq(Receipts))
         /\ aborted' \in BOOLEAN
    BY <1>1, <1>2
  <1> QED
    BY <1>6, <1>7, <1>8, <1>10, <1>12, <1>13, <1>14 DEF LedgerInv

\* Nothing is in the pool: what the minter, a restart and the start leave.
FreshInv ==
    /\ SoundIndex(accounts, supply, owner)
    /\ pool = <<>>
    /\ chain \in Seq(Seq(Receipts))
    /\ aborted \in BOOLEAN
    /\ \A id \in Ids : PermsInv(id, accounts[id], <<>>)

LEMMA FreshHolds == FreshInv => LedgerInv
  <1> SUFFICES ASSUME FreshInv PROVE LedgerInv
    OBVIOUS
  <1>1. /\ SoundIndex(accounts, supply, owner) /\ pool = <<>>
        /\ chain \in Seq(Seq(Receipts)) /\ aborted \in BOOLEAN
        /\ \A id \in Ids : PermsInv(id, accounts[id], <<>>)
    BY DEF FreshInv
  <1>2. pool \in Seq(Receipts) /\ Len(pool) = 0 /\ DOMAIN pool = {}
    BY <1>1
  <1>3. MaxPool \in Nat
    BY LedgerAssumption
  <1>4. Rewards(pool) = 0 /\ Minted(pool) = 0
    BY <1>1, <1>2, RewardsSteps, MintedSteps
  <1>5. VerifyBlock(pool)
    BY <1>2 DEF VerifyBlock
  <1>6. Left(pool) = Batch /\ \A id \in Ids : GetAccount(id, pool) = accounts[id]
    BY <1>1, <1>2, ReceiptSteps
  <1>7. /\ Batch.ok /\ Batch.accounts = accounts /\ Batch.supply = supply
        /\ Batch.owner = owner /\ \A id \in Ids : accounts[id] \in MaybeAccount
    BY <1>1, BatchType
  <1>8. /\ \A id \in Ids : BalanceOf(accounts[id]) \in Nat
        /\ supply \in 0 .. MAX_AMOUNT /\ supply \in Int
        /\ owner \in Ids /\ accounts[owner] # None /\ Total(accounts) = supply
    BY <1>1, MaxNat DEF SoundIndex
  <1>9. ASSUME NEW id \in Ids
        PROVE  Agree(id, accounts[id], GetAccount(id, pool), Left(pool).accounts[id], pool)
    <2>1. Agree(id, accounts[id], accounts[id], accounts[id], pool)
      <3>1. accounts[id] # None => accounts[id].balance \in Nat
        BY <1>8 DEF BalanceOf
      <3> QED
        BY <3>1 DEF Agree
    <2> QED
      BY <1>6, <1>7, <2>1
  <1>10. SettledInv(pool)
    <2>1. ASSUME NEW id \in Ids
          PROVE  /\ BalanceOf(Left(pool).accounts[id]) >= 0
                 /\ PermsInv(id, Left(pool).accounts[id], pool)
      BY <1>1, <1>6, <1>7, <1>8
    <2>2. /\ Left(pool).supply = supply + Minted(pool)
          /\ Total(Left(pool).accounts) + Rewards(pool) = Left(pool).supply
      BY <1>4, <1>6, <1>7, <1>8
    <2> QED
      BY <1>6, <1>7, <1>8, <1>9, <2>1, <2>2 DEF SettledInv
  <1> QED
    BY <1>1, <1>2, <1>3, <1>4, <1>5, <1>6, <1>7, <1>10 DEF LedgerInv

\* The start, a block and a lost pool leave a fresh state.
LEMMA InitFresh == Init => FreshInv
  <1> SUFFICES ASSUME Init PROVE FreshInv
    OBVIOUS
  <1>1. /\ accounts = InitBatch.accounts /\ supply = InitBatch.supply
        /\ owner = InitBatch.owner /\ pool = <<>> /\ chain = InitBlocks /\ aborted = FALSE
    BY DEF Init
  <1>2. /\ SoundIndex(accounts, supply, owner)
        /\ \A id \in Ids : accounts[id] # None => IsValid(accounts[id].perms)
    BY <1>1, StartAssumption
  <1>3. \A id \in Ids : PermsInv(id, accounts[id], <<>>)
    BY <1>2 DEF PermsInv
  <1>4. chain \in Seq(Seq(Receipts))
    BY <1>1, LedgerAssumption
  <1> QED
    BY <1>1, <1>2, <1>3, <1>4 DEF FreshInv

\* The pool is lost.
LEMMA PoolLost ==
  ASSUME LedgerInv, UNCHANGED <<accounts, supply, owner, chain>>, pool' = <<>>,
         aborted' \in BOOLEAN
  PROVE  FreshInv'
  <1>1. /\ SoundIndex(accounts, supply, owner) /\ chain \in Seq(Seq(Receipts))
        /\ \A id \in Ids : PermsInv(id, accounts[id], <<>>)
    BY DEF LedgerInv
  <1>2. \A id \in Ids : PermsInv(id, accounts[id], <<>>)'
    BY <1>1, SameInvariant
  <1> QED
    BY <1>1, <1>2 DEF FreshInv

\* What the pool leaves once the rewards are paid.
LEMMA BlockIndexed ==
  ASSUME NEW rs, Settles(rs)
  PROVE  LET b == Left(rs)
             c == IndexBlock(Batch, rs)
         IN  /\ c \in Batches /\ c.ok /\ c.owner = b.owner /\ b.owner \in Ids
             /\ SoundIndex(c.accounts, c.supply, c.owner)
             /\ \A id \in Ids :
                   /\ id # c.owner => c.accounts[id] = b.accounts[id]
                   /\ b.accounts[id] # None =>
                         /\ c.accounts[id] # None
                         /\ c.accounts[id].destroyed = b.accounts[id].destroyed
                         /\ c.accounts[id].perms = b.accounts[id].perms
                         /\ c.accounts[id].script = b.accounts[id].script
                         /\ b.accounts[id].balance <= c.accounts[id].balance
                   /\ c.accounts[id] # None => b.accounts[id] # None
  <1> DEFINE b == Left(rs)
             c == IndexBlock(Batch, rs)
             w == b.owner
             n == Rewards(rs)
             t == b.supply - n
  <1>1. /\ b \in Batches /\ b.supply \in Int /\ t \in Int /\ n \in Int
        /\ b.supply <= MAX_AMOUNT /\ 0 <= b.supply /\ w \in Ids /\ accounts[w] # None
        /\ Holds(b, t) /\ n >= 0
    BY SettledFacts DEF Settles
  <1>2. b.accounts[w] # None
    BY <1>1, SeenFacts
  <1>3. c = AddBal(b, w, n)
    BY DEF IndexBlock, Left
  <1> HIDE DEF b, c, w, n
  <1>4. t + n = b.supply /\ t + n <= MAX_AMOUNT
    BY <1>1
  <1> HIDE DEF t
  <1>5. b.accounts[w].balance + n >= 0
    <2>1. b.accounts[w].balance \in Nat
      BY <1>1, <1>2, HeldNat
    <2> QED
      BY <1>1, <2>1
  <1>6. /\ Holds(c, t + n) /\ c.supply = b.supply /\ c.owner = b.owner
        /\ WithBalance(c.accounts[w], b.accounts[w], b.accounts[w].balance + n)
        /\ \A x \in Ids : x # w => c.accounts[x] = b.accounts[x]
    BY <1>1, <1>2, <1>3, <1>4, <1>5, Moved
  <1>7. /\ c \in Batches /\ c.ok /\ Total(c.accounts) = c.supply
        /\ \A id \in Ids : BalanceOf(c.accounts[id]) \in Nat
    BY <1>4, <1>6 DEF Holds
  <1>8. c.owner = w
    BY <1>6 DEF w
  <1>9. c.accounts[w] # None /\ c.accounts[w].destroyed = b.accounts[w].destroyed
        /\ c.accounts[w].perms = b.accounts[w].perms
    BY <1>6, AccountFields DEF WithBalance
  <1>s. /\ c.accounts[w].script = b.accounts[w].script
        /\ b.accounts[w].balance <= c.accounts[w].balance
    <2>1. b.accounts[w].balance \in Nat
      BY <1>1, <1>2, HeldNat
    <2> QED
      BY <1>1, <1>6, <2>1 DEF WithBalance
  <1>10. SoundIndex(c.accounts, c.supply, c.owner)
    <2>1. c.accounts \in [Ids -> Account \cup {None}]
      BY <1>7, BatchFields DEF MaybeAccount
    <2>2. ASSUME NEW id \in Ids PROVE BalanceOf(c.accounts[id]) \in 0 .. MAX_AMOUNT
      <3>1. BalanceOf(c.accounts[id]) \in Nat /\ BalanceOf(c.accounts[id]) <= Total(c.accounts)
        BY <1>7, TotalBounds
      <3> QED
        BY <1>1, <1>6, <1>7, <3>1, MaxNat
    <2>3. c.supply \in 0 .. MAX_AMOUNT
      BY <1>1, <1>6, MaxNat
    <2> QED
      BY <1>1, <1>7, <1>8, <1>9, <2>1, <2>2, <2>3 DEF SoundIndex
  <1>11. ASSUME NEW id \in Ids
         PROVE  /\ id # c.owner => c.accounts[id] = b.accounts[id]
                /\ b.accounts[id] # None =>
                      /\ c.accounts[id] # None
                      /\ c.accounts[id].destroyed = b.accounts[id].destroyed
                      /\ c.accounts[id].perms = b.accounts[id].perms
                      /\ c.accounts[id].script = b.accounts[id].script
                      /\ b.accounts[id].balance <= c.accounts[id].balance
                /\ c.accounts[id] # None => b.accounts[id] # None
    <2>1. CASE id = w
      BY <1>2, <1>6, <1>8, <1>9, <1>s, <2>1
    <2>2. CASE id # w
      <3>1. c.accounts[id] = b.accounts[id]
        BY <1>6, <2>2
      <3>2. b.accounts[id] # None => b.accounts[id].balance \in Nat
        BY <1>1, HeldNat
      <3> QED
        BY <3>1, <3>2
    <2> QED
      BY <2>1, <2>2
  <1> QED
    BY <1>1, <1>6, <1>7, <1>10, <1>11 DEF b, c, w

\* A pool whose block can be indexed, rewards included, settles.
LEMMA ProducibleSettles ==
  ASSUME LedgerInv, IndexBlock(Batch, pool).ok
  PROVE  Settles(pool)
  <1>1. Left(pool).ok
    <2>1. SoundIndex(accounts, supply, owner) /\ pool \in Seq(Receipts)
      BY DEF LedgerInv
    <2>2. Left(pool) \in Batches
      BY <2>1, ReceiptSteps
    <2>3. IndexBlock(Batch, pool) = AddBal(Left(pool), Left(pool).owner, Rewards(pool))
      BY DEF IndexBlock, Left
    <2>5. Left(pool).owner \in Ids /\ Rewards(pool) \in Int
      BY <2>1, <2>2, BatchFields, RewardsSteps
    <2> QED
      BY <2>2, <2>3, <2>5, AddBalFacts DEF CanAdd
  <1> QED
    BY <1>1 DEF LedgerInv, Settles

\* produce.
LEMMA ProduceFresh ==
  ASSUME LedgerInv, Produce
  PROVE  FreshInv'
  <1> DEFINE b == Left(pool)
             c == IndexBlock(Batch, pool)
  <1>1. /\ Producible(pool) /\ accounts' = c.accounts /\ supply' = c.supply
        /\ owner' = c.owner /\ chain' = Append(chain, pool) /\ pool' = <<>>
        /\ aborted' = aborted
    BY DEF Produce
  <1>2. Settles(pool)
    BY <1>1, ProducibleSettles DEF Producible
  <1>3. /\ SoundIndex(c.accounts, c.supply, c.owner)
        /\ \A id \in Ids : c.accounts[id] # None =>
              b.accounts[id] # None /\ c.accounts[id].perms = b.accounts[id].perms
    BY <1>2, BlockIndexed
  <1>4. \A id \in Ids : PermsInv(id, b.accounts[id], pool)
    BY <1>2, SettledFacts
  <1>5. /\ chain \in Seq(Seq(Receipts)) /\ pool \in Seq(Receipts) /\ aborted \in BOOLEAN
    BY DEF LedgerInv
  <1>6. /\ chain' \in Seq(Seq(Receipts)) /\ Len(chain) + 1 \in DOMAIN chain'
        /\ chain'[Len(chain) + 1] = pool
        /\ \A i \in DOMAIN chain : i \in DOMAIN chain' /\ chain'[i] = chain[i]
    BY <1>1, <1>5
  <1> HIDE DEF b, c
  <1>7. ASSUME NEW id \in Ids PROVE PermsInv(id, accounts[id], <<>>)'
    <2> SUFFICES ASSUME accounts'[id] # None
                 PROVE  \/ IsValid(accounts'[id].perms)
                        \/ \E i \in DOMAIN chain' :
                              GivenUnchecked(id, accounts'[id].perms, chain'[i])
      BY DEF PermsInv
    <2>1. b.accounts[id] # None /\ accounts'[id].perms = b.accounts[id].perms
      BY <1>1, <1>3
    <2>2. \/ IsValid(b.accounts[id].perms)
          \/ \E i \in DOMAIN chain : GivenUnchecked(id, b.accounts[id].perms, chain[i])
          \/ GivenUnchecked(id, b.accounts[id].perms, pool)
      BY <1>4, <2>1 DEF PermsInv
    <2> QED
      BY <1>6, <2>1, <2>2
  <1> QED
    BY <1>1, <1>3, <1>5, <1>6, <1>7 DEF FreshInv

\* A stuttering step.
LEMMA UnchangedKeeps ==
  ASSUME LedgerInv, UNCHANGED vars
  PROVE  LedgerInv'
  <1>1. /\ UNCHANGED <<accounts, supply, owner, chain>> /\ pool' = pool /\ aborted' = aborted
    BY DEF vars
  <1>2. PICK rs : rs = pool
    OBVIOUS
  <1>3. /\ Left(pool)' = Left(rs)
        /\ SettledInv(rs) => SettledInv(pool)'
        /\ BadMints(rs) => BadMints(pool)'
        /\ \A id \in Ids :
              PermsInv(id, accounts[id], <<>>) => PermsInv(id, accounts[id], <<>>)'
    BY <1>1, <1>2, SameInvariant
  <1>4. /\ SoundIndex(accounts, supply, owner)
        /\ pool \in Seq(Receipts) /\ Len(pool) <= MaxPool
        /\ chain \in Seq(Seq(Receipts)) /\ aborted \in BOOLEAN
        /\ Rewards(pool) >= 0 /\ Minted(pool) >= 0 /\ VerifyBlock(pool)
        /\ Left(pool).ok => SettledInv(pool)
        /\ ~Left(pool).ok => BadMints(pool)
        /\ \A id \in Ids : PermsInv(id, accounts[id], <<>>)
    BY DEF LedgerInv
  <1>5. VerifyBlock(pool)'
    <2>1. ASSUME NEW i \in DOMAIN rs
          PROVE  ExecuteOk(rs[i].tx, SubSeq(rs, 1, i - 1))'
      <3>1. ExecuteOk(rs[i].tx, SubSeq(rs, 1, i - 1))
        BY <1>2, <1>4 DEF VerifyBlock
      <3>2. PICK ti, ri : ti = rs[i].tx /\ ri = SubSeq(rs, 1, i - 1)
        OBVIOUS
      <3>3. ExecuteOk(ti, ri)' <=> ExecuteOk(ti, ri)
        BY <1>1, SameVerdict
      <3> QED
        BY <3>1, <3>2, <3>3
    <2> QED
      BY <1>1, <1>2, <2>1 DEF VerifyBlock
  <1>6. /\ SoundIndex(accounts', supply', owner') /\ chain' \in Seq(Seq(Receipts))
        /\ aborted' \in BOOLEAN
        /\ (pool \in Seq(Receipts) /\ Len(pool) <= MaxPool)'
        /\ (Rewards(pool) >= 0 /\ Minted(pool) >= 0)'
    BY <1>1, <1>4
  <1>7. /\ (Left(pool).ok)' => SettledInv(pool)'
        /\ (~Left(pool).ok)' => BadMints(pool)'
    BY <1>2, <1>3, <1>4
  <1> QED
    BY <1>3, <1>4, <1>5, <1>6, <1>7 DEF LedgerInv

\* One step per action.
LEMMA NextKeeps ==
  ASSUME LedgerInv, [Next]_vars
  PROVE  LedgerInv'
  <1>0. aborted \in BOOLEAN
    BY DEF LedgerInv
  <1>1. ASSUME NEW tx \in Txs, Push(tx) PROVE LedgerInv'
    BY <1>1, PushKeeps
  <1>2. FreshInv' => LedgerInv'
    BY FreshHolds, PTL
  <1>3. ASSUME Abort PROVE FreshInv'
    <2>1. /\ UNCHANGED <<accounts, supply, owner, chain>> /\ pool' = <<>> /\ aborted' \in BOOLEAN
      BY <1>3 DEF Abort
    <2> QED
      BY <2>1, PoolLost
  <1>4. ASSUME NEW tx \in Txs, PushPanics(tx) PROVE LedgerInv'
    BY <1>2, <1>3, <1>4 DEF PushPanics
  <1>5. ASSUME Produce PROVE LedgerInv'
    BY <1>2, <1>5, ProduceFresh
  <1>6. ASSUME ProducePanics PROVE LedgerInv'
    BY <1>2, <1>3, <1>6 DEF ProducePanics
  <1>7. ASSUME Restart PROVE LedgerInv'
    <2>1. /\ UNCHANGED <<accounts, supply, owner, chain>> /\ pool' = <<>> /\ aborted' \in BOOLEAN
      BY <1>0, <1>7 DEF Restart
    <2> QED
      BY <1>2, <2>1, PoolLost
  <1>8. ASSUME UNCHANGED vars PROVE LedgerInv'
    BY <1>8, UnchangedKeeps
  <1> QED
    BY <1>1, <1>4, <1>5, <1>6, <1>7, <1>8 DEF Next

-----------------------------------------------------------------------------
(* Theorems.                                                               *)

\* The inductive invariant holds for every set of transactions and every size
\* of pool and chain: push_tx, produce and a restart keep the index sound, the
\* pool executable, and what get_account shows below what index_block leaves.
THEOREM LedgerInvariant == Spec => []LedgerInv
  <1>1. Init => LedgerInv
    BY InitFresh, FreshHolds
  <1>2. LedgerInv /\ [Next]_vars => LedgerInv'
    BY NextKeeps
  <1> QED
    BY <1>1, <1>2, PTL DEF Spec

\* No balance of the index is negative or overflows, and the supply neither:
\* a debit is checked in execute_tx against the overlay of the pool only, and
\* index_block still finds the coins.
THEOREM LedgerTypes == Spec => []TypeOK
  <1>1. LedgerInv => TypeOK
    <2> SUFFICES ASSUME LedgerInv PROVE TypeOK
      OBVIOUS
    <2>1. /\ SoundIndex(accounts, supply, owner) /\ Len(pool) <= MaxPool /\ aborted \in BOOLEAN
      BY DEF LedgerInv
    <2>2. /\ supply \in 0 .. MAX_AMOUNT /\ owner \in Existing
      BY <2>1 DEF SoundIndex, Existing
    <2>3. ASSUME NEW id \in Existing
          PROVE  /\ accounts[id].balance \in 0 .. MAX_AMOUNT
                 /\ accounts[id].destroyed \in BOOLEAN
      <3>1. id \in Ids /\ accounts[id] # None /\ accounts[id] \in MaybeAccount
        BY <2>1, BatchType DEF Existing
      <3>2. accounts[id].balance \in 0 .. MAX_AMOUNT
        BY <2>1, <3>1 DEF SoundIndex, BalanceOf
      <3>3. accounts[id] \in Account
        BY <3>1 DEF MaybeAccount
      <3>4. accounts[id].destroyed \in BOOLEAN
        BY <3>3 DEF Account
      <3> QED
        BY <3>2, <3>4
    <2> QED
      BY <2>1, <2>2, <2>3 DEF TypeOK
  <1> QED
    BY <1>1, LedgerInvariant, PTL

\* Coins are neither made nor lost: the balances of the index always add up to
\* the token supply, whatever fees, rewards, partial transfers and destroyed
\* accounts index_block has settled.
THEOREM CoinsConserved == Spec => []Conservation
  <1>1. LedgerInv => Conservation
    BY DEF LedgerInv, SoundIndex, Conservation
  <1> QED
    BY <1>1, LedgerInvariant, PTL

\* Permissions that Permissions::is_valid refuses come only from an update that
\* brought a script along.
THEOREM PermissionsStayValid == Spec => []PermissionsValid
  <1>1. LedgerInv => PermissionsValid
    <2> SUFFICES ASSUME LedgerInv, NEW id \in Existing
                 PROVE  \/ IsValid(accounts[id].perms)
                        \/ \E i \in DOMAIN chain :
                              GivenUnchecked(id, accounts[id].perms, chain[i])
      BY DEF PermissionsValid
    <2>1. id \in Ids /\ accounts[id] # None
      BY DEF Existing
    <2>2. PermsInv(id, accounts[id], <<>>)
      BY <2>1 DEF LedgerInv
    <2>3. ~GivenUnchecked(id, accounts[id].perms, <<>>)
      BY DEF GivenUnchecked
    <2> QED
      BY <2>1, <2>2, <2>3 DEF PermsInv
  <1> QED
    BY <1>1, LedgerInvariant, PTL

\* get_account never promises more than index_block keeps: whatever the pool
\* holds, a block that can be indexed leaves every account with at least the
\* balance that was shown, and with the destruction, script and permissions
\* that were shown.
THEOREM OverlayIsSafe == Spec => []OverlayNeverOverstates
  <1>1. LedgerInv => OverlayNeverOverstates
    <2> SUFFICES ASSUME LedgerInv, Settled.ok, NEW id \in Existing,
                        GetAccount(id, pool) # None
                 PROVE  /\ GetAccount(id, pool).balance <= Settled.accounts[id].balance
                        /\ GetAccount(id, pool).destroyed = Settled.accounts[id].destroyed
                        /\ ~UpdatedElsewhere(id, pool) =>
                              /\ GetAccount(id, pool).script = Settled.accounts[id].script
                              /\ GetAccount(id, pool).perms = Settled.accounts[id].perms
      BY DEF OverlayNeverOverstates
    <2> DEFINE s == GetAccount(id, pool)
               l == Left(pool).accounts[id]
               c == Settled.accounts[id]
    <2>1. id \in Ids /\ accounts[id] # None
      BY DEF Existing
    <2>2. Settles(pool)
      BY ProducibleSettles DEF Settled
    <2>3. /\ l # None /\ s.balance \in Int /\ l.balance \in Int /\ s.balance <= l.balance
          /\ s.destroyed = l.destroyed
          /\ ~UpdatedElsewhere(id, pool) => s.script = l.script /\ s.perms = l.perms
      BY <2>1, <2>2, SeenFacts
    <2>4. /\ c.destroyed = l.destroyed /\ c.perms = l.perms /\ c.script = l.script
          /\ l.balance <= c.balance /\ c # None /\ c \in MaybeAccount
      <3>1. Settled \in Batches
        BY <2>2, BlockIndexed DEF Settled
      <3> QED
        BY <2>1, <2>2, <2>3, <3>1, BlockIndexed, BatchFields DEF Settled
    <2>5. c.balance \in Int
      BY <2>4, AccountFields DEF MaybeAccount
    <2> HIDE DEF s, l, c
    <2>6. s.balance <= c.balance
      BY <2>3, <2>4, <2>5
    <2> QED
      BY <2>3, <2>4, <2>6 DEF s, l, c
  <1> QED
    BY <1>1, LedgerInvariant, PTL

\* The minter and push_tx panic over the owner's own mints only: verify_block
\* accepts again what the pool has accepted, and no unwrap of index_block meets
\* a missing account or an overflow.
THEOREM PanicsNeedBadMints == Spec => []OnlyMintsPanic
  <1>1. LedgerInv => OnlyMintsPanic
    <2> SUFFICES ASSUME LedgerInv, ~BadMints(pool)
                 PROVE  Producible(pool) /\ \A tx \in Txs : ~ExecutePanics(tx, pool)
      BY DEF OnlyMintsPanic
    <2>1. Settles(pool) /\ VerifyBlock(pool)
      BY DEF LedgerInv, Settles
    <2>2. IndexBlock(Batch, pool).ok
      BY <2>1, BlockIndexed
    <2>3. GetAccount(owner, pool) # None
      <3>1. owner \in Ids /\ accounts[owner] # None
        BY <2>1 DEF Settles, SoundIndex
      <3> QED
        BY <2>1, <3>1, SeenFacts
    <2> QED
      BY <2>1, <2>2, <2>3 DEF Producible, ExecutePanics
  <1> QED
    BY <1>1, LedgerInvariant, PTL

\* What a block does to an account of the index.
LEMMA ProducedAccount ==
  ASSUME LedgerInv, Produce, NEW id \in Ids
  PROVE  /\ (\A i \in DOMAIN pool : id \notin Names(pool[i])) /\ id # owner' =>
               accounts'[id] = accounts[id]
         /\ accounts[id] # None =>
               /\ accounts[id].destroyed => accounts'[id].destroyed
               /\ accounts'[id].destroyed /\ id # owner' /\ ~MintedTo(id, pool) =>
                     accounts'[id].balance <=
                         IF accounts[id].destroyed THEN accounts[id].balance ELSE 0
  <1> DEFINE l == Left(pool).accounts[id]
             c == IndexBlock(Batch, pool)
  <1>1. /\ IndexBlock(Batch, pool).ok /\ accounts' = c.accounts /\ owner' = c.owner
    BY DEF Produce, Producible
  <1>2. Settles(pool)
    BY <1>1, ProducibleSettles
  <1>3. Agree(id, accounts[id], GetAccount(id, pool), l, pool)
    BY <1>2, SettledFacts
  <1>4. /\ id # c.owner => c.accounts[id] = l
        /\ l # None => c.accounts[id].destroyed = l.destroyed
    BY <1>2, BlockIndexed
  <1> HIDE DEF l, c
  <1>5. (\A i \in DOMAIN pool : id \notin Names(pool[i])) => l = accounts[id]
    BY <1>3 DEF Agree
  <1>6. accounts[id] # None =>
           /\ l # None
           /\ accounts[id].destroyed => l.destroyed
           /\ l.destroyed /\ ~MintedTo(id, pool) =>
                 l.balance <= IF accounts[id].destroyed THEN accounts[id].balance ELSE 0
    BY <1>3 DEF Agree
  <1> QED
    BY <1>1, <1>4, <1>5, <1>6

\* A step that is not Produce leaves the index and the chain alone.
LEMMA OnlyProduceWrites ==
  ASSUME [Next]_vars, ~Produce
  PROVE  accounts' = accounts /\ chain' = chain
  BY DEF Next, vars, Push, PushPanics, ProducePanics, Restart, Abort

\* No block brings a destroyed account back or coins to it, save mints and an
\* owner's rewards: the receiver is checked against the pool, so a destruction
\* earlier in the same block counts.
THEOREM DestroyedStaysEmpty == Spec => DestroyedReceivesNothing
  <1> DEFINE A == \A id \in Existing : accounts[id].destroyed \/ accounts'[id].destroyed =>
                     LET left == IF accounts[id].destroyed THEN accounts[id].balance ELSE 0
                     IN  /\ accounts'[id].destroyed
                         /\ accounts'[id].balance > left =>
                               id = owner' \/ MintedTo(id, pool)
  <1>1. LedgerInv /\ LedgerInv' /\ [Next]_vars => A
    <2> SUFFICES ASSUME LedgerInv, LedgerInv', [Next]_vars, NEW id \in Existing,
                        accounts[id].destroyed \/ accounts'[id].destroyed
                 PROVE  LET left == IF accounts[id].destroyed THEN accounts[id].balance ELSE 0
                        IN  /\ accounts'[id].destroyed
                            /\ accounts'[id].balance > left =>
                                  id = owner' \/ MintedTo(id, pool)
      OBVIOUS
    <2>1. id \in Ids /\ accounts[id] # None
      BY DEF Existing
    <2>2. accounts[id].balance \in Int
      BY <2>1, MaxNat DEF LedgerInv, SoundIndex, BalanceOf
    <2>3. CASE Produce
      <3>1. /\ accounts[id].destroyed => accounts'[id].destroyed
            /\ accounts'[id].destroyed /\ id # owner' /\ ~MintedTo(id, pool) =>
                  accounts'[id].balance <=
                      IF accounts[id].destroyed THEN accounts[id].balance ELSE 0
        BY <2>1, <2>3, ProducedAccount
      <3>2. accounts'[id] # None => accounts'[id].balance \in Int
        BY <2>1, MaxNat DEF LedgerInv, SoundIndex, BalanceOf
      <3>3. accounts'[id] # None
        <4>1. IndexBlock(Batch, pool).ok /\ accounts' = IndexBlock(Batch, pool).accounts
          BY <2>3 DEF Produce, Producible
        <4>2. Settles(pool)
          BY <4>1, ProducibleSettles
        <4> QED
          BY <2>1, <4>1, <4>2, SeenFacts, BlockIndexed
      <3> QED
        BY <2>2, <3>1, <3>2, <3>3
    <2>4. CASE ~Produce
      <3>1. accounts' = accounts
        BY <2>4, OnlyProduceWrites
      <3> QED
        BY <2>2, <3>1
    <2> QED
      BY <2>3, <2>4
  <1>2. Spec => [][Next]_vars
    BY PTL DEF Spec
  <1>3. [][A]_vars => DestroyedReceivesNothing
    BY PTL DEF DestroyedReceivesNothing
  <1> HIDE DEF A
  <1> QED
    BY <1>1, <1>2, <1>3, LedgerInvariant, PTL

\* A client to whom get_filtered_block shows a bare header has missed no change
\* of an account in its filter, rewards of the owner's wallet apart.
THEOREM HeaderIsEnough == Spec => HeaderHidesNothing
  <1> DEFINE A == \A filter \in SUBSET Ids :
                     Len(chain') > Len(chain) /\ ~HasMatch(filter, chain'[Len(chain')]) =>
                         \A id \in filter \ {owner'} : accounts'[id] = accounts[id]
  <1>1. LedgerInv /\ [Next]_vars => A
    <2> SUFFICES ASSUME LedgerInv, [Next]_vars, NEW filter \in SUBSET Ids,
                        Len(chain') > Len(chain), ~HasMatch(filter, chain'[Len(chain')]),
                        NEW id \in filter \ {owner'}
                 PROVE  accounts'[id] = accounts[id]
      OBVIOUS
    <2>1. CASE Produce
      <3>1. chain'[Len(chain')] = pool
        BY <2>1 DEF LedgerInv, Produce
      <3>2. \A i \in DOMAIN pool : id \notin Names(pool[i])
        BY <3>1 DEF HasMatch
      <3> QED
        BY <2>1, <3>2, ProducedAccount
    <2>2. CASE ~Produce
      BY <2>2, OnlyProduceWrites
    <2> QED
      BY <2>1, <2>2
  <1>2. Spec => [][Next]_vars
    BY PTL DEF Spec
  <1>3. [][A]_vars => HeaderHidesNothing
    BY PTL DEF HeaderHidesNothing
  <1> HIDE DEF A
  <1> QED
    BY <1>1, <1>2, <1>3, LedgerInvariant, PTL

\* The fee of get_account_fee grows with the receipts of the pool and of exactly
\* the blocks that no quiet window of FEE_RESET_WINDOW blocks cuts off, for every
\* chain and every window.
THEOREM FeesCountLinked == Spec => []FeeCountsLinkedBlocks
  <1>1. LedgerInv => FeeCountsLinkedBlocks
    <2> SUFFICES ASSUME LedgerInv, NEW id \in Existing
                 PROVE  FeeCount(id, pool) = LinkedCount(id, 1 + Matches(id, pool))
      BY DEF FeeCountsLinkedBlocks
    <2>1. chain \in Seq(Seq(Receipts)) /\ pool \in Seq(Receipts)
      BY DEF LedgerInv
    <2> DEFINE b == 1 + Matches(id, pool)
    <2>2. b \in Nat
      BY <2>1, MatchesNat
    <2>3. FeeCount(id, pool) = ScanBlocks(id, Start(b), Reverse(chain)).count
      BY DEF FeeCount, Start
    <2> HIDE DEF b
    <2> QED
      BY <2>1, <2>2, <2>3, ScanCounts DEF b
  <1> QED
    BY <1>1, LedgerInvariant, PTL

=============================================================================
