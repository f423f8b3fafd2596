---------------------------- MODULE ScriptEngine ----------------------------
(***************************************************************************)
(* The interpreter of account scripts: call_fn of script/engine.rs with    *)
(* its stack (script/stack.rs), the markers that steer IF, ELSE and ENDIF, *)
(* and the log of transfers a run produces.                                *)
(*                                                                         *)
(* Scripts have no backward jump, so a script is the stream of operations  *)
(* the interpreter reads: each step reads the next operation and the model *)
(* chooses which one it is.  Bytes are left out; an operation that is cut  *)
(* short or unknown is a choice of the stream.  The stream is the called   *)
(* function's text and, when a skip runs over the definition of the next   *)
(* function, that function's text behind it.  The chain does not change    *)
(* while a script runs: the accounts are constants.                        *)
(***************************************************************************)
EXTENDS Integers, Sequences, SequencesExt

CONSTANTS
    Accounts,           \* the account ids a script can name
    From,               \* the account a transfer transaction spends from
    Found,              \* Found[a]: "live", "destroyed" or "none" (get_account)
    Verified,           \* Verified[a]: what the permissions of a say of the signatures
    HeadTime,           \* timestamp of the head of the chain
    Totals,             \* the amounts a transfer transaction may move
    None,               \* Rust's None
    MAX_AMOUNT,         \* i64::MAX
    UNIT,               \* 10 ^ MAX_PRECISION
    MAX_FRAME_STACK,
    PushedAmounts,      \* the amounts a script pushes
    Times,              \* the times a script compares with
    Counts,             \* thresholds and account counts of OpCheckMultiPerms
    ArgLists,           \* the argument lists a transaction brings, as frames
    NestedThen,         \* environment: THEN parts may hold an IF and have an ELSE
    MaxOps              \* bound on the operations read

ASSUME EngineAssumption ==
    /\ From \in Accounts /\ Found \in [Accounts -> {"live", "destroyed", "none"}]
    /\ Verified \in [Accounts ->
            {"Ok", "InsufficientThreshold", "InvalidSig", "NoMatchingSigs"}]
    /\ None \notin Int
    /\ MAX_AMOUNT \in Nat /\ UNIT \in Nat \ {0} /\ MAX_FRAME_STACK \in Nat \ {0}
    /\ Totals \subseteq 0 .. MAX_AMOUNT /\ HeadTime \in Nat /\ Times \subseteq Nat
    /\ PushedAmounts \subseteq -MAX_AMOUNT - 1 .. MAX_AMOUNT
    /\ Counts \subseteq Nat /\ MaxOps \in Nat /\ NestedThen \in BOOLEAN

Bool(b)   == [tag |-> "Bool", v |-> b]
Account(a) == [tag |-> "AccountId", v |-> a]
Amount(n) == [tag |-> "Asset", v |-> n]

\* OpFrame, as far as frames reach the stack.
Frame == [tag : {"Bool"}, v : BOOLEAN] \cup [tag : {"AccountId"}, v : Accounts]
         \cup [tag : {"Asset"}, v : Int]

ASSUME ArgAssumption == ArgLists \subseteq Seq(Frame)

Transfer(to, amount) == [entry |-> "Transfer", to |-> to, amount |-> amount]
Destroy(to)          == [entry |-> "Destroy", to |-> to]

LogEntry == [entry : {"Transfer"}, to : Accounts, amount : Int]
            \cup [entry : {"Destroy"}, to : Accounts]

EvalErrKind ==
    {"ScriptRetFalse", "Aborted", "UnexpectedEOF", "HeaderReadErr",
     "InvalidEntryPoint", "UnknownOp", "UnknownFn", "UnknownArgType",
     "ArgDeserialization", "InvalidItemOnStack", "StackOverflow",
     "StackUnderflow", "Arithmetic", "InvalidAmount", "AccountNotFound"}

VARIABLES
    mode,           \* "start", "run", "skip", "ok", "panic" or the error returned
    pos,            \* operations read so far
    stack,          \* the frames, top last
    if_marker, ignore_else,
    req_if_marker,  \* the level at which consume_op_until stops
    log,
    total_amt, remaining_amt,
    is_transfer,    \* the transaction is a TransferTx
    sent,           \* history: what the transfers in the log add up to
    blocks,         \* history: the open IF blocks by the text read, innermost last
    wellFormed,     \* history: every ELSE and ENDIF so far closes its own part
    crossed         \* history: the definition of another function was read over

machine == <<stack, if_marker, ignore_else, req_if_marker, log, remaining_amt, sent>>
tx      == <<total_amt, is_transfer>>
history == <<blocks, wellFormed, crossed>>
vars    == <<mode, pos, machine, tx, history>>

Init ==
    /\ mode = "start" /\ pos = 0
    /\ stack = <<>> /\ if_marker = 0 /\ ignore_else = FALSE /\ req_if_marker = 0
    /\ log = <<>> /\ sent = 0
    /\ \/ is_transfer = TRUE /\ total_amt \in Totals
       \/ is_transfer = FALSE /\ total_amt = 0
    /\ remaining_amt = total_amt
    /\ blocks = <<>> /\ wellFormed = TRUE /\ crossed = FALSE

-----------------------------------------------------------------------------
(* Stack, arithmetic and permissions.                                      *)

Top(i) == stack[Len(stack) + 1 - i].v

Popped(n) == SubSeq(stack, 1, Len(stack) - n)

\* The frames on top have these tags, so that popping them one by one succeeds.
Pops(tags) ==
    /\ Len(tags) <= Len(stack)
    /\ \A i \in 1 .. Len(tags) : stack[Len(stack) + 1 - i].tag = tags[i]

\* The error of the first pop that fails.
PopErr(tags) ==
    IF \E i \in 1 .. Len(tags) : /\ i <= Len(stack)
                                 /\ stack[Len(stack) + 1 - i].tag # tags[i]
    THEN "InvalidItemOnStack"
    ELSE "StackUnderflow"

InRange(n) == -MAX_AMOUNT - 1 <= n /\ n <= MAX_AMOUNT

Abs(n) == IF n < 0 THEN -n ELSE n

\* Integer division of Rust: towards zero.
Quotient(a, b) ==
    LET q == Abs(a) \div Abs(b) IN IF (a < 0) = (b < 0) THEN q ELSE -q

\* `as i64`: the low bits.
Wrapped(n) == ((n + MAX_AMOUNT + 1) % (2 * (MAX_AMOUNT + 1))) - MAX_AMOUNT - 1

checked_add(a, b) == IF InRange(a + b) THEN a + b ELSE None
checked_sub(a, b) == IF InRange(a - b) THEN a - b ELSE None

\* The product is checked against i64::MAX only; below i64::MIN it wraps.
checked_mul(a, b) ==
    LET p == Quotient(a * b, UNIT)
    IN IF p > MAX_AMOUNT THEN None ELSE Wrapped(p)

checked_div(a, b) ==
    IF b = 0 \/ ~InRange(a * UNIT) \/ ~InRange(Quotient(a * UNIT, b))
    THEN None
    ELSE Quotient(a * UNIT, b)

Arithmetic(op, a, b) ==
    CASE op = "OpAdd" -> checked_add(a, b)
      [] op = "OpSub" -> checked_sub(a, b)
      [] op = "OpMul" -> checked_mul(a, b)
      [] op = "OpDiv" -> checked_div(a, b)

\* check_acc_perms stops at the first account it cannot find and at the first
\* one whose permissions are signed for but not met.
Stops(a) == Found[a] = "none" \/ Verified[a] \in {"InsufficientThreshold", "InvalidSig"}

check_acc_perms(threshold, accs) ==
    LET stops == {i \in DOMAIN accs : Stops(accs[i])}
        first == CHOOSE i \in stops : \A j \in stops : i <= j
    IN CASE threshold = 0 -> "true"
         [] threshold > Len(accs) -> "false"
         [] 0 < threshold /\ threshold <= Len(accs) /\ stops # {} ->
                IF Found[accs[first]] = "none" THEN "AccountNotFound" ELSE "false"
         [] 0 < threshold /\ threshold <= Len(accs) /\ stops = {} ->
                IF Cardinality({i \in DOMAIN accs : Verified[accs[i]] = "Ok"})
                        >= threshold
                THEN "true" ELSE "false"

-----------------------------------------------------------------------------
(* What every operation does besides its own effect.                       *)

\* consume_op hands over the next operation.
Read == mode = "run" /\ pos < MaxOps /\ pos' = pos + 1 /\ UNCHANGED <<tx, history>>

Fail(err) == mode' = err /\ UNCHANGED machine

\* The stack becomes s and the loop goes on.
Continue(s) ==
    /\ stack' = s
    /\ UNCHANGED <<mode, if_marker, ignore_else, req_if_marker, log, remaining_amt, sent>>

\* Mutant: one frame too many fits.
PushOneMore(s, frame) ==
    IF Len(s) <= MAX_FRAME_STACK THEN Continue(Append(s, frame)) ELSE Fail("StackOverflow")

Push(s, frame) ==
    IF Len(s) < MAX_FRAME_STACK THEN Continue(Append(s, frame)) ELSE Fail("StackOverflow")

\* Mutant: a destruction does not redirect what is left over.
LeftoverToSender(lg) == Transfer(From, remaining_amt)

\* What is left over goes to the account a destruction names, else to the sender.
Leftover(lg) ==
    IF lg # <<>> /\ lg[Len(lg)].entry = "Destroy"
    THEN Transfer(lg[Len(lg)].to, remaining_amt)
    ELSE Transfer(From, remaining_amt)

\* Mutant: the remaining amount is spent and not logged.
SettleWithoutLog(lg) ==
    /\ log' = lg /\ sent' = sent + remaining_amt /\ remaining_amt' = 0

\* The script returns true: settle the remaining amount.
Settle(lg) ==
    IF remaining_amt > 0
    THEN /\ log' = Append(lg, Leftover(lg))
         /\ sent' = sent + remaining_amt
         /\ remaining_amt' = 0
    ELSE log' = lg /\ UNCHANGED <<sent, remaining_amt>>

\* From the end of the loop to the end of call_fn, with stack s and log lg.
Finish(s, marker, lg) ==
    \/ /\ marker > 0
       /\ Fail("UnexpectedEOF")
    \/ /\ marker <= 0 /\ s = <<>>
       /\ Fail("StackUnderflow")
    \/ /\ marker <= 0 /\ s # <<>> /\ s[Len(s)].tag # "Bool"
       /\ Fail("InvalidItemOnStack")
    \/ /\ marker <= 0 /\ s # <<>> /\ s[Len(s)] = Bool(FALSE)
       /\ Fail("ScriptRetFalse")
    \/ /\ marker <= 0 /\ s # <<>> /\ s[Len(s)] = Bool(TRUE)
       /\ IF remaining_amt > 0 /\ ~is_transfer
          THEN Fail("InvalidAmount")
          ELSE /\ mode' = "ok" /\ Settle(lg)
               /\ stack' = SubSeq(s, 1, Len(s) - 1) /\ if_marker' = marker
               /\ UNCHANGED <<ignore_else, req_if_marker>>

-----------------------------------------------------------------------------
(* The entry of call_fn.                                                   *)

\* The header has no readable entry for the function, its pointer leads to
\* something else than a definition, or the arguments do not fit.
EnterFails ==
    /\ mode = "start"
    /\ \E err \in {"HeaderReadErr", "UnknownFn", "InvalidEntryPoint", "UnknownOp",
                   "UnexpectedEOF", "UnknownArgType", "ArgDeserialization"} : Fail(err)
    /\ UNCHANGED <<pos, tx, history>>

\* A pointer beyond the end of the script: consume_op indexes out of bounds.
EnterOutside ==
    /\ mode = "start" /\ mode' = "panic"
    /\ UNCHANGED <<pos, machine, tx, history>>

\* The arguments are pushed in order.
Enter ==
    /\ mode = "start"
    /\ \E args \in ArgLists :
          /\ is_transfer \/ args = <<>>
          /\ \/ /\ Len(args) > MAX_FRAME_STACK
                /\ Fail("StackOverflow")
             \/ /\ Len(args) <= MAX_FRAME_STACK
                /\ mode' = "run" /\ stack' = args
                /\ UNCHANGED <<if_marker, ignore_else, req_if_marker, log, remaining_amt, sent>>
    /\ UNCHANGED <<pos, tx, history>>

-----------------------------------------------------------------------------
(* Pushes, arithmetic and events.                                          *)

PushFrame ==
    /\ Read
    /\ \E frame \in {Bool(b) : b \in BOOLEAN} \cup {Account(a) : a \in Accounts}
                    \cup {Amount(n) : n \in PushedAmounts} : Push(stack, frame)

OpLoad ==
    /\ Read
    /\ \E amt \in {total_amt, remaining_amt} : Push(stack, Amount(amt))

TwoAssets == <<"Asset", "Asset">>

OpArithmetic ==
    /\ Read
    /\ \E op \in {"OpAdd", "OpSub", "OpMul", "OpDiv"} :
          \/ /\ ~Pops(TwoAssets)
             /\ Fail(PopErr(TwoAssets))
          \/ /\ Pops(TwoAssets) /\ Arithmetic(op, Top(2), Top(1)) = None
             /\ Fail("Arithmetic")
          \/ /\ Pops(TwoAssets) /\ Arithmetic(op, Top(2), Top(1)) # None
             /\ Push(Popped(2), Amount(Arithmetic(op, Top(2), Top(1))))

OpNot ==
    /\ Read
    /\ IF Pops(<<"Bool">>)
       THEN Push(Popped(1), Bool(~Top(1)))
       ELSE Fail(PopErr(<<"Bool">>))

Payment == <<"Asset", "AccountId">>

\* Mutant: negative amounts pass.
PayableAnyway(amt) == amt <= remaining_amt

PayableAmount(amt) == 0 <= amt /\ amt <= remaining_amt

OpTransfer ==
    /\ Read
    /\ \/ /\ ~Pops(Payment)
          /\ Fail(PopErr(Payment))
       \/ /\ Pops(Payment) /\ ~PayableAmount(Top(1))
          /\ Fail("InvalidAmount")
       \/ /\ Pops(Payment) /\ PayableAmount(Top(1)) /\ Found[Top(2)] # "live"
          /\ Fail("AccountNotFound")
       \/ /\ Pops(Payment) /\ PayableAmount(Top(1)) /\ Found[Top(2)] = "live"
          /\ remaining_amt' = remaining_amt - Top(1)
          /\ sent' = sent + Top(1)
          /\ log' = Append(log, Transfer(Top(2), Top(1)))
          /\ stack' = Popped(2)
          /\ UNCHANGED <<mode, if_marker, ignore_else, req_if_marker>>

OneAccount == <<"AccountId">>

\* A destruction ends the script and makes it succeed.
OpDestroy ==
    /\ Read
    /\ \/ /\ ~Pops(OneAccount)
          /\ Fail(PopErr(OneAccount))
       \/ /\ Pops(OneAccount) /\ (~is_transfer \/ Top(1) = From)
          /\ Fail("Aborted")
       \/ /\ Pops(OneAccount) /\ is_transfer /\ Top(1) # From /\ Found[Top(1)] # "live"
          /\ Fail("AccountNotFound")
       \/ /\ Pops(OneAccount) /\ is_transfer /\ Top(1) # From /\ Found[Top(1)] = "live"
          /\ Finish(Append(Popped(1), Bool(TRUE)), 0, Append(log, Destroy(Top(1))))

-----------------------------------------------------------------------------
(* Checks.                                                                 *)

\* OpCheckPerms and OpCheckMultiPerms, with and without fast fail.
OpCheckPerms ==
    /\ Read
    /\ \E threshold \in Counts, count \in Counts, fastFail \in BOOLEAN :
          LET tags == [i \in 1 .. count |-> "AccountId"]
              res  == check_acc_perms(threshold, [i \in 1 .. count |-> Top(i)])
          IN \/ /\ ~Pops(tags)
                /\ Fail(PopErr(tags))
             \/ /\ Pops(tags) /\ res = "AccountNotFound"
                /\ Fail("AccountNotFound")
             \/ /\ Pops(tags) /\ res # "AccountNotFound" /\ ~fastFail
                /\ Push(Popped(count), Bool(res = "true"))
             \/ /\ Pops(tags) /\ res = "true" /\ fastFail
                /\ Continue(Popped(count))
             \/ /\ Pops(tags) /\ res = "false" /\ fastFail
                /\ Fail("ScriptRetFalse")

OpCheckTime ==
    /\ Read
    /\ \E time \in Times, fastFail \in BOOLEAN :
          \/ /\ ~fastFail
             /\ Push(stack, Bool(HeadTime >= time))
          \/ /\ fastFail /\ HeadTime >= time
             /\ Continue(stack)
          \/ /\ fastFail /\ HeadTime < time
             /\ Fail("ScriptRetFalse")

-----------------------------------------------------------------------------
(* Branches.                                                               *)

Innermost == blocks[Len(blocks)]

\* By the text of the script: an IF opens a block and is noted in the THEN part
\* it stands in.  `cond` of a block that is skipped over has no meaning.
OpenBlock(cond) ==
    LET outer == IF blocks = <<>> \/ Innermost.inElse
                 THEN blocks
                 ELSE [blocks EXCEPT ![Len(blocks)].nested = TRUE]
    IN /\ blocks' = Append(outer, [cond |-> cond, inElse |-> FALSE, nested |-> FALSE])
       /\ UNCHANGED wellFormed

TurnBlock ==
    IF blocks # <<>> /\ ~Innermost.inElse
    THEN /\ NestedThen \/ ~Innermost.nested
         /\ blocks' = [blocks EXCEPT ![Len(blocks)].inElse = TRUE]
         /\ UNCHANGED wellFormed
    ELSE UNCHANGED blocks /\ wellFormed' = FALSE

CloseBlock ==
    IF blocks # <<>>
    THEN blocks' = SubSeq(blocks, 1, Len(blocks) - 1) /\ UNCHANGED wellFormed
    ELSE UNCHANGED blocks /\ wellFormed' = FALSE

ReadBranch(m) == mode = m /\ pos < MaxOps /\ pos' = pos + 1 /\ UNCHANGED <<tx, crossed>>

\* consume_op_until is entered with the marker at the level to stop at.
SkipFrom(level) == mode' = "skip" /\ req_if_marker' = level

OpIf ==
    /\ ReadBranch("run")
    /\ \/ /\ ~Pops(<<"Bool">>)
          /\ Fail(PopErr(<<"Bool">>)) /\ UNCHANGED history
       \/ /\ Pops(<<"Bool">>)
          /\ if_marker' = if_marker + 1
          /\ ignore_else' = Top(1)
          /\ stack' = Popped(1)
          /\ IF Top(1) THEN UNCHANGED <<mode, req_if_marker>> ELSE SkipFrom(if_marker + 1)
          /\ OpenBlock(Top(1))
          /\ UNCHANGED <<log, remaining_amt, sent>>

OpElse ==
    /\ ReadBranch("run")
    /\ IF ignore_else THEN SkipFrom(if_marker) ELSE UNCHANGED <<mode, req_if_marker>>
    /\ TurnBlock
    /\ UNCHANGED <<stack, if_marker, ignore_else, log, remaining_amt, sent>>

OpEndIf ==
    /\ ReadBranch("run")
    /\ if_marker' = if_marker - 1
    /\ CloseBlock
    /\ UNCHANGED <<mode, stack, ignore_else, req_if_marker, log, remaining_amt, sent>>

\* What consume_op_until reads over.
SkippedIf ==
    /\ ReadBranch("skip")
    /\ if_marker' = if_marker + 1
    /\ OpenBlock(FALSE)
    /\ UNCHANGED <<mode, stack, ignore_else, req_if_marker, log, remaining_amt, sent>>

\* Mutant: the end of an inner block ends the search.
ResumeAnywhere == mode' = "run"

Resume == mode' = IF if_marker = req_if_marker THEN "run" ELSE "skip"

SkippedElse ==
    /\ ReadBranch("skip")
    /\ Resume
    /\ TurnBlock
    /\ UNCHANGED machine

SkippedEndIf ==
    /\ ReadBranch("skip")
    /\ Resume
    /\ if_marker' = if_marker - 1
    /\ CloseBlock
    /\ UNCHANGED <<stack, ignore_else, req_if_marker, log, remaining_amt, sent>>

SkippedOther ==
    /\ ReadBranch("skip")
    /\ UNCHANGED <<mode, machine, blocks, wellFormed>>

\* A definition is read over like anything else: the search goes on, and the
\* run with it, in the function behind it.
SkippedDefine ==
    /\ mode = "skip" /\ pos < MaxOps /\ pos' = pos + 1
    /\ crossed' = TRUE
    /\ UNCHANGED <<mode, machine, tx, blocks, wellFormed>>

-----------------------------------------------------------------------------
(* Ends.                                                                   *)

OpReturn == Read /\ Finish(stack, 0, log)

OpAbort == Read /\ Fail("Aborted")

\* Mutant: open blocks are not looked at.
EndOfFunctionAnywhere ==
    /\ mode = "run" /\ Finish(stack, 0, log)
    /\ UNCHANGED <<pos, tx, history>>

\* The end of the script or the definition of the next function.
EndOfFunction ==
    /\ mode = "run" /\ Finish(stack, if_marker, log)
    /\ UNCHANGED <<pos, tx, history>>

SkippedToEnd ==
    /\ mode = "skip" /\ Fail("UnexpectedEOF")
    /\ UNCHANGED <<pos, tx, history>>

\* The next byte is no operation, or its operands are cut off.
BadOp ==
    /\ mode \in {"run", "skip"}
    /\ \E err \in {"UnknownOp", "UnexpectedEOF", "UnknownArgType"} : Fail(err)
    /\ UNCHANGED <<pos, tx, history>>

Next ==
    \/ EnterFails \/ EnterOutside \/ Enter
    \/ PushFrame \/ OpLoad \/ OpArithmetic \/ OpNot \/ OpTransfer \/ OpDestroy
    \/ OpCheckPerms \/ OpCheckTime
    \/ OpIf \/ OpElse \/ OpEndIf
    \/ SkippedIf \/ SkippedElse \/ SkippedEndIf \/ SkippedOther \/ SkippedDefine
    \/ OpReturn \/ OpAbort \/ EndOfFunction \/ SkippedToEnd \/ BadOp

Spec == Init /\ [][Next]_vars

-----------------------------------------------------------------------------
(* Properties.                                                             *)

Block == [cond : BOOLEAN, inElse : BOOLEAN, nested : BOOLEAN]

\* The types of the interpreter's state; the stack never exceeds
\* MAX_FRAME_STACK (Stack::push).
TypeOK ==
    /\ mode \in {"start", "run", "skip", "ok", "panic"} \cup EvalErrKind
    /\ pos \in 0 .. MaxOps
    /\ stack \in Seq(Frame) /\ Len(stack) <= MAX_FRAME_STACK
    /\ if_marker \in Int /\ ignore_else \in BOOLEAN /\ req_if_marker \in Int
    /\ log \in Seq(LogEntry)
    /\ total_amt \in Nat /\ remaining_amt \in Int /\ sent \in Int
    /\ is_transfer \in BOOLEAN
    /\ blocks \in Seq(Block) /\ wellFormed \in BOOLEAN /\ crossed \in BOOLEAN

\* Whatever a script computes, by any chain of arithmetic, what it has sent and
\* what remains make up the transaction's amount, neither is negative, and a
\* script that succeeds has sent everything.
AmountsAddUp ==
    /\ remaining_amt >= 0 /\ sent >= 0
    /\ sent + remaining_amt = total_amt
    /\ mode = "ok" => remaining_amt = 0

Paid(lg) ==
    FoldLeft(LAMBDA sum, e : IF e.entry = "Transfer" THEN sum + e.amount ELSE sum, 0, lg)

\* The log call_fn returns distributes exactly the transaction's amount, in
\* payments that are not negative, each to a live account or back to the sender.
LogPaysTotal ==
    mode = "ok" =>
        /\ Paid(log) = total_amt
        /\ \A i \in DOMAIN log :
              log[i].entry = "Transfer" =>
                  log[i].amount >= 0 /\ (log[i].to = From \/ Found[log[i].to] = "live")

\* A destruction ends the script: nothing follows it in the log but the
\* remaining funds, and they go to the account it names, never to the sender.
DestroyIsLast ==
    \A i \in DOMAIN log :
        log[i].entry = "Destroy" =>
            /\ mode = "ok" /\ log[i].to # From
            /\ \A j \in i + 1 .. Len(log) :
                  log[j].entry = "Transfer" /\ log[j].to = log[i].to

Taken(b) == b.cond # b.inElse

\* The one pair of markers follows the block structure of the text: an
\* operation is executed exactly if every block it stands in takes the part it
\* stands in, and if_marker counts the open blocks.  It does so across the
\* definitions a skip runs over: what such a run executes of the next function
\* is what stands behind the ELSE or ENDIF it was looking for.
BranchesFollowBlocks ==
    wellFormed /\ mode \in {"run", "skip"} =>
        /\ mode = "run" <=> \A i \in DOMAIN blocks : Taken(blocks[i])
        /\ if_marker = Len(blocks)

\* An IF that nothing ends never lets a run succeed at the end of a function
\* (only OpReturn and OpDestroy may leave a block).  What ends it may stand in a
\* later function: a run leaves the one it was called for, by running over its
\* end, only out of a part that is not taken and that this function leaves open
\* (consume_op_until and the loop of call_fn).
NoIfLeftOpen ==
    [][/\ EndOfFunction /\ mode' = "ok" /\ wellFormed => blocks = <<>>
       /\ crossed' # crossed /\ wellFormed => \E i \in DOMAIN blocks : ~Taken(blocks[i])]_vars
=============================================================================
