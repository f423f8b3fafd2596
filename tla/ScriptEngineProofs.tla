------------------------- MODULE ScriptEngineProofs -------------------------
(***************************************************************************)
(* Proofs about ScriptEngine, for every set of accounts, every amount and  *)
(* width of integers, every stack limit and scripts of any length: the     *)
(* types, that amounts add up, that a destruction ends the script, and     *)
(* that the markers of call_fn follow the blocks of the script.            *)
(***************************************************************************)
EXTENDS ScriptEngine, TLAPS

-----------------------------------------------------------------------------
(* Frames, the stack and arithmetic.                                       *)

\* The state call_fn works on has its types; the part of TypeOK that the
\* operations change.
MachineOK ==
    /\ mode \in {"start", "run", "skip", "ok", "panic"} \cup EvalErrKind
    /\ stack \in Seq(Frame) /\ Len(stack) <= MAX_FRAME_STACK
    /\ if_marker \in Int /\ ignore_else \in BOOLEAN /\ req_if_marker \in Int
    /\ log \in Seq(LogEntry)
    /\ remaining_amt \in Int /\ sent \in Int

LEMMA BoolFrame == \A b \in BOOLEAN : Bool(b) \in Frame
  BY DEF Bool, Frame

LEMMA AccountFrame == \A a \in Accounts : Account(a) \in Frame
  BY DEF Account, Frame

LEMMA AmountFrame == \A n \in Int : Amount(n) \in Frame
  BY DEF Amount, Frame

\* A frame holds what its tag says.
LEMMA FrameValue ==
    ASSUME NEW f \in Frame
    PROVE  /\ f.tag = "Bool" => f.v \in BOOLEAN
           /\ f.tag = "AccountId" => f.v \in Accounts
           /\ f.tag = "Asset" => f.v \in Int
  BY DEF Frame

\* Popping n frames that are there leaves a shorter stack.
LEMMA PoppedType ==
    ASSUME stack \in Seq(Frame), NEW n \in Nat, n <= Len(stack)
    PROVE  Popped(n) \in Seq(Frame) /\ Len(Popped(n)) = Len(stack) - n
  BY DEF Popped

LEMMA AppendFrame ==
    ASSUME NEW s \in Seq(Frame), NEW f \in Frame
    PROVE  Append(s, f) \in Seq(Frame) /\ Len(Append(s, f)) = Len(s) + 1
  OBVIOUS

\* The frames under the tags that Pops has found.
LEMMA TopFrame ==
    ASSUME stack \in Seq(Frame), NEW i \in Nat \ {0}, i <= Len(stack)
    PROVE  /\ stack[Len(stack) + 1 - i].tag = "Bool" => Top(i) \in BOOLEAN
           /\ stack[Len(stack) + 1 - i].tag = "AccountId" => Top(i) \in Accounts
           /\ stack[Len(stack) + 1 - i].tag = "Asset" => Top(i) \in Int
<1>1. Len(stack) + 1 - i \in 1 .. Len(stack)
  OBVIOUS
<1>2. stack[Len(stack) + 1 - i] \in Frame
  BY <1>1
<1>3. QED  BY <1>2, FrameValue DEF Top

LEMMA PopsOne ==
    ASSUME stack \in Seq(Frame), NEW t, Pops(<<t>>)
    PROVE  1 <= Len(stack) /\ stack[Len(stack) + 1 - 1].tag = t
<1>1. 1 \in 1 .. Len(<<t>>) /\ <<t>>[1] = t /\ Len(<<t>>) = 1
  OBVIOUS
<1>2. QED  BY <1>1 DEF Pops

LEMMA PopsTwo ==
    ASSUME stack \in Seq(Frame), NEW t, NEW u, Pops(<<t, u>>)
    PROVE  /\ 2 <= Len(stack)
           /\ stack[Len(stack) + 1 - 1].tag = t
           /\ stack[Len(stack) + 1 - 2].tag = u
<1>1. /\ 1 \in 1 .. Len(<<t, u>>) /\ 2 \in 1 .. Len(<<t, u>>)
      /\ <<t, u>>[1] = t /\ <<t, u>>[2] = u /\ Len(<<t, u>>) = 2
  OBVIOUS
<1>2. QED  BY <1>1 DEF Pops

LEMMA PopErrType == \A tags : PopErr(tags) \in EvalErrKind
  BY DEF PopErr, EvalErrKind

LEMMA QuotientType ==
    ASSUME NEW a \in Int, NEW b \in Int, b # 0
    PROVE  Quotient(a, b) \in Int
<1>1. Abs(a) \in Int /\ Abs(b) \in Nat \ {0}
  BY DEF Abs
<1>2. Abs(a) \div Abs(b) \in Int
  BY <1>1
<1>3. QED  BY <1>2 DEF Quotient

\* The checked operations return an amount or None.
LEMMA ArithmeticType ==
    ASSUME NEW op \in {"OpAdd", "OpSub", "OpMul", "OpDiv"}, NEW a \in Int, NEW b \in Int
    PROVE  Arithmetic(op, a, b) \in Int \cup {None}
<1>1. CASE op = "OpAdd"
  BY <1>1 DEF Arithmetic, checked_add
<1>2. CASE op = "OpSub"
  BY <1>2 DEF Arithmetic, checked_sub
<1>3. CASE op = "OpMul"
  <2>1. a * b \in Int /\ UNIT \in Int /\ UNIT # 0 /\ MAX_AMOUNT \in Nat
    BY EngineAssumption
  <2>2. Quotient(a * b, UNIT) \in Int
    BY <2>1, QuotientType
  <2>3. \A n \in Int : Wrapped(n) \in Int
    BY <2>1 DEF Wrapped
  <2>4. QED  BY <1>3, <2>2, <2>3 DEF Arithmetic, checked_mul
<1>4. CASE op = "OpDiv"
  <2>1. a * UNIT \in Int
    BY EngineAssumption
  <2>2. b # 0 => Quotient(a * UNIT, b) \in Int
    BY <2>1, QuotientType
  <2>3. QED  BY <1>4, <2>2 DEF Arithmetic, checked_div
<1>5. QED  BY <1>1, <1>2, <1>3, <1>4

-----------------------------------------------------------------------------
(* What the common parts of the operations do to the machine.              *)

LEMMA FailType ==
    ASSUME MachineOK, NEW err \in EvalErrKind, Fail(err)
    PROVE  MachineOK'
  BY DEF MachineOK, Fail, machine

LEMMA ContinueType ==
    ASSUME MachineOK, NEW s \in Seq(Frame), Len(s) <= MAX_FRAME_STACK, Continue(s)
    PROVE  MachineOK'
  BY DEF MachineOK, Continue

\* Stack::push keeps the limit.
LEMMA PushType ==
    ASSUME MachineOK, NEW s \in Seq(Frame), NEW f \in Frame, Push(s, f)
    PROVE  MachineOK'
<1>1. CASE Len(s) < MAX_FRAME_STACK
  <2>1. Append(s, f) \in Seq(Frame) /\ Len(Append(s, f)) <= MAX_FRAME_STACK
    BY <1>1, EngineAssumption
  <2>2. Continue(Append(s, f))
    BY <1>1 DEF Push
  <2>3. QED  BY <2>1, <2>2, ContinueType
<1>2. CASE ~(Len(s) < MAX_FRAME_STACK)
  <2>1. Fail("StackOverflow") /\ "StackOverflow" \in EvalErrKind
    BY <1>2 DEF Push, EvalErrKind
  <2>2. QED  BY <2>1, FailType
<1>3. QED  BY <1>1, <1>2

LEMMA TransferEntry ==
    ASSUME NEW to \in Accounts, NEW n \in Int
    PROVE  Transfer(to, n) \in LogEntry
  BY DEF Transfer, LogEntry

LEMMA DestroyEntry ==
    ASSUME NEW to \in Accounts
    PROVE  Destroy(to) \in LogEntry
  BY DEF Destroy, LogEntry

LEMMA LeftoverType ==
    ASSUME MachineOK, NEW lg \in Seq(LogEntry)
    PROVE  Leftover(lg) \in LogEntry
<1>1. \A e \in LogEntry : e.to \in Accounts
  BY DEF LogEntry
<1>2. lg # <<>> => lg[Len(lg)].to \in Accounts
  BY <1>1
<1>3. From \in Accounts /\ remaining_amt \in Int
  BY EngineAssumption DEF MachineOK
<1>4. QED  BY <1>2, <1>3, TransferEntry DEF Leftover

LEMMA SettleType ==
    ASSUME MachineOK, NEW lg \in Seq(LogEntry), Settle(lg)
    PROVE  log' \in Seq(LogEntry) /\ remaining_amt' \in Int /\ sent' \in Int
<1>1. Leftover(lg) \in LogEntry
  BY LeftoverType
<1>2. Append(lg, Leftover(lg)) \in Seq(LogEntry)
  BY <1>1
<1>3. log' \in Seq(LogEntry)
  BY <1>2 DEF Settle
<1>4. remaining_amt' \in Int /\ sent' \in Int
  BY DEF Settle, MachineOK
<1>5. QED  BY <1>3, <1>4

LEMMA FinishType ==
    ASSUME MachineOK, NEW s \in Seq(Frame), Len(s) <= MAX_FRAME_STACK,
           NEW marker \in Int, NEW lg \in Seq(LogEntry), Finish(s, marker, lg)
    PROVE  MachineOK'
<1>1. {"UnexpectedEOF", "StackUnderflow", "InvalidItemOnStack", "ScriptRetFalse",
       "InvalidAmount"} \subseteq EvalErrKind
  BY DEF EvalErrKind
<1>2. CASE \E err \in EvalErrKind : Fail(err)
  BY <1>2, FailType
<1>3. CASE /\ s # <<>> /\ mode' = "ok" /\ Settle(lg)
           /\ stack' = SubSeq(s, 1, Len(s) - 1) /\ if_marker' = marker
           /\ UNCHANGED <<ignore_else, req_if_marker>>
  <2>1. log' \in Seq(LogEntry) /\ remaining_amt' \in Int /\ sent' \in Int
    BY <1>3, SettleType
  <2>2. stack' \in Seq(Frame) /\ Len(stack') <= MAX_FRAME_STACK
    BY <1>3, EngineAssumption
  <2>3. QED  BY <1>3, <2>1, <2>2 DEF MachineOK
<1>4. QED  BY <1>1, <1>2, <1>3 DEF Finish

-----------------------------------------------------------------------------
(* Type correctness.                                                       *)

LEMMA TypeInit == Init => TypeOK
<1>1. SUFFICES ASSUME Init
               PROVE  TypeOK
  OBVIOUS
<1>2. stack \in Seq(Frame) /\ log \in Seq(LogEntry) /\ blocks \in Seq(Block)
  BY <1>1 DEF Init
<1>3. Len(stack) <= MAX_FRAME_STACK
  BY <1>1, EngineAssumption DEF Init
<1>4. total_amt \in Nat /\ remaining_amt \in Int /\ sent \in Int
  <2>1. \A n \in Totals : n \in Nat
    BY EngineAssumption
  <2>2. total_amt \in Totals \/ total_amt = 0
    BY <1>1, Zenon DEF Init
  <2>3. total_amt \in Nat
    BY <2>1, <2>2
  <2>4. remaining_amt = total_amt /\ sent = 0
    BY <1>1, Zenon DEF Init
  <2>5. QED  BY <2>3, <2>4
<1>5. /\ is_transfer \in BOOLEAN /\ ignore_else \in BOOLEAN /\ wellFormed \in BOOLEAN
      /\ crossed \in BOOLEAN
  BY <1>1, Zenon DEF Init
<1>6. pos \in 0 .. MaxOps /\ if_marker \in Int /\ req_if_marker \in Int
  BY <1>1, EngineAssumption DEF Init
<1>7. QED  BY <1>1, <1>2, <1>3, <1>4, <1>5, <1>6 DEF Init, TypeOK

LEMMA MachineType == TypeOK => MachineOK
  BY DEF TypeOK, MachineOK

\* A step that keeps the machine's types and the history keeps TypeOK.
LEMMA TypeFromMachine ==
    ASSUME TypeOK, MachineOK', pos' \in 0 .. MaxOps, UNCHANGED tx,
           blocks' \in Seq(Block), wellFormed' \in BOOLEAN, crossed' \in BOOLEAN
    PROVE  TypeOK'
  BY DEF TypeOK, MachineOK, tx

LEMMA ReadType ==
    ASSUME TypeOK, Read, MachineOK'
    PROVE  TypeOK'
<1>1. pos' \in 0 .. MaxOps
  BY EngineAssumption DEF Read, TypeOK
<1>2. QED  BY <1>1, TypeFromMachine DEF Read, TypeOK, history

LEMMA StayType ==
    ASSUME TypeOK, UNCHANGED <<pos, tx, history>>, MachineOK'
    PROVE  TypeOK'
  BY TypeFromMachine DEF TypeOK, history

LEMMA NestedBlocks ==
    ASSUME blocks \in Seq(Block), blocks # <<>>
    PROVE  /\ [blocks EXCEPT ![Len(blocks)].nested = TRUE] \in Seq(Block)
           /\ [blocks EXCEPT ![Len(blocks)].inElse = TRUE] \in Seq(Block)
<1>1. Len(blocks) \in 1 .. Len(blocks)
  OBVIOUS
<1>2. \A b \in Block : /\ [b EXCEPT !.nested = TRUE] \in Block
                       /\ [b EXCEPT !.inElse = TRUE] \in Block
  BY DEF Block
<1>3. QED  BY <1>1, <1>2

LEMMA OpenBlockType ==
    ASSUME TypeOK, NEW cond \in BOOLEAN, OpenBlock(cond)
    PROVE  blocks' \in Seq(Block) /\ wellFormed' \in BOOLEAN
<1>1. [cond |-> cond, inElse |-> FALSE, nested |-> FALSE] \in Block
  BY DEF Block
<1>2. blocks \in Seq(Block) /\ wellFormed \in BOOLEAN
  BY DEF TypeOK
<1>3. QED  BY <1>1, <1>2, NestedBlocks DEF OpenBlock

LEMMA TurnBlockType ==
    ASSUME TypeOK, TurnBlock
    PROVE  blocks' \in Seq(Block) /\ wellFormed' \in BOOLEAN
<1>1. blocks \in Seq(Block) /\ wellFormed \in BOOLEAN
  BY DEF TypeOK
<1>2. blocks' \in Seq(Block)
  BY <1>1, NestedBlocks, Zenon DEF TurnBlock
<1>3. wellFormed' \in BOOLEAN
  BY <1>1, Zenon DEF TurnBlock
<1>4. QED  BY <1>2, <1>3

LEMMA CloseBlockType ==
    ASSUME TypeOK, CloseBlock
    PROVE  blocks' \in Seq(Block) /\ wellFormed' \in BOOLEAN
<1>1. blocks \in Seq(Block) /\ wellFormed \in BOOLEAN
  BY DEF TypeOK
<1>2. blocks # <<>> => SubSeq(blocks, 1, Len(blocks) - 1) \in Seq(Block)
  BY <1>1
<1>3. blocks' \in Seq(Block)
  BY <1>1, <1>2, Zenon DEF CloseBlock
<1>4. wellFormed' \in BOOLEAN
  BY <1>1, Zenon DEF CloseBlock
<1>5. QED  BY <1>3, <1>4

\* The step of a branch operation that changes nothing but control.
LEMMA BranchType ==
    ASSUME TypeOK, NEW m, ReadBranch(m), MachineOK',
           blocks' \in Seq(Block), wellFormed' \in BOOLEAN
    PROVE  TypeOK'
<1>1. pos' \in 0 .. MaxOps
  BY EngineAssumption DEF ReadBranch, TypeOK
<1>2. crossed' \in BOOLEAN
  BY DEF ReadBranch, TypeOK
<1>3. QED  BY <1>1, <1>2, TypeFromMachine DEF ReadBranch

LEMMA TypeStep == TypeOK /\ [Next]_vars => TypeOK'
<1> SUFFICES ASSUME TypeOK, [Next]_vars
             PROVE  TypeOK'
  OBVIOUS
<1>0. MachineOK /\ stack \in Seq(Frame) /\ Len(stack) <= MAX_FRAME_STACK
  BY MachineType DEF TypeOK
<1>1. CASE EnterFails
  <2>1. MachineOK'
    BY <1>0, <1>1, FailType DEF EnterFails, EvalErrKind
  <2>2. QED  BY <1>1, <2>1, StayType DEF EnterFails
<1>2. CASE EnterOutside
  <2>1. MachineOK'
    BY <1>0, <1>2 DEF EnterOutside, machine, MachineOK
  <2>2. QED  BY <1>2, <2>1, StayType DEF EnterOutside
<1>3. CASE Enter
  <2>1. "StackOverflow" \in EvalErrKind
    BY DEF EvalErrKind
  <2>2. MachineOK'
    BY <1>0, <1>3, <2>1, FailType, ArgAssumption DEF Enter, MachineOK
  <2>3. QED  BY <1>3, <2>2, StayType DEF Enter
<1>4. CASE PushFrame
  <2>1. PICK f \in {Bool(b) : b \in BOOLEAN} \cup {Account(a) : a \in Accounts}
                   \cup {Amount(n) : n \in PushedAmounts} : Push(stack, f)
    BY <1>4 DEF PushFrame
  <2>2. \A n \in PushedAmounts : n \in Int
    BY EngineAssumption
  <2>3. f \in Frame
    BY <2>2, BoolFrame, AccountFrame, AmountFrame
  <2>4. MachineOK'
    BY <1>0, <2>1, <2>3, PushType
  <2>5. QED  BY <1>4, <2>4, ReadType DEF PushFrame
<1>5. CASE OpLoad
  <2>1. PICK amt \in {total_amt, remaining_amt} : Push(stack, Amount(amt))
    BY <1>5 DEF OpLoad
  <2>2. amt \in Int
    BY DEF TypeOK
  <2>3. Amount(amt) \in Frame
    BY <2>2, AmountFrame
  <2>4. MachineOK'
    BY <1>0, <2>1, <2>3, PushType
  <2>5. QED  BY <1>5, <2>4, ReadType DEF OpLoad
<1>6. CASE OpArithmetic
  <2>1. MachineOK'
    <3>1. PICK op \in {"OpAdd", "OpSub", "OpMul", "OpDiv"} :
              \/ Fail(PopErr(TwoAssets))
              \/ Fail("Arithmetic")
              \/ /\ Pops(TwoAssets) /\ Arithmetic(op, Top(2), Top(1)) # None
                 /\ Push(Popped(2), Amount(Arithmetic(op, Top(2), Top(1))))
      BY <1>6, Zenon DEF OpArithmetic
    <3>2. CASE Fail(PopErr(TwoAssets))
      BY <1>0, <3>2, FailType, PopErrType
    <3>3. CASE Fail("Arithmetic")
      <4>1. "Arithmetic" \in EvalErrKind
        BY DEF EvalErrKind
      <4>2. QED  BY <1>0, <3>3, <4>1, FailType
    <3>4. CASE /\ Pops(TwoAssets) /\ Arithmetic(op, Top(2), Top(1)) # None
               /\ Push(Popped(2), Amount(Arithmetic(op, Top(2), Top(1))))
      <4>1. /\ 2 <= Len(stack)
            /\ stack[Len(stack) + 1 - 1].tag = "Asset"
            /\ stack[Len(stack) + 1 - 2].tag = "Asset"
        BY <1>0, <3>4, PopsTwo DEF TwoAssets
      <4>2. Top(1) \in Int /\ Top(2) \in Int
        BY <1>0, <4>1, TopFrame
      <4>3. Arithmetic(op, Top(2), Top(1)) \in Int
        BY <3>4, <4>2, ArithmeticType
      <4>4. Popped(2) \in Seq(Frame)
        BY <1>0, <4>1, PoppedType
      <4>5. Amount(Arithmetic(op, Top(2), Top(1))) \in Frame
        BY <4>3, AmountFrame
      <4>6. QED  BY <1>0, <3>4, <4>4, <4>5, PushType
    <3>5. QED  BY <3>1, <3>2, <3>3, <3>4
  <2>2. QED  BY <1>6, <2>1, ReadType DEF OpArithmetic
<1>7. CASE OpNot
  <2>1. MachineOK'
    <3>1. CASE Pops(<<"Bool">>)
      <4>1. 1 <= Len(stack) /\ stack[Len(stack) + 1 - 1].tag = "Bool"
        BY <1>0, <3>1, PopsOne
      <4>2. Top(1) \in BOOLEAN
        BY <1>0, <4>1, TopFrame
      <4>3. Bool(~Top(1)) \in Frame
        BY <4>2, BoolFrame
      <4>4. Popped(1) \in Seq(Frame)
        BY <1>0, <4>1, PoppedType
      <4>5. Push(Popped(1), Bool(~Top(1)))
        BY <1>7, <3>1, Zenon DEF OpNot
      <4>6. QED  BY <1>0, <4>3, <4>4, <4>5, PushType
    <3>2. CASE ~Pops(<<"Bool">>)
      BY <1>0, <1>7, <3>2, FailType, PopErrType DEF OpNot
    <3>3. QED  BY <3>1, <3>2
  <2>2. QED  BY <1>7, <2>1, ReadType DEF OpNot
<1>8. CASE OpTransfer
  <2>1. MachineOK'
    <3>1. CASE \E err \in EvalErrKind : Fail(err)
      BY <1>0, <3>1, FailType
    <3>2. CASE /\ Pops(Payment)
               /\ remaining_amt' = remaining_amt - Top(1)
               /\ sent' = sent + Top(1)
               /\ log' = Append(log, Transfer(Top(2), Top(1)))
               /\ stack' = Popped(2)
               /\ UNCHANGED <<mode, if_marker, ignore_else, req_if_marker>>
      <4>1. /\ 2 <= Len(stack)
            /\ stack[Len(stack) + 1 - 1].tag = "Asset"
            /\ stack[Len(stack) + 1 - 2].tag = "AccountId"
        BY <1>0, <3>2, PopsTwo DEF Payment
      <4>2. Top(1) \in Int /\ Top(2) \in Accounts
        BY <1>0, <4>1, TopFrame
      <4>3. Transfer(Top(2), Top(1)) \in LogEntry
        BY <4>2, TransferEntry
      <4>4. stack' \in Seq(Frame) /\ Len(stack') <= MAX_FRAME_STACK
        BY <1>0, <3>2, <4>1, PoppedType, EngineAssumption
      <4>5. log' \in Seq(LogEntry)
        BY <1>0, <3>2, <4>3 DEF MachineOK
      <4>6. remaining_amt' \in Int /\ sent' \in Int
        BY <1>0, <3>2, <4>2 DEF MachineOK
      <4>7. QED  BY <1>0, <3>2, <4>4, <4>5, <4>6 DEF MachineOK
    <3>3. /\ "InvalidAmount" \in EvalErrKind /\ "AccountNotFound" \in EvalErrKind
          /\ PopErr(Payment) \in EvalErrKind
      BY PopErrType DEF EvalErrKind
    <3>4. QED  BY <1>8, <3>1, <3>2, <3>3, Zenon DEF OpTransfer
  <2>2. QED  BY <1>8, <2>1, ReadType DEF OpTransfer
<1>9. CASE OpDestroy
  <2>1. MachineOK'
    <3>1. CASE \E err \in EvalErrKind : Fail(err)
      BY <1>0, <3>1, FailType
    <3>2. CASE /\ Pops(OneAccount)
               /\ Finish(Append(Popped(1), Bool(TRUE)), 0, Append(log, Destroy(Top(1))))
      <4>1. 1 <= Len(stack) /\ stack[Len(stack) + 1 - 1].tag = "AccountId"
        BY <1>0, <3>2, PopsOne DEF OneAccount
      <4>2. Top(1) \in Accounts
        BY <1>0, <4>1, TopFrame
      <4>3. Popped(1) \in Seq(Frame) /\ Len(Popped(1)) = Len(stack) - 1
        BY <1>0, <4>1, PoppedType
      <4>4. Bool(TRUE) \in Frame
        BY BoolFrame
      <4>5. /\ Append(Popped(1), Bool(TRUE)) \in Seq(Frame)
            /\ Len(Append(Popped(1), Bool(TRUE))) <= MAX_FRAME_STACK
        <5>1. Append(Popped(1), Bool(TRUE)) \in Seq(Frame)
          BY <4>3, <4>4, AppendFrame, Zenon
        <5>2. Len(Append(Popped(1), Bool(TRUE))) = Len(Popped(1)) + 1
          BY <4>3, <4>4, AppendFrame, Zenon
        <5>3. Len(stack) \in Nat /\ MAX_FRAME_STACK \in Nat
          BY <1>0, EngineAssumption
        <5>4. Len(Popped(1)) + 1 <= MAX_FRAME_STACK
          BY <1>0, <4>3, <5>3
        <5>5. QED  BY <5>1, <5>2, <5>4, Zenon
      <4>6. Append(log, Destroy(Top(1))) \in Seq(LogEntry)
        BY <1>0, <4>2, DestroyEntry DEF MachineOK
      <4>7. 0 \in Int
        OBVIOUS
      <4>8. QED  BY <1>0, <3>2, <4>5, <4>6, <4>7, FinishType, Zenon
    <3>3. /\ "Aborted" \in EvalErrKind /\ "AccountNotFound" \in EvalErrKind
          /\ PopErr(OneAccount) \in EvalErrKind
      BY PopErrType DEF EvalErrKind
    <3>4. QED  BY <1>9, <3>1, <3>2, <3>3, Zenon DEF OpDestroy
  <2>2. QED  BY <1>9, <2>1, ReadType DEF OpDestroy
<1>10. CASE OpCheckPerms
  <2>1. MachineOK'
    <3>1. PICK threshold \in Counts, count \in Counts, fastFail \in BOOLEAN :
              LET tags == [i \in 1 .. count |-> "AccountId"]
                  res  == check_acc_perms(threshold, [i \in 1 .. count |-> Top(i)])
              IN \/ Fail(PopErr(tags))
                 \/ Fail("AccountNotFound")
                 \/ Pops(tags) /\ Push(Popped(count), Bool(res = "true"))
                 \/ Pops(tags) /\ Continue(Popped(count))
                 \/ Fail("ScriptRetFalse")
      BY <1>10, Zenon DEF OpCheckPerms
    <3> DEFINE tags == [i \in 1 .. count |-> "AccountId"]
               res  == check_acc_perms(threshold, [i \in 1 .. count |-> Top(i)])
    <3>2. CASE Fail(PopErr(tags)) \/ Fail("AccountNotFound") \/ Fail("ScriptRetFalse")
      <4>1. /\ "AccountNotFound" \in EvalErrKind /\ "ScriptRetFalse" \in EvalErrKind
            /\ PopErr(tags) \in EvalErrKind
        BY PopErrType DEF EvalErrKind
      <4>2. QED  BY <1>0, <3>2, <4>1, FailType
    <3>3. Pops(tags) => Popped(count) \in Seq(Frame) /\ Len(Popped(count)) <= MAX_FRAME_STACK
      <4>1. count \in Nat /\ MAX_FRAME_STACK \in Nat
        BY EngineAssumption
      <4>2. Len(tags) = count
        BY <4>1
      <4>3. Pops(tags) => count <= Len(stack)
        BY <4>2 DEF Pops
      <4>4. QED  BY <1>0, <4>1, <4>3, PoppedType
    <3>4. Bool(res = "true") \in Frame
      BY BoolFrame
    <3>5. CASE Pops(tags) /\ Push(Popped(count), Bool(res = "true"))
      BY <1>0, <3>3, <3>4, <3>5, PushType
    <3>6. CASE Pops(tags) /\ Continue(Popped(count))
      BY <1>0, <3>3, <3>6, ContinueType
    <3>7. QED  BY <3>1, <3>2, <3>5, <3>6, Zenon
  <2>2. QED  BY <1>10, <2>1, ReadType DEF OpCheckPerms
<1>11. CASE OpCheckTime
  <2>1. MachineOK'
    <3>1. PICK time \in Times : \/ Push(stack, Bool(HeadTime >= time))
                                \/ Continue(stack)
                                \/ Fail("ScriptRetFalse")
      BY <1>11, Zenon DEF OpCheckTime
    <3>2. (HeadTime >= time) \in BOOLEAN
      BY EngineAssumption
    <3>3. Bool(HeadTime >= time) \in Frame
      BY <3>2, BoolFrame, Zenon
    <3>4. "ScriptRetFalse" \in EvalErrKind
      BY DEF EvalErrKind
    <3>5. QED  BY <1>0, <3>1, <3>3, <3>4, PushType, ContinueType, FailType
  <2>2. QED  BY <1>11, <2>1, ReadType DEF OpCheckTime
<1>12. CASE OpIf
  <2>1. CASE Fail(PopErr(<<"Bool">>)) /\ UNCHANGED history
    <3>1. MachineOK'
      BY <1>0, <2>1, FailType, PopErrType
    <3>2. blocks' \in Seq(Block) /\ wellFormed' \in BOOLEAN
      BY <2>1 DEF history, TypeOK
    <3>3. QED  BY <1>12, <3>1, <3>2, BranchType DEF OpIf
  <2>2. CASE Pops(<<"Bool">>)
    <3>1. 1 <= Len(stack) /\ stack[Len(stack) + 1 - 1].tag = "Bool"
      BY <1>0, <2>2, PopsOne
    <3>2. Top(1) \in BOOLEAN
      BY <1>0, <3>1, TopFrame
    <3>3. /\ if_marker' = if_marker + 1 /\ ignore_else' = Top(1) /\ stack' = Popped(1)
          /\ mode' \in {mode, "skip"} /\ req_if_marker' \in {req_if_marker, if_marker + 1}
          /\ OpenBlock(Top(1))
          /\ UNCHANGED <<log, remaining_amt, sent>>
      BY <1>12, <2>2, Zenon DEF OpIf, SkipFrom
    <3>4. stack' \in Seq(Frame) /\ Len(stack') <= MAX_FRAME_STACK
      BY <1>0, <3>1, <3>3, PoppedType, EngineAssumption
    <3>5. ignore_else' \in BOOLEAN
      BY <3>2, <3>3
    <3>6. if_marker' \in Int /\ req_if_marker' \in Int
      BY <1>0, <3>3 DEF MachineOK
    <3>7. MachineOK'
      BY <1>0, <3>3, <3>4, <3>5, <3>6 DEF MachineOK
    <3>8. blocks' \in Seq(Block) /\ wellFormed' \in BOOLEAN
      BY <3>2, <3>3, OpenBlockType
    <3>9. QED  BY <1>12, <3>7, <3>8, BranchType DEF OpIf
  <2>3. QED  BY <1>12, <2>1, <2>2 DEF OpIf
<1>13. CASE OpElse
  <2>1. mode' \in {mode, "skip"} /\ req_if_marker' \in {req_if_marker, if_marker}
    BY <1>13, Zenon DEF OpElse, SkipFrom
  <2>2. MachineOK'
    BY <1>0, <1>13, <2>1 DEF OpElse, MachineOK
  <2>3. QED  BY <1>13, <2>2, TurnBlockType, BranchType DEF OpElse
<1>14. CASE OpEndIf
  <2>1. MachineOK'
    BY <1>0, <1>14 DEF OpEndIf, MachineOK
  <2>2. QED  BY <1>14, <2>1, CloseBlockType, BranchType DEF OpEndIf
<1>15. CASE SkippedIf
  <2>1. MachineOK'
    BY <1>0, <1>15 DEF SkippedIf, MachineOK
  <2>2. QED  BY <1>15, <2>1, OpenBlockType, BranchType DEF SkippedIf
<1>16. CASE SkippedElse
  <2>1. MachineOK'
    BY <1>0, <1>16 DEF SkippedElse, Resume, machine, MachineOK
  <2>2. QED  BY <1>16, <2>1, TurnBlockType, BranchType DEF SkippedElse
<1>17. CASE SkippedEndIf
  <2>1. MachineOK'
    BY <1>0, <1>17 DEF SkippedEndIf, Resume, MachineOK
  <2>2. QED  BY <1>17, <2>1, CloseBlockType, BranchType DEF SkippedEndIf
<1>18. CASE SkippedOther
  <2>1. MachineOK'
    BY <1>0, <1>18 DEF SkippedOther, machine, MachineOK
  <2>2. blocks' \in Seq(Block) /\ wellFormed' \in BOOLEAN
    BY <1>18 DEF SkippedOther, TypeOK
  <2>3. QED  BY <1>18, <2>1, <2>2, BranchType DEF SkippedOther
<1>26. CASE SkippedDefine
  <2>1. MachineOK'
    BY <1>0, <1>26 DEF SkippedDefine, machine, MachineOK
  <2>2. blocks' \in Seq(Block) /\ wellFormed' \in BOOLEAN /\ crossed' \in BOOLEAN
    BY <1>26 DEF SkippedDefine, TypeOK
  <2>3. pos' \in 0 .. MaxOps
    BY <1>26, EngineAssumption DEF SkippedDefine, TypeOK
  <2>4. QED  BY <1>26, <2>1, <2>2, <2>3, TypeFromMachine DEF SkippedDefine
<1>19. CASE OpReturn
  <2>1. MachineOK'
    BY <1>0, <1>19, FinishType DEF OpReturn, MachineOK
  <2>2. QED  BY <1>19, <2>1, ReadType DEF OpReturn
<1>20. CASE OpAbort
  <2>1. "Aborted" \in EvalErrKind
    BY DEF EvalErrKind
  <2>2. MachineOK'
    BY <1>0, <1>20, <2>1, FailType DEF OpAbort
  <2>3. QED  BY <1>20, <2>2, ReadType DEF OpAbort
<1>21. CASE EndOfFunction
  <2>1. MachineOK'
    BY <1>0, <1>21, FinishType DEF EndOfFunction, MachineOK
  <2>2. QED  BY <1>21, <2>1, StayType DEF EndOfFunction
<1>22. CASE SkippedToEnd
  <2>1. "UnexpectedEOF" \in EvalErrKind
    BY DEF EvalErrKind
  <2>2. MachineOK'
    BY <1>0, <1>22, <2>1, FailType DEF SkippedToEnd
  <2>3. QED  BY <1>22, <2>2, StayType DEF SkippedToEnd
<1>23. CASE BadOp
  <2>1. MachineOK'
    BY <1>0, <1>23, FailType DEF BadOp, EvalErrKind
  <2>2. QED  BY <1>23, <2>1, StayType DEF BadOp
<1>24. CASE UNCHANGED vars
  BY <1>24 DEF vars, machine, tx, history, TypeOK
<1>25. QED  BY <1>1, <1>2, <1>3, <1>4, <1>5, <1>6, <1>7, <1>8, <1>9, <1>10, <1>11, <1>12,
               <1>13, <1>14, <1>15, <1>16, <1>17, <1>18, <1>19, <1>20, <1>21, <1>22,
               <1>23, <1>24, <1>26 DEF Next

\* The interpreter's state keeps its types and the stack its limit, in scripts
\* of any length and for any limit (Stack::push).
THEOREM TypeCorrect == Spec => []TypeOK
  BY TypeInit, TypeStep, PTL DEF Spec

-----------------------------------------------------------------------------
(* Three kinds of step.                                                    *)

\* The log and the amounts stay, and the script neither has ended well nor does.
Quiet ==
    /\ UNCHANGED <<log, total_amt, remaining_amt, sent>>
    /\ mode' = mode \/ (mode # "ok" /\ mode' # "ok")

\* OpTransfer logs a payment.
Pays ==
    /\ mode = "run" /\ mode' = mode /\ UNCHANGED total_amt
    /\ Pops(Payment) /\ PayableAmount(Top(1)) /\ Found[Top(2)] = "live"
    /\ remaining_amt' = remaining_amt - Top(1)
    /\ sent' = sent + Top(1)
    /\ log' = Append(log, Transfer(Top(2), Top(1)))

\* The script ends, with a destruction as its last entry or without.
Ends ==
    /\ mode = "run" /\ UNCHANGED total_amt
    /\ \E s, marker, lg :
          /\ Finish(s, marker, lg)
          /\ \/ lg = log
             \/ /\ Pops(OneAccount) /\ Top(1) # From /\ Found[Top(1)] = "live"
                /\ lg = Append(log, Destroy(Top(1)))

LEMMA FailIsQuiet ==
    ASSUME NEW err \in EvalErrKind, Fail(err), mode # "ok", UNCHANGED tx
    PROVE  Quiet
<1>1. err # "ok"
  BY DEF EvalErrKind
<1>2. QED  BY <1>1 DEF Fail, machine, tx, Quiet

LEMMA ContinueIsQuiet ==
    ASSUME NEW s, Continue(s), UNCHANGED tx
    PROVE  Quiet
  BY DEF Continue, tx, Quiet

LEMMA PushIsQuiet ==
    ASSUME NEW s, NEW f, Push(s, f), mode # "ok", UNCHANGED tx
    PROVE  Quiet
<1>1. "StackOverflow" \in EvalErrKind
  BY DEF EvalErrKind
<1>2. QED  BY <1>1, FailIsQuiet, ContinueIsQuiet DEF Push

LEMMA StepKinds == [Next]_vars => Quiet \/ Pays \/ Ends
<1> SUFFICES ASSUME [Next]_vars
             PROVE  Quiet \/ Pays \/ Ends
  OBVIOUS
<1>0. /\ \A tags : PopErr(tags) \in EvalErrKind
      /\ {"Aborted", "UnexpectedEOF", "HeaderReadErr", "InvalidEntryPoint", "UnknownOp",
          "UnknownFn", "UnknownArgType", "ArgDeserialization", "StackOverflow",
          "Arithmetic", "InvalidAmount", "AccountNotFound", "ScriptRetFalse"}
            \subseteq EvalErrKind
  BY PopErrType DEF EvalErrKind
<1>1. CASE EnterFails \/ EnterOutside \/ Enter
  <2>1. CASE EnterFails
    BY <1>0, <2>1, FailIsQuiet DEF EnterFails
  <2>2. CASE EnterOutside
    BY <2>2 DEF EnterOutside, machine, tx, Quiet
  <2>3. CASE Enter
    <3>1. CASE Fail("StackOverflow")
      BY <1>0, <2>3, <3>1, FailIsQuiet DEF Enter
    <3>2. CASE mode' = "run" /\ UNCHANGED <<log, remaining_amt, sent>>
      BY <2>3, <3>2 DEF Enter, tx, Quiet
    <3>3. QED  BY <2>3, <3>1, <3>2 DEF Enter
  <2>4. QED  BY <1>1, <2>1, <2>2, <2>3
<1>2. CASE PushFrame \/ OpLoad
  BY <1>2, PushIsQuiet DEF PushFrame, OpLoad, Read
<1>3. CASE OpArithmetic
  <2>1. mode # "ok" /\ UNCHANGED tx
    BY <1>3 DEF OpArithmetic, Read
  <2>2. \/ \E err \in EvalErrKind : Fail(err)
        \/ \E s, f : Push(s, f)
    BY <1>0, <1>3, Zenon DEF OpArithmetic
  <2>3. QED  BY <2>1, <2>2, FailIsQuiet, PushIsQuiet
<1>4. CASE OpNot
  BY <1>0, <1>4, FailIsQuiet, PushIsQuiet DEF OpNot, Read
<1>5. CASE OpTransfer
  <2>1. mode = "run" /\ UNCHANGED tx
    BY <1>5 DEF OpTransfer, Read
  <2>2. CASE \E err \in EvalErrKind : Fail(err)
    BY <2>1, <2>2, FailIsQuiet
  <2>3. CASE /\ Pops(Payment) /\ PayableAmount(Top(1)) /\ Found[Top(2)] = "live"
             /\ remaining_amt' = remaining_amt - Top(1)
             /\ sent' = sent + Top(1)
             /\ log' = Append(log, Transfer(Top(2), Top(1)))
             /\ UNCHANGED mode
    BY <2>1, <2>3 DEF Pays, tx
  <2>4. QED  BY <1>0, <1>5, <2>2, <2>3, Zenon DEF OpTransfer
<1>6. CASE OpDestroy
  <2>1. mode = "run" /\ UNCHANGED tx
    BY <1>6 DEF OpDestroy, Read
  <2>2. CASE \E err \in EvalErrKind : Fail(err)
    BY <2>1, <2>2, FailIsQuiet
  <2>3. CASE /\ Pops(OneAccount) /\ Top(1) # From /\ Found[Top(1)] = "live"
             /\ Finish(Append(Popped(1), Bool(TRUE)), 0, Append(log, Destroy(Top(1))))
    <3>1. UNCHANGED total_amt
      BY <2>1 DEF tx
    <3>2. QED  BY <2>1, <2>3, <3>1, Zenon DEF Ends
  <2>4. QED  BY <1>0, <1>6, <2>2, <2>3, Zenon DEF OpDestroy
<1>7. CASE OpCheckPerms
  <2>1. mode # "ok" /\ UNCHANGED tx
    BY <1>7 DEF OpCheckPerms, Read
  <2>2. \/ \E err \in EvalErrKind : Fail(err)
        \/ \E s, f : Push(s, f)
        \/ \E s : Continue(s)
    BY <1>0, <1>7, Zenon DEF OpCheckPerms
  <2>3. QED  BY <2>1, <2>2, FailIsQuiet, PushIsQuiet, ContinueIsQuiet
<1>8. CASE OpCheckTime
  <2>1. mode # "ok" /\ UNCHANGED tx
    BY <1>8 DEF OpCheckTime, Read
  <2>2. \/ \E err \in EvalErrKind : Fail(err)
        \/ \E s, f : Push(s, f)
        \/ \E s : Continue(s)
    BY <1>0, <1>8, Zenon DEF OpCheckTime
  <2>3. QED  BY <2>1, <2>2, FailIsQuiet, PushIsQuiet, ContinueIsQuiet
<1>9. CASE OpIf
  <2>1. mode = "run" /\ UNCHANGED tx
    BY <1>9 DEF OpIf, ReadBranch
  <2>2. CASE Fail(PopErr(<<"Bool">>))
    BY <1>0, <2>1, <2>2, FailIsQuiet
  <2>3. CASE Pops(<<"Bool">>)
    <3>1. mode' \in {mode, "skip"} /\ UNCHANGED <<log, remaining_amt, sent>>
      BY <1>9, <2>3, Zenon DEF OpIf, SkipFrom
    <3>2. QED  BY <2>1, <3>1 DEF Quiet, tx
  <2>4. QED  BY <1>9, <2>2, <2>3, Zenon DEF OpIf
<1>10. CASE OpElse
  <2>1. mode' \in {mode, "skip"} /\ mode = "run"
    BY <1>10, Zenon DEF OpElse, SkipFrom, ReadBranch
  <2>2. QED  BY <1>10, <2>1 DEF OpElse, ReadBranch, Quiet, tx
<1>11. CASE OpEndIf \/ SkippedIf \/ SkippedOther \/ SkippedDefine
  BY <1>11 DEF OpEndIf, SkippedIf, SkippedOther, SkippedDefine, ReadBranch, Quiet, tx, machine
<1>12. CASE SkippedElse \/ SkippedEndIf
  BY <1>12 DEF SkippedElse, SkippedEndIf, Resume, ReadBranch, Quiet, tx, machine
<1>13. CASE OpReturn \/ EndOfFunction
  <2>1. mode = "run" /\ UNCHANGED total_amt
    BY <1>13 DEF OpReturn, EndOfFunction, Read, tx
  <2>2. \E s, marker : Finish(s, marker, log)
    BY <1>13, Zenon DEF OpReturn, EndOfFunction
  <2>3. QED  BY <2>1, <2>2, Zenon DEF Ends
<1>14. CASE OpAbort \/ SkippedToEnd
  BY <1>0, <1>14, FailIsQuiet DEF OpAbort, SkippedToEnd, Read
<1>15. CASE BadOp
  BY <1>0, <1>15, FailIsQuiet DEF BadOp
<1>16. CASE UNCHANGED vars
  BY <1>16 DEF vars, machine, tx, Quiet
<1>17. QED  BY <1>1, <1>2, <1>3, <1>4, <1>5, <1>6, <1>7, <1>8, <1>9, <1>10, <1>11, <1>12,
               <1>13, <1>14, <1>15, <1>16 DEF Next

\* A script that ends either fails or settles.
LEMMA FinishCases ==
    ASSUME NEW s, NEW marker, NEW lg, Finish(s, marker, lg)
    PROVE  \/ mode' # "ok" /\ UNCHANGED <<log, remaining_amt, sent>>
           \/ mode' = "ok" /\ Settle(lg)
<1>1. ASSUME NEW err \in EvalErrKind, Fail(err)
      PROVE  mode' # "ok" /\ UNCHANGED <<log, remaining_amt, sent>>
  BY <1>1 DEF Fail, machine, EvalErrKind
<1>2. {"UnexpectedEOF", "StackUnderflow", "InvalidItemOnStack", "ScriptRetFalse",
       "InvalidAmount"} \subseteq EvalErrKind
  BY DEF EvalErrKind
<1>3. QED  BY <1>1, <1>2 DEF Finish

-----------------------------------------------------------------------------
(* Amounts.                                                                *)

LEMMA AmountsInit == Init => AmountsAddUp
<1>1. SUFFICES ASSUME Init
               PROVE  AmountsAddUp
  OBVIOUS
<1>2. total_amt \in Nat
  BY <1>1, TypeInit DEF TypeOK
<1>3. remaining_amt = total_amt /\ sent = 0 /\ mode = "start"
  BY <1>1, Zenon DEF Init
<1>4. QED  BY <1>2, <1>3 DEF AmountsAddUp

LEMMA AmountsStep == TypeOK /\ AmountsAddUp /\ [Next]_vars => AmountsAddUp'
<1> SUFFICES ASSUME TypeOK, AmountsAddUp, [Next]_vars
             PROVE  AmountsAddUp'
  OBVIOUS
<1>0. total_amt \in Nat /\ remaining_amt \in Int /\ sent \in Int /\ stack \in Seq(Frame)
  BY DEF TypeOK
<1>1. CASE Quiet
  BY <1>1 DEF Quiet, AmountsAddUp
<1>2. CASE Pays
  <2>1. Top(1) \in Int
    <3>1. 2 <= Len(stack) /\ stack[Len(stack) + 1 - 1].tag = "Asset"
      BY <1>0, <1>2, PopsTwo DEF Pays, Payment
    <3>2. QED  BY <1>0, <3>1, TopFrame
  <2>2. 0 <= Top(1) /\ Top(1) <= remaining_amt
    BY <1>2 DEF Pays, PayableAmount
  <2>3. /\ remaining_amt' = remaining_amt - Top(1) /\ sent' = sent + Top(1)
        /\ total_amt' = total_amt /\ mode' # "ok"
    BY <1>2 DEF Pays
  <2>4. remaining_amt' >= 0 /\ sent' >= 0
    <3>1. remaining_amt - Top(1) >= 0 /\ sent + Top(1) >= 0
      BY <1>0, <2>1, <2>2 DEF AmountsAddUp
    <3>2. QED  BY <2>3, <3>1
  <2>5. sent' + remaining_amt' = total_amt'
    BY <1>0, <2>1, <2>3, SMTT(30) DEF AmountsAddUp
  <2>6. QED  BY <2>3, <2>4, <2>5 DEF AmountsAddUp
<1>3. CASE Ends
  <2>1. PICK s, marker, lg : Finish(s, marker, lg)
    BY <1>3 DEF Ends
  <2>2. total_amt' = total_amt
    BY <1>3 DEF Ends
  <2>3. CASE mode' # "ok" /\ UNCHANGED <<log, remaining_amt, sent>>
    BY <2>2, <2>3 DEF AmountsAddUp
  <2>4. CASE mode' = "ok" /\ Settle(lg)
    <3>1. CASE remaining_amt > 0
      BY <1>0, <2>2, <2>4, <3>1 DEF Settle, AmountsAddUp
    <3>2. CASE ~(remaining_amt > 0)
      BY <1>0, <2>2, <2>4, <3>2 DEF Settle, AmountsAddUp
    <3>3. QED  BY <3>1, <3>2
  <2>5. QED  BY <2>1, <2>3, <2>4, FinishCases
<1>4. QED  BY <1>1, <1>2, <1>3, StepKinds

\* What a script has sent and what remains always make up the amount of the
\* transaction, and a script that succeeds has sent all of it: for every script,
\* whatever its arithmetic, width of integers and order of operations.
THEOREM AmountsTheorem == Spec => []AmountsAddUp
<1>1. Init => TypeOK /\ AmountsAddUp
  BY TypeInit, AmountsInit
<1>2. TypeOK /\ AmountsAddUp /\ [Next]_vars => (TypeOK /\ AmountsAddUp)'
  BY TypeStep, AmountsStep
<1>3. QED  BY <1>1, <1>2, PTL DEF Spec

-----------------------------------------------------------------------------
(* What the log pays.                                                      *)

PaidOp(c, d, sum, e) == IF e.entry = "Transfer" THEN sum + e.amount ELSE sum

PF == INSTANCE FoldTheory WITH op <- PaidOp

\* One entry more is one payment more, or none.
LEMMA PaidSteps ==
    ASSUME NEW lg \in Seq(LogEntry)
    PROVE  /\ Paid(lg) \in Int /\ Paid(<<>>) = 0
           /\ \A e \in LogEntry :
                 Paid(Append(lg, e)) =
                     IF e.entry = "Transfer" THEN Paid(lg) + e.amount ELSE Paid(lg)
<1>1. \A l : Paid(l) = PF!Fold(0, 0, 0, l)
  BY Zenon DEF Paid, PaidOp, PF!Fold, FoldLeft, MapThenFoldSet, Max,
               PF!FoldLeft, PF!MapThenFoldSet, PF!Max
<1>2. PF!Closed(0, 0, Int, LogEntry)
  BY DEF PF!Closed, PaidOp, LogEntry
<1>3. PF!Unfolds(0, 0, Int, LogEntry, 0, lg)
  <2>1. 0 \in Int
    OBVIOUS
  <2>2. QED  BY <1>2, <2>1, PF!FoldLeftUnfolds, Zenon
<1>4. QED  BY <1>1, <1>3 DEF PF!Unfolds, PaidOp

\* Payments are not negative and go to live accounts or back.
GoodEntry(e) ==
    /\ e.entry = "Transfer" => e.amount >= 0 /\ (e.to = From \/ Found[e.to] = "live")
    /\ e.entry = "Destroy" => Found[e.to] = "live"

GoodLog(lg) == \A i \in DOMAIN lg : GoodEntry(lg[i])

\* The log agrees with what the engine counts as sent.
PaidInv == sent = Paid(log) /\ GoodLog(log)

LEMMA PaidInit == Init => PaidInv
<1>1. SUFFICES ASSUME Init
               PROVE  PaidInv
  OBVIOUS
<1>2. log = <<>> /\ sent = 0
  BY <1>1, Zenon DEF Init
<1>3. <<>> \in Seq(LogEntry) /\ DOMAIN <<>> = {}
  OBVIOUS
<1>4. QED  BY <1>2, <1>3, PaidSteps DEF PaidInv, GoodLog

LEMMA GoodAppend ==
    ASSUME NEW lg \in Seq(LogEntry), NEW e \in LogEntry, GoodLog(lg), GoodEntry(e)
    PROVE  Append(lg, e) \in Seq(LogEntry) /\ GoodLog(Append(lg, e))
<1>1. /\ DOMAIN Append(lg, e) = 1 .. Len(lg) + 1
      /\ \A i \in 1 .. Len(lg) : Append(lg, e)[i] = lg[i]
      /\ Append(lg, e)[Len(lg) + 1] = e
      /\ DOMAIN lg = 1 .. Len(lg) /\ Len(lg) \in Nat
  OBVIOUS
<1>2. \A i \in 1 .. Len(lg) + 1 : i \in 1 .. Len(lg) \/ i = Len(lg) + 1
  BY <1>1
<1>3. QED  BY <1>1, <1>2 DEF GoodLog

LEMMA PaidStep == TypeOK /\ AmountsAddUp /\ PaidInv /\ [Next]_vars => PaidInv'
<1> SUFFICES ASSUME TypeOK, AmountsAddUp, PaidInv, [Next]_vars
             PROVE  PaidInv'
  OBVIOUS
<1>0. /\ remaining_amt \in Int /\ sent \in Int /\ stack \in Seq(Frame)
      /\ log \in Seq(LogEntry) /\ MachineOK
      /\ sent = Paid(log) /\ GoodLog(log)
  BY MachineType DEF TypeOK, PaidInv
<1>1. CASE Quiet
  BY <1>1 DEF Quiet, PaidInv, GoodLog
<1>2. CASE Pays
  <2>1. Top(1) \in Int /\ Top(2) \in Accounts
    <3>1. /\ 2 <= Len(stack)
          /\ stack[Len(stack) + 1 - 1].tag = "Asset"
          /\ stack[Len(stack) + 1 - 2].tag = "AccountId"
      BY <1>0, <1>2, PopsTwo DEF Pays, Payment
    <3>2. QED  BY <1>0, <3>1, TopFrame
  <2>2. PICK e : e = Transfer(Top(2), Top(1))
    OBVIOUS
  <2>3. e \in LogEntry /\ e.entry = "Transfer" /\ e.to = Top(2) /\ e.amount = Top(1)
    BY <2>1, <2>2, TransferEntry DEF Transfer
  <2>4. GoodEntry(e)
    BY <1>2, <2>3 DEF Pays, PayableAmount, GoodEntry
  <2>5. log' = Append(log, e) /\ sent' = sent + e.amount
    BY <1>2, <2>2, <2>3 DEF Pays
  <2>6. Paid(log') = Paid(log) + e.amount
    BY <1>0, <2>3, <2>5, PaidSteps
  <2>7. GoodLog(log')
    BY <1>0, <2>3, <2>4, <2>5, GoodAppend
  <2>8. QED  BY <1>0, <2>5, <2>6, <2>7 DEF PaidInv, GoodLog
<1>3. CASE Ends
  <2>1. PICK s, marker, lg :
            /\ Finish(s, marker, lg)
            /\ \/ lg = log
               \/ /\ Pops(OneAccount) /\ Top(1) # From /\ Found[Top(1)] = "live"
                  /\ lg = Append(log, Destroy(Top(1)))
    BY <1>3, Zenon DEF Ends
  <2>2. CASE mode' # "ok" /\ UNCHANGED <<log, remaining_amt, sent>>
    BY <1>0, <2>2 DEF PaidInv, GoodLog
  <2>3. CASE mode' = "ok" /\ Settle(lg)
    <3>1. lg \in Seq(LogEntry) /\ Paid(lg) = sent /\ GoodLog(lg)
      <4>1. CASE lg = log
        BY <1>0, <4>1
      <4>2. CASE /\ Pops(OneAccount) /\ Top(1) # From /\ Found[Top(1)] = "live"
                 /\ lg = Append(log, Destroy(Top(1)))
        <5>1. 1 <= Len(stack) /\ stack[Len(stack) + 1 - 1].tag = "AccountId"
          BY <1>0, <4>2, PopsOne DEF OneAccount
        <5>2. Top(1) \in Accounts
          BY <1>0, <5>1, TopFrame
        <5>3. PICK e : e = Destroy(Top(1))
          OBVIOUS
        <5>4. e \in LogEntry /\ e.entry = "Destroy" /\ e.to = Top(1)
          BY <5>2, <5>3, DestroyEntry DEF Destroy
        <5>5. GoodEntry(e)
          BY <4>2, <5>4 DEF GoodEntry
        <5>6. QED  BY <1>0, <4>2, <5>3, <5>4, <5>5, PaidSteps, GoodAppend
      <4>3. QED  BY <2>1, <4>1, <4>2
    <3>2. CASE ~(remaining_amt > 0)
      <4>1. log' = lg /\ sent' = sent
        BY <2>3, <3>2 DEF Settle
      <4>2. QED  BY <3>1, <4>1 DEF PaidInv, GoodLog
    <3>3. CASE remaining_amt > 0
      <4>1. PICK e : e = Leftover(lg)
        OBVIOUS
      <4>2. log' = Append(lg, e) /\ sent' = sent + remaining_amt
        BY <2>3, <3>3, <4>1 DEF Settle
      <4>3. e \in LogEntry
        BY <1>0, <3>1, <4>1, <3>3, LeftoverType
      <4>4. e.entry = "Transfer" /\ e.amount = remaining_amt
        BY <4>1 DEF Leftover, Transfer
      <4>5. GoodEntry(e)
        <5>1. e.to = From \/ (lg # <<>> /\ lg[Len(lg)].entry = "Destroy" /\ e.to = lg[Len(lg)].to)
          BY <4>1 DEF Leftover, Transfer
        <5>2. lg # <<>> => Len(lg) \in DOMAIN lg
          BY <3>1
        <5>3. e.to = From \/ Found[e.to] = "live"
          BY <3>1, <5>1, <5>2 DEF GoodLog, GoodEntry
        <5>4. QED  BY <1>0, <3>3, <4>4, <5>3 DEF GoodEntry
      <4>6. Paid(log') = Paid(lg) + remaining_amt
        BY <3>1, <4>2, <4>3, <4>4, PaidSteps
      <4>7. GoodLog(log')
        BY <3>1, <4>2, <4>3, <4>5, GoodAppend
      <4>8. QED  BY <3>1, <4>2, <4>6, <4>7 DEF PaidInv, GoodLog
    <3>4. QED  BY <3>2, <3>3
  <2>4. QED  BY <2>1, <2>2, <2>3, FinishCases
<1>4. QED  BY <1>1, <1>2, <1>3, StepKinds

\* The log that call_fn returns with success distributes exactly the amount of
\* the transaction, in payments that are not negative, to live accounts or back
\* to the sender: for scripts of any length.
THEOREM LogTheorem == Spec => []LogPaysTotal
<1>1. Init => TypeOK /\ AmountsAddUp /\ PaidInv
  BY TypeInit, AmountsInit, PaidInit
<1>2. TypeOK /\ AmountsAddUp /\ PaidInv /\ [Next]_vars => (TypeOK /\ AmountsAddUp /\ PaidInv)'
  BY TypeStep, AmountsStep, PaidStep
<1>3. TypeOK /\ AmountsAddUp /\ PaidInv => LogPaysTotal
  <2>1. SUFFICES ASSUME TypeOK, AmountsAddUp, PaidInv, mode = "ok"
                 PROVE  /\ Paid(log) = total_amt
                        /\ \A i \in DOMAIN log :
                              log[i].entry = "Transfer" =>
                                  /\ log[i].amount >= 0
                                  /\ log[i].to = From \/ Found[log[i].to] = "live"
    BY DEF LogPaysTotal
  <2>2. sent = total_amt
    BY <2>1 DEF TypeOK, AmountsAddUp
  <2>3. QED  BY <2>1, <2>2 DEF PaidInv, GoodLog, GoodEntry
<1>4. QED  BY <1>1, <1>2, <1>3, PTL DEF Spec

-----------------------------------------------------------------------------
(* Destruction.                                                            *)

\* Until a script has ended well its log holds no destruction.
NoDestroyYet == mode # "ok" => \A i \in DOMAIN log : log[i].entry # "Destroy"

DestroyInv == TypeOK /\ NoDestroyYet /\ DestroyIsLast

LEMMA DestroyInit == Init => NoDestroyYet /\ DestroyIsLast
  BY DEF Init, NoDestroyYet, DestroyIsLast

\* The log that Settle leaves behind, when lg holds a destruction at most as its
\* last entry.
LEMMA SettleDestroy ==
    ASSUME NEW lg \in Seq(LogEntry), MachineOK, Settle(lg), mode' = "ok",
           \A i \in 1 .. Len(lg) :
               lg[i].entry = "Destroy" => i = Len(lg) /\ lg[i].to # From
    PROVE  DestroyIsLast'
<1>1. CASE ~(remaining_amt > 0)
  <2>1. log' = lg
    BY <1>1 DEF Settle
  <2>2. QED  BY <2>1 DEF DestroyIsLast
<1>2. CASE remaining_amt > 0
  <2>0. Leftover(lg) \in LogEntry
    BY LeftoverType
  <2>1. /\ log' = Append(lg, Leftover(lg))
        /\ Leftover(lg).entry = "Transfer"
    BY <1>2 DEF Settle, Leftover, Transfer
  <2>2. /\ Len(log') = Len(lg) + 1 /\ DOMAIN log' = 1 .. Len(lg) + 1
        /\ log'[Len(lg) + 1] = Leftover(lg)
        /\ \A i \in 1 .. Len(lg) : log'[i] = lg[i]
    BY <2>0, <2>1
  <2>3. SUFFICES ASSUME NEW i \in DOMAIN log', log'[i].entry = "Destroy"
                 PROVE  /\ log'[i].to # From
                        /\ \A j \in i + 1 .. Len(log') :
                              log'[j].entry = "Transfer" /\ log'[j].to = log'[i].to
    BY DEF DestroyIsLast
  <2>4. i # Len(lg) + 1
    BY <2>1, <2>2, <2>3
  <2>5. i \in 1 .. Len(lg) /\ log'[i] = lg[i]
    BY <2>2, <2>4
  <2>6. i = Len(lg) /\ lg[i].to # From /\ lg # <<>>
    BY <2>3, <2>5
  <2>7. Leftover(lg).to = lg[Len(lg)].to
    BY <2>3, <2>5, <2>6 DEF Leftover, Transfer
  <2>8. \A j \in i + 1 .. Len(log') : j = Len(lg) + 1
    BY <2>2, <2>6
  <2>9. QED  BY <2>1, <2>2, <2>5, <2>6, <2>7, <2>8
<1>3. QED  BY <1>1, <1>2 DEF MachineOK

LEMMA DestroyStep == DestroyInv /\ [Next]_vars => NoDestroyYet' /\ DestroyIsLast'
<1> SUFFICES ASSUME DestroyInv, [Next]_vars
             PROVE  NoDestroyYet' /\ DestroyIsLast'
  OBVIOUS
<1>0. /\ MachineOK /\ log \in Seq(LogEntry) /\ stack \in Seq(Frame)
      /\ NoDestroyYet /\ DestroyIsLast
  BY MachineType DEF DestroyInv, TypeOK
<1>1. CASE Quiet
  BY <1>0, <1>1 DEF Quiet, NoDestroyYet, DestroyIsLast
<1>2. CASE Pays
  <2>1. Transfer(Top(2), Top(1)) \in LogEntry
    <3>1. /\ 2 <= Len(stack)
          /\ stack[Len(stack) + 1 - 1].tag = "Asset"
          /\ stack[Len(stack) + 1 - 2].tag = "AccountId"
      BY <1>0, <1>2, PopsTwo DEF Pays, Payment
    <3>2. Top(1) \in Int /\ Top(2) \in Accounts
      BY <1>0, <3>1, TopFrame
    <3>3. QED  BY <3>2, TransferEntry
  <2>2. \A i \in DOMAIN log : log[i].entry # "Destroy"
    BY <1>0, <1>2 DEF Pays, NoDestroyYet
  <2>3. log' = Append(log, Transfer(Top(2), Top(1)))
    BY <1>2 DEF Pays
  <2>4. Transfer(Top(2), Top(1)).entry # "Destroy"
    BY DEF Transfer
  <2>5. \A i \in DOMAIN log' : log'[i].entry # "Destroy"
    BY <1>0, <2>1, <2>2, <2>3, <2>4
  <2>6. QED  BY <2>5 DEF NoDestroyYet, DestroyIsLast
<1>3. CASE Ends
  <2>1. PICK s, marker, lg :
            /\ Finish(s, marker, lg)
            /\ \/ lg = log
               \/ Pops(OneAccount) /\ Top(1) # From /\ lg = Append(log, Destroy(Top(1)))
    BY <1>3, Zenon DEF Ends
  <2>2. \A i \in DOMAIN log : log[i].entry # "Destroy"
    BY <1>0, <1>3 DEF Ends, NoDestroyYet
  <2>3. CASE mode' # "ok" /\ UNCHANGED <<log, remaining_amt, sent>>
    BY <2>2, <2>3 DEF NoDestroyYet, DestroyIsLast
  <2>4. CASE mode' = "ok" /\ Settle(lg)
    <3>1. /\ lg \in Seq(LogEntry)
          /\ \A i \in 1 .. Len(lg) :
                lg[i].entry = "Destroy" => i = Len(lg) /\ lg[i].to # From
      <4>1. CASE lg = log
        BY <1>0, <2>2, <4>1
      <4>2. CASE /\ Pops(OneAccount) /\ Top(1) # From
                 /\ lg = Append(log, Destroy(Top(1)))
        <5>1. 1 <= Len(stack) /\ stack[Len(stack) + 1 - 1].tag = "AccountId"
          BY <1>0, <4>2, PopsOne DEF OneAccount
        <5>2. Top(1) \in Accounts
          BY <1>0, <5>1, TopFrame
        <5>3. Destroy(Top(1)) \in LogEntry /\ Destroy(Top(1)).to = Top(1)
          BY <5>2, DestroyEntry DEF Destroy
        <5>4. QED  BY <1>0, <2>2, <4>2, <5>3
      <4>3. QED  BY <2>1, <4>1, <4>2
    <3>2. DestroyIsLast'
      BY <1>0, <2>4, <3>1, SettleDestroy
    <3>3. QED  BY <2>4, <3>2 DEF NoDestroyYet
  <2>5. QED  BY <2>1, <2>3, <2>4, FinishCases
<1>4. QED  BY <1>1, <1>2, <1>3, StepKinds

\* Nothing follows a destruction in the log of a script but the remaining funds,
\* which go to the account it names, and never to the destroyed sender.
THEOREM DestroyTheorem == Spec => []DestroyIsLast
<1>1. Init => DestroyInv
  BY TypeInit, DestroyInit DEF DestroyInv
<1>2. DestroyInv /\ [Next]_vars => DestroyInv'
  BY TypeStep, DestroyStep DEF DestroyInv
<1>3. DestroyInv => DestroyIsLast
  BY DEF DestroyInv
<1>4. QED  BY <1>1, <1>2, <1>3, PTL DEF Spec

-----------------------------------------------------------------------------
(* Branches.                                                               *)

Going == mode \in {"start", "run", "skip"}

\* Why one flag is enough where no THEN part with an ELSE holds an IF: the flag
\* belongs to the innermost block as long as that block's ELSE may come, and
\* every outer block is past its ELSE or will have none.
BranchInv ==
    wellFormed /\ Going =>
        /\ if_marker = Len(blocks)
        /\ \A i \in 1 .. Len(blocks) - 1 : blocks[i].inElse \/ blocks[i].nested
        /\ mode = "start" => blocks = <<>>
        /\ mode = "run" =>
              /\ \A i \in 1 .. Len(blocks) : Taken(blocks[i])
              /\ blocks # <<>> /\ ~Innermost.inElse /\ ~Innermost.nested => ignore_else
        /\ mode = "skip" =>
              /\ req_if_marker \in 1 .. Len(blocks)
              /\ \A i \in 1 .. req_if_marker - 1 : Taken(blocks[i])
              /\ ~Taken(blocks[req_if_marker])

\* A step that ends the script, or reads an operation that is no branch.
Straight ==
    \/ ~Going'
    \/ /\ UNCHANGED <<blocks, if_marker, ignore_else, req_if_marker>>
       /\ wellFormed' => wellFormed
       /\ mode' = mode \/ (mode = "start" /\ mode' = "run")

LEMMA FailIsStraight ==
    ASSUME NEW err \in EvalErrKind, Fail(err)
    PROVE  Straight
  BY DEF Fail, Straight, Going, EvalErrKind

LEMMA ContinueIsStraight ==
    ASSUME NEW s, Continue(s), UNCHANGED history
    PROVE  Straight
  BY DEF Continue, Straight, history

LEMMA PushIsStraight ==
    ASSUME NEW s, NEW f, Push(s, f), UNCHANGED history
    PROVE  Straight
<1>1. "StackOverflow" \in EvalErrKind
  BY DEF EvalErrKind
<1>2. QED  BY <1>1, FailIsStraight, ContinueIsStraight DEF Push

LEMMA FinishIsStraight ==
    ASSUME NEW s, NEW marker, NEW lg, Finish(s, marker, lg)
    PROVE  Straight
<1>1. {"UnexpectedEOF", "StackUnderflow", "InvalidItemOnStack", "ScriptRetFalse",
       "InvalidAmount"} \subseteq EvalErrKind
  BY DEF EvalErrKind
<1>2. mode' = "ok" => Straight
  BY DEF Straight, Going
<1>3. QED  BY <1>1, <1>2, FailIsStraight DEF Finish

\* Only the branch operations and what is skipped over change the markers.
LEMMA BranchKinds ==
    [Next]_vars => \/ Straight \/ OpIf \/ OpElse \/ OpEndIf
                   \/ SkippedIf \/ SkippedElse \/ SkippedEndIf
<1> SUFFICES ASSUME [Next]_vars,
                    ~(OpIf \/ OpElse \/ OpEndIf \/ SkippedIf \/ SkippedElse \/ SkippedEndIf)
             PROVE  Straight
  OBVIOUS
<1>0. /\ \A tags : PopErr(tags) \in EvalErrKind
      /\ {"Aborted", "UnexpectedEOF", "HeaderReadErr", "InvalidEntryPoint", "UnknownOp",
          "UnknownFn", "UnknownArgType", "ArgDeserialization", "StackOverflow",
          "Arithmetic", "InvalidAmount", "AccountNotFound", "ScriptRetFalse"}
            \subseteq EvalErrKind
  BY PopErrType DEF EvalErrKind
<1>1. CASE EnterFails \/ BadOp \/ OpAbort \/ SkippedToEnd
  BY <1>0, <1>1, FailIsStraight DEF EnterFails, BadOp, OpAbort, SkippedToEnd
<1>2. CASE EnterOutside
  BY <1>2 DEF EnterOutside, Straight, Going
<1>3. CASE Enter
  <2>1. CASE Fail("StackOverflow")
    BY <1>0, <2>1, FailIsStraight
  <2>2. CASE mode' = "run" /\ UNCHANGED <<if_marker, ignore_else, req_if_marker>>
    BY <1>3, <2>2 DEF Enter, Straight, history
  <2>3. QED  BY <1>3, <2>1, <2>2 DEF Enter
<1>4. CASE PushFrame \/ OpLoad
  BY <1>4, PushIsStraight DEF PushFrame, OpLoad, Read
<1>5. CASE OpArithmetic \/ OpNot \/ OpCheckPerms \/ OpCheckTime
  <2>1. UNCHANGED history
    BY <1>5 DEF OpArithmetic, OpNot, OpCheckPerms, OpCheckTime, Read
  <2>2. \/ \E err \in EvalErrKind : Fail(err)
        \/ \E s, f : Push(s, f)
        \/ \E s : Continue(s)
    <3>1. CASE OpArithmetic
      BY <1>0, <3>1, Zenon DEF OpArithmetic
    <3>2. CASE OpNot
      BY <1>0, <3>2, Zenon DEF OpNot
    <3>3. CASE OpCheckPerms
      BY <1>0, <3>3, Zenon DEF OpCheckPerms
    <3>4. CASE OpCheckTime
      BY <1>0, <3>4, Zenon DEF OpCheckTime
    <3>5. QED  BY <1>5, <3>1, <3>2, <3>3, <3>4
  <2>3. QED  BY <2>1, <2>2, FailIsStraight, PushIsStraight, ContinueIsStraight
<1>6. CASE OpTransfer
  <2>1. \/ \E err \in EvalErrKind : Fail(err)
        \/ UNCHANGED <<mode, if_marker, ignore_else, req_if_marker>>
    BY <1>0, <1>6, Zenon DEF OpTransfer
  <2>2. UNCHANGED history
    BY <1>6 DEF OpTransfer, Read
  <2>3. QED  BY <2>1, <2>2, FailIsStraight DEF Straight, history
<1>7. CASE OpDestroy \/ OpReturn \/ EndOfFunction
  <2>1. \/ \E err \in EvalErrKind : Fail(err)
        \/ \E s, marker, lg : Finish(s, marker, lg)
    <3>1. CASE OpDestroy
      BY <1>0, <3>1, Zenon DEF OpDestroy
    <3>2. CASE OpReturn \/ EndOfFunction
      BY <3>2, Zenon DEF OpReturn, EndOfFunction
    <3>3. QED  BY <1>7, <3>1, <3>2
  <2>2. QED  BY <2>1, FailIsStraight, FinishIsStraight
<1>8. CASE SkippedOther \/ SkippedDefine
  BY <1>8 DEF SkippedOther, SkippedDefine, machine, Straight
<1>9. CASE UNCHANGED vars
  BY <1>9 DEF vars, machine, history, Straight
<1>10. QED  BY <1>1, <1>2, <1>3, <1>4, <1>5, <1>6, <1>7, <1>8, <1>9 DEF Next

LEMMA BranchInit == Init => BranchInv
  BY DEF Init, BranchInv, Going

\* An IF opens a block and marks the THEN part it stands in.
LEMMA OpenBlockFacts ==
    ASSUME TypeOK, NEW cond \in BOOLEAN, OpenBlock(cond)
    PROVE  /\ wellFormed' = wellFormed
           /\ Len(blocks') = Len(blocks) + 1
           /\ blocks'[Len(blocks) + 1] = [cond |-> cond, inElse |-> FALSE, nested |-> FALSE]
           /\ \A i \in 1 .. Len(blocks) :
                 /\ blocks'[i].cond = blocks[i].cond /\ blocks'[i].inElse = blocks[i].inElse
                 /\ blocks[i].nested => blocks'[i].nested
           /\ blocks # <<>> => blocks'[Len(blocks)].inElse \/ blocks'[Len(blocks)].nested
<1> DEFINE new   == [cond |-> cond, inElse |-> FALSE, nested |-> FALSE]
           outer == IF blocks = <<>> \/ Innermost.inElse
                    THEN blocks
                    ELSE [blocks EXCEPT ![Len(blocks)].nested = TRUE]
<1>1. blocks \in Seq(Block) /\ new \in Block
  BY DEF TypeOK, Block
<1>2. blocks' = Append(outer, new) /\ wellFormed' = wellFormed
  BY Zenon DEF OpenBlock
<1>3. outer \in Seq(Block) /\ Len(outer) = Len(blocks)
  BY <1>1, NestedBlocks
<1>4. /\ Len(blocks') = Len(blocks) + 1 /\ blocks'[Len(blocks) + 1] = new
      /\ \A i \in 1 .. Len(blocks) : blocks'[i] = outer[i]
  <2> HIDE DEF outer, new
  <2>1. QED  BY <1>1, <1>2, <1>3
<1>5. \A i \in 1 .. Len(blocks) :
          /\ outer[i].cond = blocks[i].cond /\ outer[i].inElse = blocks[i].inElse
          /\ blocks[i].nested => outer[i].nested
  <2>1. \A i \in 1 .. Len(blocks) : blocks[i] \in Block
    BY <1>1
  <2>2. QED  BY <1>1, <2>1 DEF Block
<1>6. blocks # <<>> => outer[Len(blocks)].inElse \/ outer[Len(blocks)].nested
  <2>1. blocks # <<>> => Len(blocks) \in 1 .. Len(blocks) /\ blocks[Len(blocks)] \in Block
    BY <1>1
  <2>2. QED  BY <1>1, <2>1 DEF Block, Innermost
<1>7. blocks # <<>> => Len(blocks) \in 1 .. Len(blocks)
  BY <1>1
<1>8. QED
  <2> HIDE DEF outer
  <2>1. QED  BY <1>2, <1>4, <1>5, <1>6, <1>7

\* An ELSE that is in its place turns the innermost block.
LEMMA TurnBlockFacts ==
    ASSUME TypeOK, TurnBlock, wellFormed', ~NestedThen
    PROVE  /\ wellFormed /\ blocks # <<>> /\ ~Innermost.inElse /\ ~Innermost.nested
           /\ Len(blocks') = Len(blocks)
           /\ \A i \in 1 .. Len(blocks) - 1 : blocks'[i] = blocks[i]
           /\ blocks'[Len(blocks)].inElse
           /\ blocks'[Len(blocks)].cond = Innermost.cond
<1>1. blocks \in Seq(Block)
  BY DEF TypeOK
<1>2. /\ wellFormed /\ blocks # <<>> /\ ~Innermost.inElse /\ ~Innermost.nested
      /\ blocks' = [blocks EXCEPT ![Len(blocks)].inElse = TRUE]
  BY Zenon DEF TurnBlock
<1>3. Len(blocks) \in 1 .. Len(blocks) /\ blocks[Len(blocks)] \in Block
  BY <1>1, <1>2
<1>4. Len(blocks') = Len(blocks)
  BY <1>1, <1>2, NestedBlocks
<1>5. \A i \in 1 .. Len(blocks) - 1 : blocks'[i] = blocks[i]
  BY <1>1, <1>2, <1>3
<1>6. /\ blocks'[Len(blocks)].inElse = TRUE
      /\ blocks'[Len(blocks)].cond = blocks[Len(blocks)].cond
  BY <1>1, <1>2, <1>3 DEF Block
<1>7. QED  BY <1>2, <1>4, <1>5, <1>6 DEF Innermost

\* An ENDIF that is in its place closes the innermost block.
LEMMA CloseBlockFacts ==
    ASSUME TypeOK, CloseBlock, wellFormed'
    PROVE  /\ wellFormed /\ blocks # <<>>
           /\ Len(blocks') = Len(blocks) - 1
           /\ \A i \in 1 .. Len(blocks) - 1 : blocks'[i] = blocks[i]
<1>1. blocks \in Seq(Block)
  BY DEF TypeOK
<1>2. /\ wellFormed /\ blocks # <<>>
      /\ blocks' = SubSeq(blocks, 1, Len(blocks) - 1)
  BY Zenon DEF CloseBlock
<1>3. Len(blocks) \in Nat \ {0}
  BY <1>1, <1>2
<1>4. /\ Len(SubSeq(blocks, 1, Len(blocks) - 1)) = Len(blocks) - 1
      /\ \A i \in 1 .. Len(blocks) - 1 : SubSeq(blocks, 1, Len(blocks) - 1)[i] = blocks[i]
  <2>1. \A s \in Seq(Block) : \A k \in 0 .. Len(s) :
            /\ Len(SubSeq(s, 1, k)) = k
            /\ \A i \in 1 .. k : SubSeq(s, 1, k)[i] = s[i]
    OBVIOUS
  <2>2. Len(blocks) - 1 \in 0 .. Len(blocks)
    BY <1>3
  <2>3. QED  BY <1>1, <2>1, <2>2
<1>5. QED  BY <1>2, <1>4

LEMMA BranchStep ==
    ~NestedThen /\ TypeOK /\ BranchInv /\ [Next]_vars => BranchInv'
<1> SUFFICES ASSUME ~NestedThen, TypeOK, BranchInv, [Next]_vars, (wellFormed /\ Going)'
             PROVE  BranchInv'
  BY DEF BranchInv
<1> DEFINE n == Len(blocks)
<1>0. /\ blocks \in Seq(Block) /\ n \in Nat /\ (blocks # <<>> <=> n > 0)
      /\ if_marker \in Int /\ stack \in Seq(Frame)
      /\ \A i \in 1 .. n : blocks[i] \in Block
  BY DEF TypeOK
<1>1. CASE Straight
  <2>1. /\ UNCHANGED <<blocks, if_marker, ignore_else, req_if_marker>>
        /\ wellFormed
        /\ mode' = mode \/ (mode = "start" /\ mode' = "run")
    BY <1>1 DEF Straight
  <2>2. CASE mode' = mode
    BY <2>1, <2>2 DEF BranchInv, Going, Innermost
  <2>3. CASE mode = "start" /\ mode' = "run"
    <3>1. blocks = <<>> /\ if_marker = 0
      BY <2>1, <2>3 DEF BranchInv, Going
    <3>2. blocks' = <<>> /\ if_marker' = 0
      BY <2>1, <3>1
    <3>3. QED  BY <2>3, <3>2 DEF BranchInv
  <2>4. QED  BY <2>1, <2>2, <2>3
<1>2. CASE OpIf
  <2>1. mode = "run"
    BY <1>2 DEF OpIf, ReadBranch
  <2>2. CASE Fail(PopErr(<<"Bool">>))
    BY <2>2, PopErrType DEF Fail, Going, EvalErrKind
  <2>3. CASE Pops(<<"Bool">>)
    <3>1. Top(1) \in BOOLEAN
      BY <1>0, <2>3, PopsOne, TopFrame
    <3>2. /\ if_marker' = if_marker + 1 /\ ignore_else' = Top(1) /\ OpenBlock(Top(1))
          /\ Top(1) => mode' = mode
          /\ ~Top(1) => mode' = "skip" /\ req_if_marker' = if_marker + 1
      BY <1>2, <2>3, Zenon DEF OpIf, SkipFrom
    <3>3. /\ wellFormed' = wellFormed
          /\ Len(blocks') = n + 1
          /\ blocks'[n + 1] = [cond |-> Top(1), inElse |-> FALSE, nested |-> FALSE]
          /\ \A i \in 1 .. n :
                /\ blocks'[i].cond = blocks[i].cond /\ blocks'[i].inElse = blocks[i].inElse
                /\ blocks[i].nested => blocks'[i].nested
          /\ blocks # <<>> => blocks'[n].inElse \/ blocks'[n].nested
      BY <3>1, <3>2, OpenBlockFacts
    <3>4. /\ if_marker = n
          /\ \A i \in 1 .. n - 1 : blocks[i].inElse \/ blocks[i].nested
          /\ \A i \in 1 .. n : Taken(blocks[i])
      BY <2>1, <3>3 DEF BranchInv, Going
    <3>5. if_marker' = Len(blocks')
      BY <3>2, <3>3, <3>4
    <3>6. \A i \in 1 .. Len(blocks') - 1 : blocks'[i].inElse \/ blocks'[i].nested
      BY <1>0, <3>3, <3>4
    <3>7. \A i \in 1 .. n : Taken(blocks'[i])
      BY <3>3, <3>4 DEF Taken
    <3>8. Taken(blocks'[n + 1]) <=> Top(1)
      <4>1. blocks'[n + 1].cond = Top(1) /\ blocks'[n + 1].inElse = FALSE
        BY <3>3
      <4>2. QED  BY <3>1, <4>1, Zenon DEF Taken
    <3>9. CASE Top(1)
      <4>1. mode' = "run" /\ ignore_else'
        BY <2>1, <3>2, <3>9
      <4>2. \A i \in 1 .. Len(blocks') : Taken(blocks'[i])
        BY <1>0, <3>3, <3>7, <3>8, <3>9
      <4>3. QED  BY <3>5, <3>6, <4>1, <4>2 DEF BranchInv
    <3>10. CASE ~Top(1)
      <4>1. mode' = "skip" /\ req_if_marker' = n + 1
        BY <3>2, <3>4, <3>10
      <4>2. req_if_marker' \in 1 .. Len(blocks')
        BY <1>0, <3>3, <4>1
      <4>3. \A i \in 1 .. req_if_marker' - 1 : Taken(blocks'[i])
        BY <1>0, <3>7, <4>1
      <4>4. ~Taken(blocks'[req_if_marker'])
        BY <3>8, <3>10, <4>1
      <4>5. QED  BY <3>5, <3>6, <4>1, <4>2, <4>3, <4>4 DEF BranchInv
    <3>11. QED  BY <3>9, <3>10
  <2>4. QED  BY <1>2, <2>2, <2>3, Zenon DEF OpIf
<1>3. CASE OpElse
  <2>1. mode = "run" /\ TurnBlock /\ UNCHANGED <<if_marker, ignore_else>>
    BY <1>3 DEF OpElse, ReadBranch
  <2>2. /\ wellFormed /\ blocks # <<>> /\ ~Innermost.inElse /\ ~Innermost.nested
        /\ Len(blocks') = n
        /\ \A i \in 1 .. n - 1 : blocks'[i] = blocks[i]
        /\ blocks'[n].inElse /\ blocks'[n].cond = Innermost.cond
    BY <2>1, TurnBlockFacts
  <2>3. /\ if_marker = n /\ ignore_else
        /\ \A i \in 1 .. n - 1 : blocks[i].inElse \/ blocks[i].nested
        /\ \A i \in 1 .. n : Taken(blocks[i])
    BY <2>1, <2>2 DEF BranchInv, Going
  <2>4. mode' = "skip" /\ req_if_marker' = n
    BY <1>3, <2>3 DEF OpElse, SkipFrom
  <2>5. n \in 1 .. n
    BY <1>0, <2>2
  <2>6. blocks[n].cond = TRUE
    <3>1. Taken(blocks[n]) /\ ~blocks[n].inElse /\ blocks[n] \in Block
      BY <1>0, <2>2, <2>3, <2>5 DEF Innermost
    <3>2. blocks[n].cond \in BOOLEAN /\ blocks[n].inElse \in BOOLEAN
      BY <3>1 DEF Block
    <3>3. QED  BY <3>1, <3>2, Zenon DEF Taken
  <2>7. ~Taken(blocks'[n])
    <3>1. TypeOK'
      BY TypeStep
    <3>2. blocks' \in Seq(Block)
      BY <3>1 DEF TypeOK
    <3>3. blocks'[n] \in Block
      BY <2>2, <2>5, <3>2
    <3>4. blocks'[n].inElse = TRUE
      BY <2>2, <3>3 DEF Block
    <3>5. blocks'[n].cond = TRUE
      BY <2>2, <2>6 DEF Innermost
    <3>6. QED  BY <3>4, <3>5 DEF Taken
  <2>8. QED  BY <1>0, <2>1, <2>2, <2>3, <2>4, <2>5, <2>7 DEF BranchInv
<1>4. CASE OpEndIf
  <2>1. mode = "run" /\ mode' = "run" /\ if_marker' = if_marker - 1 /\ CloseBlock
    BY <1>4 DEF OpEndIf, ReadBranch
  <2>2. /\ wellFormed /\ blocks # <<>> /\ Len(blocks') = n - 1
        /\ \A i \in 1 .. n - 1 : blocks'[i] = blocks[i]
    BY <2>1, CloseBlockFacts
  <2>3. /\ if_marker = n
        /\ \A i \in 1 .. n - 1 : blocks[i].inElse \/ blocks[i].nested
        /\ \A i \in 1 .. n : Taken(blocks[i])
    BY <2>1, <2>2 DEF BranchInv, Going
  <2>4. QED  BY <1>0, <2>1, <2>2, <2>3 DEF BranchInv, Innermost
<1>5. CASE SkippedIf
  <2>1. /\ mode = "skip" /\ mode' = "skip" /\ if_marker' = if_marker + 1 /\ OpenBlock(FALSE)
        /\ req_if_marker' = req_if_marker
    BY <1>5 DEF SkippedIf, ReadBranch
  <2>2. /\ wellFormed' = wellFormed
        /\ Len(blocks') = n + 1
        /\ \A i \in 1 .. n :
              /\ blocks'[i].cond = blocks[i].cond /\ blocks'[i].inElse = blocks[i].inElse
              /\ blocks[i].nested => blocks'[i].nested
        /\ blocks # <<>> => blocks'[n].inElse \/ blocks'[n].nested
    BY <2>1, OpenBlockFacts
  <2>3. /\ if_marker = n
        /\ \A i \in 1 .. n - 1 : blocks[i].inElse \/ blocks[i].nested
        /\ req_if_marker \in 1 .. n
        /\ \A i \in 1 .. req_if_marker - 1 : Taken(blocks[i])
        /\ ~Taken(blocks[req_if_marker])
    BY <2>1, <2>2 DEF BranchInv, Going
  <2>4. \A i \in 1 .. n : Taken(blocks'[i]) <=> Taken(blocks[i])
    BY <2>2 DEF Taken
  <2>5. \A i \in 1 .. Len(blocks') - 1 : blocks'[i].inElse \/ blocks'[i].nested
    BY <1>0, <2>2, <2>3
  <2>6. QED  BY <1>0, <2>1, <2>2, <2>3, <2>4, <2>5 DEF BranchInv
<1>6. CASE SkippedElse
  <2>1. /\ mode = "skip" /\ Resume /\ TurnBlock
        /\ UNCHANGED <<if_marker, ignore_else, req_if_marker>>
    BY <1>6 DEF SkippedElse, ReadBranch, machine
  <2>2. /\ wellFormed /\ blocks # <<>> /\ ~Innermost.inElse /\ ~Innermost.nested
        /\ Len(blocks') = n
        /\ \A i \in 1 .. n - 1 : blocks'[i] = blocks[i]
        /\ blocks'[n].inElse /\ blocks'[n].cond = Innermost.cond
    BY <2>1, TurnBlockFacts
  <2>3. /\ if_marker = n
        /\ \A i \in 1 .. n - 1 : blocks[i].inElse \/ blocks[i].nested
        /\ req_if_marker \in 1 .. n
        /\ \A i \in 1 .. req_if_marker - 1 : Taken(blocks[i])
        /\ ~Taken(blocks[req_if_marker])
    BY <2>1, <2>2 DEF BranchInv, Going
  <2>4. CASE req_if_marker = n
    <3>1. mode' = "run"
      BY <2>1, <2>3, <2>4 DEF Resume
    <3>2. Taken(blocks'[n])
      <4>1. ~Taken(blocks[n]) /\ ~blocks[n].inElse /\ blocks[n] \in Block
        BY <1>0, <2>2, <2>3, <2>4 DEF Innermost
      <4>2. blocks[n].cond \in BOOLEAN /\ blocks[n].inElse \in BOOLEAN
        BY <4>1 DEF Block
      <4>3. blocks[n].cond = FALSE
        BY <4>1, <4>2, Zenon DEF Taken
      <4>4. blocks'[n].cond = FALSE
        BY <2>2, <4>3 DEF Innermost
      <4>5. QED  BY <2>2, <4>4 DEF Taken
    <3>3. \A i \in 1 .. n : Taken(blocks'[i])
      BY <1>0, <2>2, <2>3, <2>4, <3>2
    <3>4. Innermost' = blocks'[n]
      BY <2>2 DEF Innermost
    <3>5. QED  BY <1>0, <2>1, <2>2, <2>3, <3>1, <3>3, <3>4 DEF BranchInv
  <2>5. CASE req_if_marker # n
    <3>1. mode' = "skip"
      BY <2>1, <2>3, <2>5 DEF Resume
    <3>2. req_if_marker \in 1 .. n - 1
      BY <1>0, <2>3, <2>5
    <3>3. QED  BY <1>0, <2>1, <2>2, <2>3, <3>1, <3>2, SMTT(30) DEF BranchInv
  <2>6. QED  BY <2>4, <2>5
<1>7. CASE SkippedEndIf
  <2>1. /\ mode = "skip" /\ Resume /\ if_marker' = if_marker - 1 /\ CloseBlock
        /\ UNCHANGED <<ignore_else, req_if_marker>>
    BY <1>7 DEF SkippedEndIf, ReadBranch
  <2>2. /\ wellFormed /\ blocks # <<>> /\ Len(blocks') = n - 1
        /\ \A i \in 1 .. n - 1 : blocks'[i] = blocks[i]
    BY <2>1, CloseBlockFacts
  <2>3. /\ if_marker = n
        /\ \A i \in 1 .. n - 1 : blocks[i].inElse \/ blocks[i].nested
        /\ req_if_marker \in 1 .. n
        /\ \A i \in 1 .. req_if_marker - 1 : Taken(blocks[i])
        /\ ~Taken(blocks[req_if_marker])
    BY <2>1, <2>2 DEF BranchInv, Going
  <2>4. CASE req_if_marker = n
    <3>1. mode' = "run"
      BY <2>1, <2>3, <2>4 DEF Resume
    <3>2. QED  BY <1>0, <2>1, <2>2, <2>3, <2>4, <3>1 DEF BranchInv, Innermost
  <2>5. CASE req_if_marker # n
    <3>1. mode' = "skip"
      BY <2>1, <2>3, <2>5 DEF Resume
    <3>2. req_if_marker \in 1 .. n - 1
      BY <1>0, <2>3, <2>5
    <3>3. \A i \in 1 .. req_if_marker : blocks'[i] = blocks[i]
      BY <1>0, <2>2, <3>2
    <3>4. req_if_marker' \in 1 .. Len(blocks') /\ if_marker' = Len(blocks')
      BY <1>0, <2>1, <2>2, <2>3, <3>2
    <3>5. \A i \in 1 .. Len(blocks') - 1 : blocks'[i].inElse \/ blocks'[i].nested
      BY <1>0, <2>2, <2>3
    <3>6. \A i \in 1 .. req_if_marker' - 1 : Taken(blocks'[i])
      BY <1>0, <2>1, <2>3, <3>2, <3>3
    <3>7. ~Taken(blocks'[req_if_marker'])
      BY <2>1, <2>3, <3>2, <3>3
    <3>8. QED  BY <3>1, <3>4, <3>5, <3>6, <3>7 DEF BranchInv
  <2>6. QED  BY <2>4, <2>5
<1>8. QED  BY <1>1, <1>2, <1>3, <1>4, <1>5, <1>6, <1>7, BranchKinds

LEMMA BranchInvImplies == TypeOK /\ BranchInv => BranchesFollowBlocks
<1>1. ASSUME TypeOK, BranchInv, wellFormed, mode \in {"run", "skip"}
      PROVE  /\ mode = "run" <=> \A i \in DOMAIN blocks : Taken(blocks[i])
             /\ if_marker = Len(blocks)
  <2>1. DOMAIN blocks = 1 .. Len(blocks)
    BY <1>1 DEF TypeOK
  <2>2. QED  BY <1>1, <2>1 DEF BranchInv, Going
<1>2. QED  BY <1>1 DEF BranchesFollowBlocks

\* In scripts whose THEN parts hold no IF when they have an ELSE, an operation is
\* executed exactly if every block around it takes the part it stands in: the
\* single flag of OpIf and OpElse follows the nesting, to any depth.
THEOREM BranchesTheorem ==
    ASSUME ~NestedThen
    PROVE  Spec => []BranchesFollowBlocks
<1>1. Init => TypeOK /\ BranchInv
  BY TypeInit, BranchInit
<1>2. TypeOK /\ BranchInv /\ [Next]_vars => (TypeOK /\ BranchInv)'
  BY TypeStep, BranchStep
<1>3. TypeOK /\ BranchInv => BranchesFollowBlocks
  BY BranchInvImplies
<1>4. QED  BY <1>1, <1>2, <1>3, PTL DEF Spec

\* Reading over a definition is the only way out of the called function's text.
LEMMA CrossedOnlyByDefine == Next => SkippedDefine \/ crossed' = crossed
<1>1. Read => crossed' = crossed
  BY DEF Read, history
<1>2. \A m : ReadBranch(m) => crossed' = crossed
  BY DEF ReadBranch
<1>3. PushFrame \/ OpLoad \/ OpArithmetic \/ OpNot \/ OpTransfer \/ OpDestroy
      \/ OpCheckPerms \/ OpCheckTime \/ OpReturn \/ OpAbort => Read
  BY DEF PushFrame, OpLoad, OpArithmetic, OpNot, OpTransfer, OpDestroy, OpCheckPerms,
         OpCheckTime, OpReturn, OpAbort
<1>4. OpIf \/ OpElse \/ OpEndIf \/ SkippedIf \/ SkippedElse \/ SkippedEndIf \/ SkippedOther
          => \E m : ReadBranch(m)
  BY DEF OpIf, OpElse, OpEndIf, SkippedIf, SkippedElse, SkippedEndIf, SkippedOther
<1>5. EnterFails \/ EnterOutside \/ Enter \/ EndOfFunction \/ SkippedToEnd \/ BadOp
          => crossed' = crossed
  BY DEF EnterFails, EnterOutside, Enter, EndOfFunction, SkippedToEnd, BadOp, history
<1>6. QED  BY <1>1, <1>2, <1>3, <1>4, <1>5 DEF Next

\* In the same scripts, no run succeeds at the end of a function with an IF left
\* open in what it has read, and it reads on into the next function only out of
\* a part that is not taken.
THEOREM NoIfLeftOpenTheorem ==
    ASSUME ~NestedThen
    PROVE  Spec => NoIfLeftOpen
<1> DEFINE A == /\ EndOfFunction /\ mode' = "ok" /\ wellFormed => blocks = <<>>
                /\ crossed' # crossed /\ wellFormed =>
                      \E i \in DOMAIN blocks : ~Taken(blocks[i])
<1>1. Init => TypeOK /\ BranchInv
  BY TypeInit, BranchInit
<1>2. TypeOK /\ BranchInv /\ [Next]_vars => (TypeOK /\ BranchInv)'
  BY TypeStep, BranchStep
<1>3. ASSUME TypeOK, BranchInv, EndOfFunction, mode' = "ok", wellFormed
      PROVE  blocks = <<>>
  <2>1. mode = "run" /\ Finish(stack, if_marker, log)
    BY <1>3 DEF EndOfFunction
  <2>2. if_marker = Len(blocks)
    BY <1>3, <2>1 DEF BranchInv, Going
  <2>3. if_marker <= 0
    <3>1. CASE if_marker > 0
      <4>1. if_marker \in Int
        BY <1>3 DEF TypeOK
      <4>2. ~(if_marker <= 0)
        BY <3>1, <4>1
      <4>3. Fail("UnexpectedEOF")
        BY <2>1, <4>2, Zenon DEF Finish
      <4>4. QED  BY <1>3, <4>3 DEF Fail
    <3>2. QED  BY <1>3, <3>1 DEF TypeOK
  <2>4. blocks \in Seq(Block)
    BY <1>3 DEF TypeOK
  <2>5. QED  BY <2>2, <2>3, <2>4
<1>4. ASSUME TypeOK, BranchInv, Next, crossed' # crossed, wellFormed
      PROVE  \E i \in DOMAIN blocks : ~Taken(blocks[i])
  <2>1. mode = "skip"
    <3>1. SkippedDefine \/ crossed' = crossed
      BY <1>4, CrossedOnlyByDefine
    <3>2. QED  BY <1>4, <3>1 DEF SkippedDefine
  <2>2. req_if_marker \in 1 .. Len(blocks) /\ ~Taken(blocks[req_if_marker])
    BY <1>4, <2>1 DEF BranchInv, Going
  <2>3. blocks \in Seq(Block)
    BY <1>4 DEF TypeOK
  <2>4. req_if_marker \in DOMAIN blocks
    BY <2>2, <2>3
  <2>5. QED  BY <2>2, <2>4
<1>5. TypeOK /\ BranchInv /\ [Next]_vars => [A]_vars
  BY <1>3, <1>4
<1>6. QED  BY <1>1, <1>2, <1>5, PTL DEF Spec, NoIfLeftOpen
=============================================================================
