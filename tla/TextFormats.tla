---------------------------- MODULE TextFormats ----------------------------
(***************************************************************************)
(* Scripts from their text to the engine: the textual script builder of    *)
(* the wallet, the builder of byte code, the texts of amounts and of       *)
(* addresses that the words of a script hold, and the way the engine finds *)
(* a function and reads its frames back.                                   *)
(*                                                                         *)
(* Sources: crates/cli, wallet/script_builder.rs and wallet/parser.rs;     *)
(* crates/godcoin, script/builder.rs, script/op.rs, get_fn_ptr of          *)
(* script/mod.rs and consume_op of script/engine.rs, to_string and         *)
(* from_str of asset/mod.rs, crypto/wif.rs, create_default of account.rs.  *)
(*                                                                         *)
(* Widths are scaled: a u64, an i64 and a pointer take two bytes of        *)
(* Formats; a function id has U8 values.                                   *)
(***************************************************************************)
EXTENDS Formats

CONSTANTS
    U8,                     \* number of values of a function id and of the table's length
    MAX_SCRIPT_BYTE_SIZE,   \* largest script
    MAX_PRECISION,          \* decimals of an amount
    MAX_STR_LEN,            \* longest text of an amount
    SYMBOL_LEN,             \* length of the symbol behind an amount
    Common, Rare,           \* the frames that the texts hold often, and once
    MaxWords                \* bound on the frames of a text

ASSUME TextAssumption ==
    /\ U8 \in 2..BYTE /\ MaxWords \in Nat
    /\ MAX_PRECISION \in Nat \ {0} /\ SYMBOL_LEN \in Nat /\ MAX_STR_LEN \in Nat
    /\ MAX_SCRIPT_BYTE_SIZE \in 0..(INT - 1)

-----------------------------------------------------------------------------
(* parser.rs.  A line is a sequence of blanks, quotes and pieces of text.  *)

Blank == <<"blank">>
Quote == <<"quote">>
Piece(x) == <<"piece", x>>

\* The words of a line: a word ends at a blank outside quotes, quotes are not
\* part of it, and an empty word is dropped.
parse_line(line) ==
    LET step(acc, c) ==
            CASE c = Quote -> [acc EXCEPT !.quoted = ~@]
              [] c = Blank /\ ~acc.quoted ->
                    [acc EXCEPT !.words = IF acc.tmp = <<>> THEN @ ELSE Append(@, acc.tmp),
                                !.tmp = <<>>]
              [] OTHER -> [acc EXCEPT !.tmp = Append(@, c)]
        end == FoldLeft(step, [words |-> <<>>, tmp |-> <<>>, quoted |-> FALSE], line)
    IN  IF end.tmp = <<>> THEN end.words ELSE Append(end.words, end.tmp)

-----------------------------------------------------------------------------
(* asset/mod.rs.  The digits of an amount are 0 to 9, Minus and Dot; the   *)
(* symbol only counts for the length.                                      *)

Minus == 10
Dot == 11

RECURSIVE Digits(_)
Digits(n) == IF n < 10 THEN <<n>> ELSE Append(Digits(n \div 10), n % 10)

Decimal(n) == IF n < 0 THEN <<Minus>> \o Digits(-n) ELSE Digits(n)

to_string(a) ==
    LET s == Decimal(a)
        start == IF a < 0 THEN 1 ELSE 0
        zeros == [i \in 1..(MAX_PRECISION - Len(s) + start) |-> 0]
    IN  CASE Len(s) < MAX_PRECISION ->
                SubSeq(s, 1, start) \o <<0, Dot>> \o zeros \o SubSeq(s, start + 1, Len(s))
          [] Len(s) = MAX_PRECISION -> <<0, Dot>> \o s
          [] OTHER -> InsertAt(s, Len(s) - MAX_PRECISION + 1, Dot)

\* i64::from_str on a text without dots.
ParseInt(s) ==
    LET negative == s # <<>> /\ Head(s) = Minus
        digits == IF negative THEN Tail(s) ELSE s
        n == FoldLeft(LAMBDA acc, d : 10 * acc + d, 0, digits)
        value == IF negative THEN -n ELSE n
    IN  IF digits # <<>> /\ Minus \notin ToSet(digits) /\ value \in Amounts
        THEN <<value>> ELSE <<>>

\* The word is the amount, a blank and the symbol.
from_str(word) ==
    LET s == word[1][2]
        dots == {i \in DOMAIN s : s[i] = Dot}
        pos == CHOOSE i \in dots : \A j \in dots : i <= j
    IN  IF Len(word) # 3 \/ Len(s) + 1 + SYMBOL_LEN > MAX_STR_LEN THEN <<>>
        ELSE IF dots = {} \/ Len(s) - pos # MAX_PRECISION THEN <<>>
        ELSE ParseInt(SelectSeq(s, LAMBDA c : c # Dot))

-----------------------------------------------------------------------------
(* crypto/wif.rs.  An address: what its first three bytes are, the bytes   *)
(* that are encoded, and the checksum, which stands for what it is the sum *)
(* of.  The front is "GOD", other text, or ends inside a character.        *)

WifPrefix == [PrivateKey |-> 1, PublicKey |-> 2, AccountId |-> 3]

WifLen == [PrivateKey |-> 2, PublicKey |-> 2, AccountId |-> 3]

to_wif(kind, bytes) ==
    [front |-> IF kind = "PrivateKey" THEN "other" ELSE "GOD", raw |-> <<WifPrefix[kind]>> \o bytes,
     checksum |-> <<WifPrefix[kind]>> \o bytes]

\* Slicing three bytes off the front panics inside a character.
from_wif_panics(kind, s) == kind # "PrivateKey" /\ s.front = "inside a character"

from_wif(kind, s) ==
    IF /\ s.front = IF kind = "PrivateKey" THEN "other" ELSE "GOD"
       /\ Len(s.raw) = WifLen[kind]
       /\ s.raw[1] = WifPrefix[kind]
       /\ s.checksum = s.raw
    THEN <<Tail(s.raw)>> ELSE <<>>

-----------------------------------------------------------------------------
(* script/op.rs, script/builder.rs.  A frame is an operand and its values. *)

Operand ==
    [OpDefine |-> 0, OpTransfer |-> 16, OpDestroy |-> 17, False |-> 32, True |-> 33,
     AccountId |-> 34, Asset |-> 35, OpLoadAmt |-> 48, OpLoadRemAmt |-> 49, OpAdd |-> 50,
     OpSub |-> 51, OpMul |-> 52, OpDiv |-> 53, OpNot |-> 64, OpIf |-> 65, OpElse |-> 66,
     OpEndIf |-> 67, OpReturn |-> 68, OpAbort |-> 69, OpCheckPerms |-> 80,
     OpCheckPermsFastFail |-> 81, OpCheckMultiPerms |-> 82,
     OpCheckMultiPermsFastFail |-> 83, OpCheckTime |-> 96, OpCheckTimeFastFail |-> 97]

Arg == 0..1     \* the codes of AccountId and Asset

MultiPerms == {"OpCheckMultiPerms", "OpCheckMultiPermsFastFail"}
Times == {"OpCheckTime", "OpCheckTimeFastFail"}

\* FnBuilder::new
DefineCode(args) == <<Operand.OpDefine, Len(args)>> \o args

\* FnBuilder::push
FrameCode(f) ==
    <<Operand[f.op]>> \o
        CASE f.op \in {"AccountId", "Asset"} \cup Times -> PushInt(f.args[1] % INT)
          [] f.op \in MultiPerms -> f.args
          [] OTHER -> <<>>

\* Mutant: the pointers are not offset by the length of the header.
BuildWithoutOffset(table, body) ==
    <<Len(table)>> \o FlattenSeq([i \in DOMAIN table |-> <<table[i][1]>> \o PushInt(table[i][2])])
        \o body

HeaderLen(table) == 1 + 3 * Len(table)

\* Builder::build, once the size is checked.
ScriptOf(table, body) ==
    LET offset == HeaderLen(table)
    IN  <<Len(table)>>
            \o FlattenSeq([i \in DOMAIN table |-> <<table[i][1]>> \o PushInt(offset + table[i][2])])
            \o body

-----------------------------------------------------------------------------
(* How the engine reads a script.                                          *)

\* The table is searched from its start.
get_fn_ptr(s, fn_id) ==
    LET hits == {i \in 1..s[1] : s[2 + 3 * (i - 1)] = fn_id}
        first == CHOOSE i \in hits : \A j \in hits : i <= j
    IN  IF s = <<>> \/ hits = {} THEN <<>>
        ELSE <<TakeInt(SubSeq(s, 3 * first, Len(s))).val>>

\* The bytes behind the operand that consume_op takes.
ValueLen(op) ==
    CASE op \in {"AccountId", "Asset"} \cup Times -> 2
      [] op \in MultiPerms -> 2
      [] OTHER -> 0

Signed(n) == IF n >= INT \div 2 THEN n - INT ELSE n

ReadValues(op, bytes) ==
    CASE op = "Asset" -> <<Signed(TakeInt(bytes).val)>>
      [] op \in {"AccountId"} \cup Times -> <<TakeInt(bytes).val>>
      [] OTHER -> bytes

Stop(reason) == [op |-> reason, args |-> <<>>]

\* consume_op until the end of the script; pos counts from 0, as in the code.
RECURSIVE ReadFrames(_, _)
ReadFrames(s, pos) ==
    LET op == CHOOSE o \in DOMAIN Operand : Operand[o] = s[pos + 1]
        len == IF op = "OpDefine" THEN 1 + (IF pos + 2 > Len(s) THEN 0 ELSE s[pos + 2]) ELSE ValueLen(op)
        bytes == SubSeq(s, pos + 2, pos + 1 + len)
        frame == IF op = "OpDefine" THEN [op |-> op, args |-> Tail(bytes)]
                 ELSE [op |-> op, args |-> ReadValues(op, bytes)]
    IN  CASE pos = Len(s) -> <<>>
          [] pos > Len(s) -> <<Stop("panic")>>
          [] \A o \in DOMAIN Operand : Operand[o] # s[pos + 1] -> <<Stop("UnknownOp")>>
          [] pos + 1 + len > Len(s) -> <<Stop("UnexpectedEOF")>>
          [] OTHER -> <<frame>> \o ReadFrames(s, pos + 1 + len)

-----------------------------------------------------------------------------
(* The builder at work on a text, one word and its arguments at a time.    *)

VARIABLES
    lookup_table,   \* the functions pushed: id, position in the body
    body,           \* their byte code
    fn_builder,     \* << >>, or the function under construction
    fn_id,          \* id of the next one
    wanted,         \* the functions of the text, each as its frames
    script,         \* the script that was built
    state           \* "typing", "built", "panic" or the error, and the word it is about

tvars == <<lookup_table, body, fn_builder, fn_id, wanted, script, state>>

TextInit ==
    /\ lookup_table = <<>> /\ body = <<>> /\ fn_builder = <<>> /\ fn_id = 0
    /\ wanted = <<>> /\ script = <<>> /\ state = <<"typing">>

\* Builder::push
PushFn(fn) ==
    /\ lookup_table' = Append(lookup_table, <<fn.id, Len(body)>>)
    /\ body' = body \o fn.byte_code

TooManyFns == Len(lookup_table) + 1 > U8 - 1

Panics ==
    /\ state' = <<"panic">>
    /\ UNCHANGED <<lookup_table, body, fn_builder, fn_id, wanted, script>>

\* OP_DEFINE.  The id of the function behind the last one overflows: builds
\* with overflow checks panic, the others wrap.
Define ==
    /\ state = <<"typing">>
    /\ \/ /\ fn_builder # <<>> /\ TooManyFns
          /\ Panics
       \/ /\ fn_id + 1 = U8
          /\ Panics
       \/ /\ fn_builder # <<>> => ~TooManyFns
          /\ IF fn_builder = <<>> THEN UNCHANGED <<lookup_table, body>> ELSE PushFn(fn_builder[1])
          /\ fn_builder' = <<[id |-> fn_id, byte_code |-> DefineCode(<<>>)]>>
          /\ fn_id' = (fn_id + 1) % U8
          /\ wanted' = Append(wanted, <<[op |-> "OpDefine", args |-> <<>>]>>)
          /\ UNCHANGED <<script, state>>

Refuse(error, f, typed) ==
    /\ state' = <<error, f, typed>>
    /\ UNCHANGED <<lookup_table, body, fn_builder, fn_id, wanted, script>>

\* The word of an address; typed says whether a word is there and is what the
\* printers return.
AddressTyped(f, typed) ==
    LET wif == to_wif("AccountId", PushInt(f.args[1]))
    IN  CASE typed = "mistyped" -> [wif EXCEPT !.raw[2] = (@ + 1) % BYTE]
          [] typed = "garbled" -> [wif EXCEPT !.front = "inside a character"]
          [] OTHER -> wif

\* The values that the builder reads from the words of f's arguments.  An
\* amount is mistyped when the quotes around it are left out.
Parsed(f, typed) ==
    CASE f.op = "AccountId" ->
            LET id == from_wif("AccountId", AddressTyped(f, typed))
            IN  IF id = <<>> THEN <<>> ELSE << <<TakeInt(id[1]).val>> >>
      [] f.op = "Asset" ->
            LET inner == <<Piece(to_string(f.args[1])), Blank, Piece("symbol")>>
                line == <<Piece("OP_ASSET"), Blank>> \o
                            (IF typed = "mistyped" THEN inner ELSE <<Quote>> \o inner \o <<Quote>>)
                amount == from_str(parse_line(line)[2])
            IN  IF amount = <<>> THEN <<>> ELSE <<amount>>
      [] OTHER -> IF typed = "mistyped" THEN <<>> ELSE <<f.args>>

ParseError(f) ==
    CASE f.op = "AccountId" -> "WifError" [] f.op = "Asset" -> "AssetParseError"
      [] OTHER -> "Other"

WordPanics(f, typed) ==
    f.op = "AccountId" /\ typed # "missing" /\ from_wif_panics("AccountId", AddressTyped(f, typed))

\* The other operations of a script.
Word(f, typed) ==
    /\ state = <<"typing">>
    /\ f.args = <<>> => typed = "printed"
    /\ typed = "garbled" => f.op = "AccountId"
    /\ \/ /\ fn_builder = <<>>
          /\ Refuse("ExpectedFnDefinition", f, typed)
       \/ /\ fn_builder # <<>> /\ f.op \notin DOMAIN Operand
          /\ Refuse("UnknownOp", f, typed)
       \/ /\ fn_builder # <<>> /\ f.op \in DOMAIN Operand /\ typed = "missing"
          /\ Refuse("MissingArgForOp", f, typed)
       \/ /\ fn_builder # <<>> /\ f.op \in DOMAIN Operand /\ typed # "missing"
          /\ WordPanics(f, typed)
          /\ Refuse("panic", f, typed)
       \/ /\ fn_builder # <<>> /\ f.op \in DOMAIN Operand /\ typed # "missing"
          /\ ~WordPanics(f, typed) /\ Parsed(f, typed) = <<>>
          /\ Refuse(ParseError(f), f, typed)
       \/ /\ fn_builder # <<>> /\ f.op \in DOMAIN Operand /\ typed # "missing"
          /\ ~WordPanics(f, typed) /\ Parsed(f, typed) # <<>>
          /\ fn_builder' = [fn_builder EXCEPT ![1].byte_code =
                                @ \o FrameCode([f EXCEPT !.args = Parsed(f, typed)[1]])]
          /\ wanted' = [wanted EXCEPT ![Len(wanted)] = Append(@, f)]
          /\ UNCHANGED <<lookup_table, body, fn_id, script, state>>

Build(table, code) ==
    IF HeaderLen(table) + Len(code) > MAX_SCRIPT_BYTE_SIZE
    THEN state' = <<"ScriptSizeOverflow">> /\ UNCHANGED script
    ELSE state' = <<"built">> /\ script' = ScriptOf(table, code)

\* The end of the text.
EndOfText ==
    /\ state = <<"typing">>
    /\ \/ /\ fn_builder # <<>> /\ TooManyFns
          /\ Panics
       \/ /\ fn_builder # <<>> /\ ~TooManyFns
          /\ PushFn(fn_builder[1])
          /\ Build(lookup_table', body')
          /\ UNCHANGED <<fn_builder, fn_id, wanted>>
       \/ /\ fn_builder = <<>>
          /\ Build(lookup_table, body)
          /\ UNCHANGED <<lookup_table, body, fn_builder, fn_id, wanted>>

DefaultFrames(id) ==
    << [op |-> "OpDefine", args |-> <<0, 1>>], [op |-> "AccountId", args |-> <<id>>],
       [op |-> "OpCheckPermsFastFail", args |-> <<>>], [op |-> "OpTransfer", args |-> <<>>],
       [op |-> "True", args |-> <<>>] >>

\* Account::create_default, which does not go through a text.
create_default(id) ==
    /\ state = <<"typing">> /\ wanted = <<>>
    /\ LET frames == DefaultFrames(id)
           code == DefineCode(frames[1].args)
                       \o FlattenSeq([i \in 1..(Len(frames) - 1) |-> FrameCode(frames[i + 1])])
       IN  /\ wanted' = <<frames>>
           /\ PushFn([id |-> 0, byte_code |-> code])
           /\ Build(lookup_table', body')
    /\ UNCHANGED <<fn_builder, fn_id>>

\* The next text.
NewText ==
    /\ state # <<"typing">>
    /\ lookup_table' = <<>> /\ body' = <<>> /\ fn_builder' = <<>> /\ fn_id' = 0
    /\ wanted' = <<>> /\ script' = <<>> /\ state' = <<"typing">>

Words == Len(FlattenSeq(wanted))

TextNext ==
    \/ Words < MaxWords /\ Define
    \/ \E f \in Common : Words < MaxWords /\ Word(f, "printed")
    \/ \E f \in Rare, typed \in {"printed", "mistyped", "garbled", "missing"} :
           /\ Words < MaxWords /\ \A g \in ToSet(FlattenSeq(wanted)) : g \notin Rare
           /\ Word(f, typed)
    \/ EndOfText
    \/ \E f \in Rare : f.op = "AccountId" /\ create_default(f.args[1])
    \/ NewText

-----------------------------------------------------------------------------
\* The amounts whose own text is not read back: negative ones as long as the
\* decimals, which get their sign behind the dot, and those that are too long.
Unreadable(a) ==
    /\ a < 0
    /\ \/ Len(Decimal(a)) = MAX_PRECISION
       \/ Len(to_string(a)) + 1 + SYMBOL_LEN > MAX_STR_LEN

\* The engine runs what was typed: the pointer of every function of a built
\* script hits that function's definition, not another one's and not a byte
\* outside the script, and reading from there yields the frames of the text,
\* the values of their printed arguments included.  A text whose arguments
\* are what the wallet prints is refused for its size, its operations or an
\* amount in Unreadable only, and only too many functions make it panic; any
\* other text panics where an address is cut inside a character besides.
ScriptReadsBack ==
    /\ state = <<"built">> =>
           \A i \in DOMAIN wanted :
               LET ptr == get_fn_ptr(script, i - 1)
               IN  /\ ptr # <<>>
                   /\ ReadFrames(script, ptr[1]) = FlattenSeq(SubSeq(wanted, i, Len(wanted)))
    /\ state[1] \in {"WifError", "AssetParseError", "Other"} /\ state[3] = "printed" =>
           state[2].op = "Asset" /\ Unreadable(state[2].args[1])
    /\ state[1] = "panic" =>
           Len(wanted) >= U8 - 1 \/ (state # <<"panic">> /\ state[3] = "garbled")
=============================================================================
