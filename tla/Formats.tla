------------------------------ MODULE Formats ------------------------------
(***************************************************************************)
(* The byte formats of transactions, accounts, receipts, blocks and        *)
(* network messages.                                                       *)
(*                                                                         *)
(* Sources: serializer.rs, tx/mod.rs, account.rs, blockchain/receipt.rs,   *)
(* blockchain/block.rs, blockchain/error.rs, net/mod.rs and net/rpc.rs,    *)
(* all of crates/godcoin, and the two ends of a message's way: the node's  *)
(* in crates/server, client/mod.rs, the wallet's in crates/cli,            *)
(* wallet/cmd/util.rs.                                                     *)
(*                                                                         *)
(* Every serialize of the code is an operator from a value to its bytes,   *)
(* every deserialize one from a stream of bytes to a value and the bytes   *)
(* behind it, or to an error.  A struct is a record of its fields, an enum *)
(* a record of its variant's name and what the variant holds, << >> if     *)
(* that is nothing; an Option is a sequence of at most one element.        *)
(*                                                                         *)
(* Widths are scaled: a byte has BYTE values, a u16, u32 or u64 takes two  *)
(* bytes, a key, a signature and a digest one byte each, and an amount has *)
(* I64 values.                                                             *)
(***************************************************************************)
EXTENDS Integers, Sequences, FiniteSets, SequencesExt

CONSTANTS
    BYTE,         \* number of values of a byte; a power of two
    I64,          \* number of values of an amount; a power of two
    ROOM,         \* the receipts that there is memory for
    CHAIN_ID,     \* the two bytes that separate the test network from the main one
    Messages,     \* the messages the peers send
    Garbage       \* the bytes a damaged message may hold

\* As in the code, where 2^64 is not a power of 2^7, the last group of bits of
\* a variable-length integer is a partial one.
ASSUME WidthAssumption ==
    /\ BYTE \in {128, 256}
    /\ I64 = (BYTE \div 2) * (BYTE \div 2) * 2
    /\ ROOM \in Nat
    /\ CHAIN_ID \in 0..(BYTE * BYTE - 1)

INT == BYTE * BYTE          \* number of values of a u16, u32 or u64
HALF == BYTE \div 2         \* number of values of the payload of a varint byte

Bytes == 0..(BYTE - 1)
Ints == 0..(INT - 1)
Amounts == (-(I64 \div 2))..((I64 \div 2) - 1)
Streams == Seq(Bytes)

-----------------------------------------------------------------------------
(* serializer.rs.                                                          *)

zigzag_encode(n) == IF n >= 0 THEN 2 * n ELSE -2 * n - 1
zigzag_decode(u) == IF u % 2 = 0 THEN u \div 2 ELSE -((u + 1) \div 2)

\* push_var_i64: groups of bits, the lowest first, all but the last one marked.
\* An integer has three groups at most.
push_asset(amount) ==
    LET n == zigzag_encode(amount)
    IN  IF n < HALF THEN <<n>>
        ELSE IF n < HALF * HALF THEN <<HALF + (n % HALF), n \div HALF>>
        ELSE <<HALF + (n % HALF), HALF + ((n \div HALF) % HALF), n \div (HALF * HALF)>>

PushInt(n) == <<(n \div BYTE) % BYTE, n % BYTE>>

push_bytes(v) == PushInt(Len(v)) \o v

\* What a reader returns: a value and the bytes behind it, or an error.
Ok(val, rest) == [ok |-> TRUE, val |-> val, rest |-> rest]
Fail == [ok |-> FALSE]

TakeByte(s) == IF s = <<>> THEN Fail ELSE Ok(Head(s), Tail(s))

TakeInt(s) ==
    IF Len(s) < 2 THEN Fail ELSE Ok(s[1] * BYTE + s[2], SubSeq(s, 3, Len(s)))

\* A bool is written as a byte; every byte but zero is read as TRUE.
PutFlag(flag) == <<IF flag THEN 1 ELSE 0>>

TakeFlag(s) ==
    LET byte == TakeByte(s) IN IF byte.ok THEN Ok(byte.val # 0, byte.rest) ELSE Fail

\* take_var_i64: the first byte without a mark ends the integer.  Bits shifted
\* out of it are lost, a group that would be shifted out as a whole is an error.
take_asset(s) ==
    LET group(i) == s[i] % HALF
        ends(i) == Len(s) >= i /\ s[i] < HALF /\ \A j \in 1..(i - 1) : s[j] >= HALF
        result(i, n) == Ok(zigzag_decode(n % I64), SubSeq(s, i + 1, Len(s)))
    IN  CASE ends(1) -> result(1, group(1))
          [] ends(2) -> result(2, group(1) + group(2) * HALF)
          [] ends(3) -> result(3, group(1) + group(2) * HALF + group(3) * HALF * HALF)
          [] OTHER -> Fail

\* take_bytes: a length, then as many bytes.
TakeBytes(s) ==
    LET len == TakeInt(s)
    IN  IF len.ok /\ Len(len.rest) >= len.val
        THEN Ok(SubSeq(len.rest, 1, len.val), SubSeq(len.rest, len.val + 1, Len(len.rest)))
        ELSE Fail

\* Stands for String::from_utf8: the scaled bytes of a text are the lower half.
IsUtf8(bytes) == \A i \in DOMAIN bytes : bytes[i] < HALF

push_sig_pair(pair) == <<pair.pub_key>> \o <<pair.signature>>

take_sig_pair(s) ==
    LET pub_key == TakeByte(s)
        signature == TakeByte(pub_key.rest)
    IN  IF pub_key.ok /\ signature.ok
        THEN Ok([pub_key |-> pub_key.val, signature |-> signature.val], signature.rest)
        ELSE Fail

-----------------------------------------------------------------------------
(* What the formats have in common: counted lists, options and the tags of *)
(* enums.                                                                  *)

\* A count that does not fit the width in front of its list is cut to its low
\* bits; all elements are written.
PutCount(width, n) == IF width = BYTE THEN <<n % BYTE>> ELSE PushInt(n)
TakeCount(width, s) == IF width = BYTE THEN TakeByte(s) ELSE TakeInt(s)

Joined(pieces) == FoldLeft(\o, <<>>, pieces)

PutList(width, pieces) == PutCount(width, Len(pieces)) \o Joined(pieces)

\* One turn of the loop that reads a list, and the loop.  Every element takes a
\* byte at least, so that a count above the bytes left runs into their end.  The
\* room made for the elements beforehand matters for a block: see NoRoom.
TakeNext(take, list, i) ==
    IF list.ok
    THEN LET next == take[list.rest]
         IN  IF next.ok THEN Ok(Append(list.val, next.val), next.rest) ELSE Fail
    ELSE Fail

TakeAll(take, n, s) ==
    IF n > Len(s) THEN Fail
    ELSE FoldLeft(LAMBDA list, i : TakeNext(take, list, i), Ok(<<>>, s), [i \in 1..n |-> i])

TakeList(width, take, s) ==
    LET count == TakeCount(width, s)
    IN  IF count.ok THEN TakeAll(take, count.val, count.rest) ELSE Fail

PutOption(option, bytes) == IF option = <<>> THEN <<0>> ELSE <<1>> \o bytes

TakeOption(take, s) ==
    LET tag == TakeByte(s)
        some == take[tag.rest]
    IN  IF tag.ok /\ tag.val = 0 THEN Ok(<<>>, tag.rest)
        ELSE IF tag.ok /\ tag.val = 1 /\ some.ok THEN Ok(<<some.val>>, some.rest)
        ELSE Fail

\* The variant that a tag selects, and the enum of a variant and what it holds.
TakeTag(codes, s) ==
    LET tag == TakeByte(s)
    IN  IF tag.ok /\ \E t \in DOMAIN codes : codes[t] = tag.val
        THEN Ok(CHOOSE t \in DOMAIN codes : codes[t] = tag.val, tag.rest)
        ELSE Fail

Variant(tag, held) ==
    IF tag.ok /\ held.ok THEN Ok([type |-> tag.val, val |-> held.val], held.rest) ELSE Fail

Nothing(s) == Ok(<<>>, s)

-----------------------------------------------------------------------------
(* account.rs.                                                             *)

Permissions_serialize(p) ==
    <<p.threshold>> \o PutList(BYTE, [i \in DOMAIN p.keys |-> <<p.keys[i]>>])

Permissions_deserialize(s) ==
    LET threshold == TakeByte(s)
        keys == TakeList(BYTE, [t \in Streams |-> TakeByte(t)], threshold.rest)
    IN  IF threshold.ok /\ keys.ok
        THEN Ok([threshold |-> threshold.val, keys |-> keys.val], keys.rest)
        ELSE Fail

Account_serialize(a) ==
    PushInt(a.id) \o push_asset(a.balance) \o push_bytes(a.script)
        \o Permissions_serialize(a.permissions) \o PutFlag(a.destroyed)

Account_deserialize(s) ==
    LET id == TakeInt(s)
        balance == take_asset(id.rest)
        code == TakeBytes(balance.rest)
        permissions == Permissions_deserialize(code.rest)
        destroyed == TakeFlag(permissions.rest)
    IN  IF id.ok /\ balance.ok /\ code.ok /\ permissions.ok /\ destroyed.ok
        THEN Ok([id |-> id.val, balance |-> balance.val, script |-> code.val,
                 permissions |-> permissions.val, destroyed |-> destroyed.val],
                destroyed.rest)
        ELSE Fail

-----------------------------------------------------------------------------
(* tx/mod.rs.  A transaction is its base, the fields of Tx, and its        *)
(* variant.                                                                *)

TxType == [OwnerTx |-> 0, MintTx |-> 1, CreateAccountTx |-> 2, UpdateAccountTx |-> 3,
           TransferTx |-> 4]

serialize_header(base) == PushInt(base.nonce) \o PushInt(base.expiry) \o push_asset(base.fee)

\* The header behind its type.  The signatures come last.
deserialize_header(s) ==
    LET nonce == TakeInt(s)
        expiry == TakeInt(nonce.rest)
        fee == take_asset(expiry.rest)
    IN  IF nonce.ok /\ expiry.ok /\ fee.ok
        THEN Ok([nonce |-> nonce.val, expiry |-> expiry.val, fee |-> fee.val], fee.rest)
        ELSE Fail

OwnerTx_serialize(tx) == <<tx.minter>> \o PushInt(tx.wallet)

OwnerTx_deserialize(s) ==
    LET minter == TakeByte(s)
        wallet == TakeInt(minter.rest)
    IN  IF minter.ok /\ wallet.ok
        THEN Ok([minter |-> minter.val, wallet |-> wallet.val], wallet.rest)
        ELSE Fail

MintTx_serialize(tx) ==
    PushInt(tx.to) \o push_asset(tx.amount) \o push_bytes(tx.attachment)
        \o push_bytes(tx.attachment_name)

MintTx_deserialize(s) ==
    LET to == TakeInt(s)
        amount == take_asset(to.rest)
        attachment == TakeBytes(amount.rest)
        name == TakeBytes(attachment.rest)
    IN  IF to.ok /\ amount.ok /\ attachment.ok /\ name.ok /\ IsUtf8(name.val)
        THEN Ok([to |-> to.val, amount |-> amount.val, attachment |-> attachment.val,
                 attachment_name |-> name.val], name.rest)
        ELSE Fail

CreateAccountTx_serialize(tx) == PushInt(tx.creator) \o Account_serialize(tx.account)

TakeCreated(creator, account) ==
    IF creator.ok /\ account.ok
    THEN Ok([creator |-> creator.val, account |-> account.val], account.rest)
    ELSE Fail

CreateAccountTx_deserialize(s) ==
    LET creator == TakeInt(s) IN TakeCreated(creator, Account_deserialize(creator.rest))

UpdateAccountTx_serialize(tx) ==
    PushInt(tx.account_id) \o PutOption(tx.new_script, push_bytes(tx.new_script[1]))
        \o PutOption(tx.new_permissions, Permissions_serialize(tx.new_permissions[1]))

UpdateAccountTx_deserialize(s) ==
    LET id == TakeInt(s)
        code == TakeOption([t \in Streams |-> TakeBytes(t)], id.rest)
        perms == TakeOption([t \in Streams |-> Permissions_deserialize(t)], code.rest)
    IN  IF id.ok /\ code.ok /\ perms.ok
        THEN Ok([account_id |-> id.val, new_script |-> code.val,
                 new_permissions |-> perms.val], perms.rest)
        ELSE Fail

TransferTx_serialize(tx) ==
    PushInt(tx.from) \o <<tx.call_fn>> \o push_bytes(tx.args) \o push_asset(tx.amount)
        \o push_bytes(tx.memo)

\* Mutant: the memo is read where the arguments are.
TransferTx_MemoFirst(s) ==
    LET from == TakeInt(s)
        call_fn == TakeByte(from.rest)
        memo == TakeBytes(call_fn.rest)
        amount == take_asset(memo.rest)
        args == TakeBytes(amount.rest)
    IN  IF from.ok /\ call_fn.ok /\ memo.ok /\ amount.ok /\ args.ok
        THEN Ok([from |-> from.val, call_fn |-> call_fn.val, args |-> args.val,
                 amount |-> amount.val, memo |-> memo.val], args.rest)
        ELSE Fail

TransferTx_deserialize(s) ==
    LET from == TakeInt(s)
        call_fn == TakeByte(from.rest)
        args == TakeBytes(call_fn.rest)
        amount == take_asset(args.rest)
        memo == TakeBytes(amount.rest)
    IN  IF from.ok /\ call_fn.ok /\ args.ok /\ amount.ok /\ memo.ok
        THEN Ok([from |-> from.val, call_fn |-> call_fn.val, args |-> args.val,
                 amount |-> amount.val, memo |-> memo.val], memo.rest)
        ELSE Fail

\* The version in front of transactions and block headers.
Version == 0

SerializeTx(type, tx) ==
    CASE type = "OwnerTx" -> OwnerTx_serialize(tx)
      [] type = "MintTx" -> MintTx_serialize(tx)
      [] type = "CreateAccountTx" -> CreateAccountTx_serialize(tx)
      [] type = "UpdateAccountTx" -> UpdateAccountTx_serialize(tx)
      [] type = "TransferTx" -> TransferTx_serialize(tx)

DeserializeTx(type, s) ==
    CASE type = "OwnerTx" -> OwnerTx_deserialize(s)
      [] type = "MintTx" -> MintTx_deserialize(s)
      [] type = "CreateAccountTx" -> CreateAccountTx_deserialize(s)
      [] type = "UpdateAccountTx" -> UpdateAccountTx_deserialize(s)
      [] type = "TransferTx" -> TransferTx_deserialize(s)

serialize_without_sigs(tx) ==
    PushInt(Version) \o <<TxType[tx.type]>> \o serialize_header(tx.base)
        \o SerializeTx(tx.type, tx.val)

TxVariant_serialize(tx) ==
    serialize_without_sigs(tx)
        \o PutList(BYTE, [i \in DOMAIN tx.sigs |-> push_sig_pair(tx.sigs[i])])

TakeSigned(version, tag, base, tx) ==
    LET sigs == TakeList(BYTE, [t \in Streams |-> take_sig_pair(t)], tx.rest)
    IN  IF version.ok /\ version.val = Version /\ tag.ok /\ base.ok /\ tx.ok /\ sigs.ok
        THEN Ok([type |-> tag.val, base |-> base.val, val |-> tx.val, sigs |-> sigs.val],
                sigs.rest)
        ELSE Fail

TxVariant_deserialize(s) ==
    LET version == TakeInt(s)
        tag == TakeTag(TxType, version.rest)
        base == deserialize_header(tag.rest)
    IN  TakeSigned(version, tag, base, DeserializeTx(tag.val, base.rest))

-----------------------------------------------------------------------------
(* blockchain/receipt.rs and blockchain/block.rs.                          *)

LogEntry == [Transfer |-> 0, Destroy |-> 1]

LogEntry_serialize(e) ==
    <<LogEntry[e.type]>> \o
        CASE e.type = "Transfer" -> PushInt(e.val.account) \o push_asset(e.val.amount)
          [] e.type = "Destroy" -> PushInt(e.val)

TakeTransfer(s) ==
    LET account == TakeInt(s)
        amount == take_asset(account.rest)
    IN  IF account.ok /\ amount.ok
        THEN Ok([account |-> account.val, amount |-> amount.val], amount.rest)
        ELSE Fail

LogEntry_deserialize(s) ==
    LET tag == TakeTag(LogEntry, s)
    IN  Variant(tag, CASE tag.val = "Transfer" -> TakeTransfer(tag.rest)
                       [] tag.val = "Destroy" -> TakeInt(tag.rest))

Receipt_serialize(r) ==
    TxVariant_serialize(r.tx)
        \o PutList(INT, [i \in DOMAIN r.log |-> LogEntry_serialize(r.log[i])])

TakeLogged(tx) ==
    LET log == TakeList(INT, [t \in Streams |-> LogEntry_deserialize(t)], tx.rest)
    IN  IF tx.ok /\ log.ok THEN Ok([tx |-> tx.val, log |-> log.val], log.rest) ELSE Fail

Receipt_deserialize(s) == TakeLogged(TxVariant_deserialize(s))

BlockHeader_serialize(h) ==
    PushInt(Version) \o <<h.previous_hash>> \o PushInt(h.height) \o PushInt(h.timestamp)
        \o <<h.receipt_root>>

BlockHeader_deserialize(s) ==
    LET version == TakeInt(s)
        previous_hash == TakeByte(version.rest)
        height == TakeInt(previous_hash.rest)
        timestamp == TakeInt(height.rest)
        receipt_root == TakeByte(timestamp.rest)
    IN  IF /\ version.ok /\ version.val = Version
           /\ previous_hash.ok /\ height.ok /\ timestamp.ok /\ receipt_root.ok
        THEN Ok([previous_hash |-> previous_hash.val, height |-> height.val,
                 timestamp |-> timestamp.val, receipt_root |-> receipt_root.val],
                receipt_root.rest)
        ELSE Fail

Block_serialize(b) ==
    BlockHeader_serialize(b.header) \o push_sig_pair(b.signer) \o push_asset(b.rewards)
        \o PutList(INT, [i \in DOMAIN b.receipts |-> Receipt_serialize(b.receipts[i])])

TakeSealed(header, signer, rewards, receipts) ==
    IF header.ok /\ signer.ok /\ rewards.ok /\ receipts.ok
    THEN Ok([header |-> header.val, signer |-> signer.val, rewards |-> rewards.val,
             receipts |-> receipts.val], receipts.rest)
    ELSE Fail

Block_deserialize(s) ==
    LET header == BlockHeader_deserialize(s)
        signer == take_sig_pair(header.rest)
        rewards == take_asset(signer.rest)
    IN  TakeSealed(header, signer, rewards,
            TakeList(INT, [t \in Streams |-> Receipt_deserialize(t)], rewards.rest))

-----------------------------------------------------------------------------
(* blockchain/error.rs, script/error.rs and net/mod.rs.  Here writers and  *)
(* readers name the codes of the variants separately.                      *)

EvalErrKind == 0..14

TxErrCodesWritten ==
    [ScriptEval |-> 0, AccountNotFound |-> 1, AccountAlreadyExists |-> 2,
     InvalidAccountPermissions |-> 3, Arithmetic |-> 4, InvalidAmount |-> 5,
     InvalidFeeAmount |-> 6, TooManySignatures |-> 7, TxTooLarge |-> 8, TxProhibited |-> 9,
     TxExpired |-> 10, TxDupe |-> 11]
TxErrCodesRead ==
    [ScriptEval |-> 0, AccountNotFound |-> 1, AccountAlreadyExists |-> 2,
     InvalidAccountPermissions |-> 3, Arithmetic |-> 4, InvalidAmount |-> 5,
     InvalidFeeAmount |-> 6, TooManySignatures |-> 7, TxTooLarge |-> 8, TxProhibited |-> 9,
     TxExpired |-> 10, TxDupe |-> 11]

TxErr_serialize(e) ==
    <<TxErrCodesWritten[e.type]>> \o
        IF e.type = "ScriptEval" THEN PushInt(e.val.pos) \o <<e.val.kind>> ELSE <<>>

TakeEvalErr(s) ==
    LET pos == TakeInt(s)
        kind == TakeByte(pos.rest)
    IN  IF pos.ok /\ kind.ok /\ kind.val \in EvalErrKind
        THEN Ok([pos |-> pos.val, kind |-> kind.val], kind.rest)
        ELSE Fail

TxErr_deserialize(s) ==
    LET tag == TakeTag(TxErrCodesRead, s)
    IN  Variant(tag, IF tag.val = "ScriptEval" THEN TakeEvalErr(tag.rest) ELSE Nothing(tag.rest))

ErrorCodesWritten ==
    [Io |-> 0, BytesRemaining |-> 1, InvalidRequest |-> 2, InvalidHeight |-> 3,
     TxValidation |-> 4]
ErrorCodesRead ==
    [Io |-> 0, BytesRemaining |-> 1, InvalidRequest |-> 2, InvalidHeight |-> 3,
     TxValidation |-> 4]

ErrorKind_serialize(e) ==
    <<ErrorCodesWritten[e.type]>> \o
        IF e.type = "TxValidation" THEN TxErr_serialize(e.val) ELSE <<>>

ErrorKind_deserialize(s) ==
    LET tag == TakeTag(ErrorCodesRead, s)
    IN  Variant(tag, IF tag.val = "TxValidation" THEN TxErr_deserialize(tag.rest)
                     ELSE Nothing(tag.rest))

-----------------------------------------------------------------------------
(* net/rpc.rs.                                                             *)

RpcType ==
    [Broadcast |-> 16, SetBlockFilter |-> 17, ClearBlockFilter |-> 18, Subscribe |-> 19,
     Unsubscribe |-> 20, GetProperties |-> 32, GetBlock |-> 33, GetFullBlock |-> 34,
     GetBlockRange |-> 35, GetAccountInfo |-> 36]

\* A filter is a BTreeSet: its ids are written in ascending order.
Ascending(filter) ==
    [i \in 1..Cardinality(filter) |->
        CHOOSE id \in filter : Cardinality({lower \in filter : lower < id}) = i - 1]

PutFilter(filter) ==
    LET ids == Ascending(filter)
    IN  PutList(BYTE, [i \in DOMAIN ids |-> PushInt(ids[i])])

TakeFilter(s) ==
    LET ids == TakeList(BYTE, [t \in Streams |-> TakeInt(t)], s)
    IN  IF ids.ok THEN Ok(ToSet(ids.val), ids.rest) ELSE Fail

Request_serialize(r) ==
    <<RpcType[r.type]>> \o
        CASE r.type = "Broadcast" -> TxVariant_serialize(r.val)
          [] r.type = "SetBlockFilter" -> PutFilter(r.val)
          [] r.type \in {"GetBlock", "GetFullBlock", "GetAccountInfo"} -> PushInt(r.val)
          [] r.type = "GetBlockRange" -> PushInt(r.val.min_height) \o PushInt(r.val.max_height)
          [] OTHER -> <<>>

TakeHeights(s) ==
    LET min_height == TakeInt(s)
        max_height == TakeInt(min_height.rest)
    IN  IF min_height.ok /\ max_height.ok
        THEN Ok([min_height |-> min_height.val, max_height |-> max_height.val],
                max_height.rest)
        ELSE Fail

Request_deserialize(s) ==
    LET tag == TakeTag(RpcType, s)
    IN  Variant(tag,
            CASE tag.val = "Broadcast" -> TxVariant_deserialize(tag.rest)
              [] tag.val = "SetBlockFilter" -> TakeFilter(tag.rest)
              [] tag.val \in {"GetBlock", "GetFullBlock", "GetAccountInfo"} -> TakeInt(tag.rest)
              [] tag.val = "GetBlockRange" -> TakeHeights(tag.rest)
              [] OTHER -> Nothing(tag.rest))

FilteredBlock == [Header |-> 0, Block |-> 1]

FilteredBlock_serialize(b) ==
    <<FilteredBlock[b.type]>> \o
        CASE b.type = "Header" -> BlockHeader_serialize(b.val.header) \o push_sig_pair(b.val.signer)
          [] b.type = "Block" -> Block_serialize(b.val)

TakeSignedHeader(s) ==
    LET header == BlockHeader_deserialize(s)
        signer == take_sig_pair(header.rest)
    IN  IF header.ok /\ signer.ok
        THEN Ok([header |-> header.val, signer |-> signer.val], signer.rest)
        ELSE Fail

FilteredBlock_deserialize(s) ==
    LET tag == TakeTag(FilteredBlock, s)
    IN  Variant(tag, CASE tag.val = "Header" -> TakeSignedHeader(tag.rest)
                       [] tag.val = "Block" -> Block_deserialize(tag.rest))

PutProperties(p) ==
    PushInt(p.height) \o TxVariant_serialize(p.owner) \o push_asset(p.network_fee)
        \o push_asset(p.token_supply)

\* Only an owner transaction is taken for the owner.
TakeOwned(height, owner) ==
    LET network_fee == take_asset(owner.rest)
        token_supply == take_asset(network_fee.rest)
    IN  IF /\ height.ok /\ owner.ok /\ owner.val.type = "OwnerTx"
           /\ network_fee.ok /\ token_supply.ok
        THEN Ok([height |-> height.val, owner |-> owner.val, network_fee |-> network_fee.val,
                 token_supply |-> token_supply.val], token_supply.rest)
        ELSE Fail

TakeProperties(s) ==
    LET height == TakeInt(s) IN TakeOwned(height, TxVariant_deserialize(height.rest))

PutAccountInfo(info) ==
    Account_serialize(info.account) \o push_asset(info.net_fee) \o push_asset(info.account_fee)

TakeCharged(account) ==
    LET net_fee == take_asset(account.rest)
        account_fee == take_asset(net_fee.rest)
    IN  IF account.ok /\ net_fee.ok /\ account_fee.ok
        THEN Ok([account |-> account.val, net_fee |-> net_fee.val,
                 account_fee |-> account_fee.val], account_fee.rest)
        ELSE Fail

TakeAccountInfo(s) == TakeCharged(Account_deserialize(s))

Response_serialize(r) ==
    <<RpcType[r.type]>> \o
        CASE r.type = "GetProperties" -> PutProperties(r.val)
          [] r.type = "GetBlock" -> FilteredBlock_serialize(r.val)
          [] r.type = "GetFullBlock" -> Block_serialize(r.val)
          [] r.type = "GetAccountInfo" -> PutAccountInfo(r.val)
          [] OTHER -> <<>>

Response_deserialize(s) ==
    LET tag == TakeTag(RpcType, s)
    IN  Variant(tag,
            CASE tag.val = "GetProperties" -> TakeProperties(tag.rest)
              [] tag.val = "GetBlock" -> FilteredBlock_deserialize(tag.rest)
              [] tag.val = "GetFullBlock" -> Block_deserialize(tag.rest)
              [] tag.val = "GetAccountInfo" -> TakeAccountInfo(tag.rest)
              [] OTHER -> Nothing(tag.rest))

-----------------------------------------------------------------------------
(* net/mod.rs.                                                             *)

BodyType == [Error |-> 0, Request |-> 1, Response |-> 2, Ping |-> 3, Pong |-> 4]

Body_serialize(b) ==
    <<BodyType[b.type]>> \o
        CASE b.type = "Error" -> ErrorKind_serialize(b.val)
          [] b.type = "Request" -> Request_serialize(b.val)
          [] b.type = "Response" -> Response_serialize(b.val)
          [] b.type \in {"Ping", "Pong"} -> PushInt(b.val)

Body_deserialize(s) ==
    LET tag == TakeTag(BodyType, s)
    IN  Variant(tag, CASE tag.val = "Error" -> ErrorKind_deserialize(tag.rest)
                       [] tag.val = "Request" -> Request_deserialize(tag.rest)
                       [] tag.val = "Response" -> Response_deserialize(tag.rest)
                       [] tag.val \in {"Ping", "Pong"} -> TakeInt(tag.rest))

Msg_serialize(m) == PushInt(m.id) \o Body_serialize(m.body)

TakeAddressed(id, body) ==
    IF id.ok /\ body.ok THEN Ok([id |-> id.val, body |-> body.val], body.rest) ELSE Fail

Msg_deserialize(s) ==
    LET id == TakeInt(s) IN TakeAddressed(id, Body_deserialize(id.rest))

-----------------------------------------------------------------------------
(* What is hashed.  The digest stands for its pre-image.                   *)

\* Mutant: the header of the transaction is not part of its id.
TxidOfBody(tx) ==
    PushInt(CHAIN_ID) \o PushInt(Version) \o <<TxType[tx.type]>> \o SerializeTx(tx.type, tx.val)

calc_txid(tx) == PushInt(CHAIN_ID) \o serialize_without_sigs(tx)

calc_receipt_root(receipts) ==
    Joined([i \in DOMAIN receipts |-> Receipt_serialize(receipts[i])])

calc_header_hash(header) == BlockHeader_serialize(header)

-----------------------------------------------------------------------------
(* The values that are sent: all counts fit.                               *)

List(S, width) == {list \in Seq(S) : Len(list) < width}
Option(S) == {option \in Seq(S) : Len(option) < 2}
ByteString == List(Bytes, INT)

SigPair == [pub_key : Bytes, signature : Bytes]
Permissions == [threshold : Bytes, keys : List(Bytes, BYTE)]
Account ==
    [id : Ints, balance : Amounts, script : ByteString, permissions : Permissions,
     destroyed : BOOLEAN]

TxBase == [nonce : Ints, expiry : Ints, fee : Amounts]
OwnerTx == [minter : Bytes, wallet : Ints]
MintTx ==
    [to : Ints, amount : Amounts, attachment : ByteString,
     attachment_name : {bytes \in ByteString : IsUtf8(bytes)}]
CreateAccountTx == [creator : Ints, account : Account]
UpdateAccountTx ==
    [account_id : Ints, new_script : Option(ByteString), new_permissions : Option(Permissions)]
TransferTx ==
    [from : Ints, call_fn : Bytes, args : ByteString, amount : Amounts, memo : ByteString]

TxOf(type, val, sigs) == [type : {type}, base : TxBase, val : val, sigs : sigs]
TxSignedBy(sigs) ==
    TxOf("OwnerTx", OwnerTx, sigs) \cup TxOf("MintTx", MintTx, sigs)
        \cup TxOf("CreateAccountTx", CreateAccountTx, sigs)
        \cup TxOf("UpdateAccountTx", UpdateAccountTx, sigs)
        \cup TxOf("TransferTx", TransferTx, sigs)
Tx == TxSignedBy(List(SigPair, BYTE))

EnumOf(types, val) == [type : types, val : val]

LogEntries ==
    EnumOf({"Transfer"}, [account : Ints, amount : Amounts]) \cup EnumOf({"Destroy"}, Ints)
Receipt == [tx : Tx, log : List(LogEntries, INT)]
BlockHeader ==
    [previous_hash : Bytes, height : Ints, timestamp : Ints, receipt_root : Bytes]
Block ==
    [header : BlockHeader, signer : SigPair, rewards : Amounts, receipts : List(Receipt, INT)]

TxErr ==
    EnumOf({"ScriptEval"}, [pos : Ints, kind : EvalErrKind])
        \cup EnumOf(DOMAIN TxErrCodesWritten \ {"ScriptEval"}, {<<>>})
ErrorKind ==
    EnumOf({"TxValidation"}, TxErr)
        \cup EnumOf(DOMAIN ErrorCodesWritten \ {"TxValidation"}, {<<>>})

Filter == {filter \in SUBSET Ints : Cardinality(filter) < BYTE}

Request ==
    EnumOf({"Broadcast"}, Tx) \cup EnumOf({"SetBlockFilter"}, Filter)
        \cup EnumOf({"GetBlock", "GetFullBlock", "GetAccountInfo"}, Ints)
        \cup EnumOf({"GetBlockRange"}, [min_height : Ints, max_height : Ints])
        \cup EnumOf({"ClearBlockFilter", "Subscribe", "Unsubscribe", "GetProperties"}, {<<>>})

FilteredBlocks ==
    EnumOf({"Header"}, [header : BlockHeader, signer : SigPair]) \cup EnumOf({"Block"}, Block)

Properties ==
    [height : Ints, owner : TxOf("OwnerTx", OwnerTx, List(SigPair, BYTE)),
     network_fee : Amounts, token_supply : Amounts]
AccountInfo == [account : Account, net_fee : Amounts, account_fee : Amounts]

Response ==
    EnumOf({"GetProperties"}, Properties) \cup EnumOf({"GetBlock"}, FilteredBlocks)
        \cup EnumOf({"GetFullBlock"}, Block) \cup EnumOf({"GetAccountInfo"}, AccountInfo)
        \cup EnumOf({"Broadcast", "SetBlockFilter", "ClearBlockFilter", "Subscribe",
                     "Unsubscribe", "GetBlockRange"}, {<<>>})

Body ==
    EnumOf({"Error"}, ErrorKind) \cup EnumOf({"Request"}, Request)
        \cup EnumOf({"Response"}, Response) \cup EnumOf({"Ping", "Pong"}, Ints)

Msg == [id : Ints, body : Body]

\* The requests with more elements than the count in front of them can tell: a
\* transaction signed too often, a filter with too many ids.  A new account
\* with as many keys, which the wallet does not refuse, is not among Messages:
\* what its bytes are read as depends on the keys.
OversizedRequest ==
    EnumOf({"Broadcast"}, TxSignedBy({sigs \in Seq(SigPair) : Len(sigs) >= BYTE}))
        \cup EnumOf({"SetBlockFilter"},
                    {filter \in SUBSET Ints : Cardinality(filter) >= BYTE})

OversizedMsg == [id : Ints, body : EnumOf({"Request"}, OversizedRequest)]

\* The blocks that a message holds.
BlocksIn(m) ==
    LET r == m.body.val
    IN  IF m.body.type # "Response" THEN {}
        ELSE IF r.type = "GetFullBlock" THEN {r.val}
        ELSE IF r.type = "GetBlock" /\ r.val.type = "Block" THEN {r.val.val}
        ELSE {}

ASSUME MessagesAssumption ==
    /\ Messages \subseteq Msg \cup OversizedMsg
    /\ \A m \in Messages : \A b \in BlocksIn(m) : Len(b.receipts) <= ROOM
    /\ Garbage \subseteq Bytes

-----------------------------------------------------------------------------
(* A message on its way from one peer to the other.                        *)

VARIABLES
    sent,      \* << >>, or the message under way
    wire,      \* its bytes
    fault,     \* what happened to them
    got        \* << >>, or what the receiver made of them

fvars == <<sent, wire, fault, got>>

Serialize(m) ==
    /\ sent = <<>>
    /\ sent' = <<m>>
    /\ wire' = Msg_serialize(m)
    /\ UNCHANGED <<fault, got>>

Untouched == sent # <<>> /\ got = <<>> /\ fault = "none"

Cut(n) ==
    /\ Untouched /\ n < Len(wire)
    /\ wire' = SubSeq(wire, 1, n)
    /\ fault' = "cut"
    /\ UNCHANGED <<sent, got>>

Garble(i, b) ==
    /\ Untouched /\ i <= Len(wire) /\ wire[i] # b
    /\ wire' = [wire EXCEPT ![i] = b]
    /\ fault' = "garbled"
    /\ UNCHANGED <<sent, got>>

Extend(b) ==
    /\ Untouched
    /\ wire' = Append(wire, b)
    /\ fault' = "extended"
    /\ UNCHANGED <<sent, got>>

\* The wallet reads what the node sends: responses, errors and pings.  The node
\* reads the rest.
ReadByWallet(m) == m.body.type \in {"Response", "Error", "Ping"}

\* The block in a message that is being read, up to where it begins.
TakeUpToBlock(s) ==
    LET id == TakeInt(s)
        body == TakeTag(BodyType, id.rest)
        response == TakeTag(RpcType, body.rest)
        block == TakeTag(FilteredBlock, response.rest)
        reached == id.ok /\ body.ok /\ body.val = "Response" /\ response.ok
    IN  IF reached /\ response.val = "GetFullBlock" THEN Nothing(response.rest)
        ELSE IF reached /\ response.val = "GetBlock" /\ block.ok /\ block.val = "Block"
             THEN Nothing(block.rest)
        ELSE Fail

\* The count of a block's receipts, whatever bytes follow it.
TakeReceiptCount(s) ==
    LET header == BlockHeader_deserialize(s)
        signer == take_sig_pair(header.rest)
        rewards == take_asset(signer.rest)
    IN  IF header.ok /\ signer.ok /\ rewards.ok THEN TakeInt(rewards.rest) ELSE Fail

\* Block::deserialize makes room for as many receipts as the count says before
\* it reads the first one.  When there is no memory for them the process aborts.
\* The other counts are of 8 and 16 bits, and there is always room for these.
NoRoom(s) ==
    LET block == TakeUpToBlock(s)
        count == TakeReceiptCount(block.rest)
    IN  block.ok /\ count.ok /\ count.val > ROOM

\* Mutant: the node does not look at the bytes behind a message either.
AcceptedLax(m, msg) == IF ~msg.ok THEN <<"Io">> ELSE <<"Msg", msg.val>>

\* The rule of process_ws_msg that nothing may follow a message.  The wallet's
\* send_req has no such rule.
Accepted(m, msg) ==
    IF ~msg.ok THEN <<"Io">>
    ELSE IF msg.rest # <<>> /\ ~ReadByWallet(m) THEN <<"BytesRemaining", msg.val>>
    ELSE <<"Msg", msg.val>>

Deserialize ==
    /\ sent # <<>> /\ got = <<>>
    /\ got' = IF NoRoom(wire) THEN <<"Aborted">> ELSE Accepted(sent[1], Msg_deserialize(wire))
    /\ UNCHANGED <<sent, wire, fault>>

Done ==
    /\ got # <<>>
    /\ sent' = <<>> /\ wire' = <<>> /\ fault' = "none" /\ got' = <<>>

FormatsInit == sent = <<>> /\ wire = <<>> /\ fault = "none" /\ got = <<>>

FormatsNext ==
    \/ \E m \in Messages : Serialize(m)
    \/ \E n \in 0..(Len(wire) - 1) : Cut(n)
    \/ \E i \in DOMAIN wire, b \in Garbage : Garble(i, b)
    \/ \E b \in Garbage : Extend(b)
    \/ Deserialize
    \/ Done

FormatsSpec == FormatsInit /\ [][FormatsNext]_fvars

-----------------------------------------------------------------------------
(* Properties.                                                             *)

\* A message that arrives as it was sent is read as it was written, whatever
\* its type; one whose count was cut to its low bits is never taken for the
\* shorter message its bytes begin with.
RoundTrip ==
    got # <<>> /\ fault = "none" =>
        IF sent[1] \in OversizedMsg THEN got[1] = "BytesRemaining" ELSE got = <<"Msg", sent[1]>>

\* No part of a message is a message.  With something behind it a message is
\* refused by the node and read as it was sent by the wallet.  Whatever is taken
\* from damaged bytes is a value the program can write and read again, so that
\* the receiver can relay it.  Reading ends the process only if a byte changed
\* on the way.
DamagedInput ==
    got # <<>> /\ fault # "none" =>
        /\ fault = "cut" /\ sent[1] \notin OversizedMsg => got = <<"Io">>
        /\ fault = "extended" =>
              IF ReadByWallet(sent[1]) THEN got = <<"Msg", sent[1]>>
              ELSE got[1] = "BytesRemaining"
        /\ got[1] = "Msg" => Msg_deserialize(Msg_serialize(got[2])) = Ok(got[2], <<>>)
        /\ got[1] = "Aborted" => fault = "garbled"

WithoutSigs(tx) == <<tx.type, tx.base, tx.val>>

\* What is hashed tells transactions, receipts and headers apart: if damage
\* on the way turns a transaction into another one, other than in its
\* signatures, its id is another one too, so that the signatures do not cover
\* it; likewise for the receipts and the header of a block.
HashTellsApart ==
    got # <<>> /\ got[1] = "Msg" /\ got[2].body.type = sent[1].body.type =>
        LET a == sent[1].body
            b == got[2].body
        IN  /\ a.type = "Request" /\ a.val.type = "Broadcast" /\ b.val.type = "Broadcast" =>
                (calc_txid(a.val.val) = calc_txid(b.val.val)
                     <=> WithoutSigs(a.val.val) = WithoutSigs(b.val.val))
            /\ a.type = "Response" /\ a.val.type = "GetFullBlock"
                  /\ b.val.type = "GetFullBlock" =>
                LET x == a.val.val
                    y == b.val.val
                IN  /\ calc_receipt_root(x.receipts) = calc_receipt_root(y.receipts)
                          <=> x.receipts = y.receipts
                    /\ calc_header_hash(x.header) = calc_header_hash(y.header)
                          <=> x.header = y.header
=============================================================================
