------------------------------- MODULE Wallet -------------------------------
(***************************************************************************)
(* The command line wallet: its commands, the database that keeps the      *)
(* accounts under a password, the transaction texts that the user copies   *)
(* from one command to the next, and the exchange with a node.             *)
(*                                                                         *)
(* Sources, all of crates/cli/src/wallet: mod.rs, cmd/mod.rs,              *)
(* cmd/account.rs, cmd/util.rs, db/mod.rs and db/crypto.rs.                *)
(*                                                                         *)
(* The user, the file system and the node are the environment.  The wallet *)
(* handles one line after the other; it may be killed at any moment.       *)
(***************************************************************************)
EXTENDS Integers, Sequences, FiniteSets, SequencesExt, TLC

CONSTANTS
    Passwords,     \* what the user may type as a password
    Secrets,       \* the keys that gen_key may return
    Names,         \* the names the user gives to accounts
    Address,       \* the texts that are addresses, each with its account
    Wifs,          \* the signing keys of every account
    OWNER_WALLET,  \* the account that a mint pays, as the node tells
    SIGS,          \* number of values of the count of signatures
    MAX_ID,        \* the message id that is not for requests
    MaxInbox       \* bound on the messages of a node that wait to be read

ASSUME WalletAssumption ==
    /\ Secrets # {} /\ SIGS \in Nat \ {0} /\ MAX_ID \in Nat \ {0} /\ MaxInbox \in Nat \ {0}
    /\ OWNER_WALLET \in DOMAIN Wifs
    /\ DOMAIN Wifs = {Address[t] : t \in DOMAIN Address}

Ids == DOMAIN Wifs

\* What the user types for an account.  In "garbled" a character lies across
\* the third byte, where from_wif cuts the text: it panics there.
Typed == Names \cup DOMAIN Address \cup {"junk", "garbled"}

-----------------------------------------------------------------------------
(* The grammar of process_line: the arguments a command requires, those it *)
(* has a default for, the optional ones, and which of them require others. *)

Command(required, defaulted, optional, requires) ==
    [required |-> required, defaulted |-> defaulted, optional |-> optional,
     requires |-> requires]

Plain(required) == Command(required, {}, {}, {})

new_grammar == Plain({"password"})
unlock_grammar == Plain({"password"})
gen_keypair_grammar == Plain({})
account_id_to_address_grammar == Plain({"id"})
import_account_grammar == Plain({"name", "account", "wif"})
delete_account_grammar == Plain({"name"})
list_accounts_grammar == Plain({})
get_account_grammar == Plain({"name"})
get_account_info_grammar == Plain({"account"})
build_script_grammar == Plain({"ops"})
args_to_bin_grammar == Plain({"arg"})
check_script_size_grammar == Plain({"hex"})
decode_tx_grammar == Plain({"hex"})
sign_tx_grammar == Plain({"hex", "account"})
unsign_tx_grammar == Plain({"hex", "index"})
broadcast_grammar == Plain({"hex"})
get_properties_grammar == Plain({})
get_block_grammar == Plain({"height"})

build_create_account_tx_grammar ==
    Command({"fee", "creator", "balance", "threshold", "public_wif"}, {"expiry"}, {"script"}, {})

\* Mutant: a threshold may come without keys.
ThresholdWithoutKeys ==
    Command({"fee", "account"}, {"expiry"}, {"script", "threshold", "public_wif"},
            {<<"public_wif", "threshold">>})

build_update_account_tx_grammar ==
    Command({"fee", "account"}, {"expiry"}, {"script", "threshold", "public_wif"},
            {<<"threshold", "public_wif">>, <<"public_wif", "threshold">>})

build_mint_tx_grammar ==
    Command({"amount"}, {"expiry"}, {"attachment_path", "attachment_name"},
            {<<"attachment_path", "attachment_name">>})

build_transfer_tx_grammar ==
    Command({"from_account", "call_fn", "amount", "fee"}, {"expiry"}, {"args", "memo"}, {})

Grammar ==
    [new |-> new_grammar, unlock |-> unlock_grammar, gen_keypair |-> gen_keypair_grammar,
     account_id_to_address |-> account_id_to_address_grammar,
     import_account |-> import_account_grammar, delete_account |-> delete_account_grammar,
     list_accounts |-> list_accounts_grammar, get_account |-> get_account_grammar,
     get_account_info |-> get_account_info_grammar, build_script |-> build_script_grammar,
     args_to_bin |-> args_to_bin_grammar, check_script_size |-> check_script_size_grammar,
     decode_tx |-> decode_tx_grammar, sign_tx |-> sign_tx_grammar,
     unsign_tx |-> unsign_tx_grammar, broadcast |-> broadcast_grammar,
     build_create_account_tx |-> build_create_account_tx_grammar,
     build_update_account_tx |-> build_update_account_tx_grammar,
     build_mint_tx |-> build_mint_tx_grammar,
     build_transfer_tx |-> build_transfer_tx_grammar,
     get_properties |-> get_properties_grammar, get_block |-> get_block_grammar]

Commands == DOMAIN Grammar
ArgsOf(c) == Grammar[c].required \cup Grammar[c].defaulted \cup Grammar[c].optional

\* A line, as clap sees it: a command and the arguments that are there.
Lines == UNION {{[cmd |-> c, given |-> g] : g \in SUBSET ArgsOf(c)} : c \in Commands}

Accepts(line) ==
    /\ Grammar[line.cmd].required \subseteq line.given
    /\ \A r \in Grammar[line.cmd].requires : r[1] \in line.given => r[2] \in line.given

\* The arguments whose value the handler unwraps.  What is not listed is asked
\* for with if let, match or unwrap_or.
Unwraps(line) ==
    LET given == line.given
    IN  CASE line.cmd = "build_create_account_tx" ->
                {"creator", "expiry", "fee", "balance", "threshold", "public_wif"}
          [] line.cmd = "build_update_account_tx" ->
                {"expiry", "fee", "account"} \cup
                    (IF "threshold" \in given THEN {"public_wif"} ELSE {})
          [] line.cmd = "build_mint_tx" ->
                {"expiry", "amount"} \cup
                    (IF "attachment_path" \in given THEN {"attachment_name"} ELSE {})
          [] line.cmd = "build_transfer_tx" ->
                {"expiry", "from_account", "call_fn", "amount", "fee"}
          [] OTHER -> Grammar[line.cmd].required

Missing(line) == Unwraps(line) \ (line.given \cup Grammar[line.cmd].defaulted)

AcceptedLines == {line \in Lines : Accepts(line)}

-----------------------------------------------------------------------------
VARIABLES
    init,       \* on disk, PROP_INIT: << >>, or the key sealed under a password
    accounts,   \* on disk: names, ids and keys, sealed under a key
    db,         \* in memory: [state, key]
    prompt,
    req_id,     \* id of the next request
    text,       \* << >>, or the transaction that the user has on the screen
    rpc,        \* << >>, or the request that the wallet waits for
    out,        \* what became of the last line
    owned       \* the accounts imported and not deleted, as the user knows them

wvars == <<init, accounts, db, prompt, req_id, text, rpc, out, owned>>
disk == <<init, accounts, owned>>

Running == db.state # "Down"
Ready == Running /\ rpc = <<>>

Result(kind) == [kind |-> kind, reason |-> <<>>, re |-> <<>>, msg |-> <<>>]

Down == [state |-> "Down", key |-> <<>>]

\* A panic ends the process.
Dies(c, why) ==
    /\ out' = [Result("panic") EXCEPT !.reason = <<c, why>>]
    /\ db' = Down /\ rpc' = <<>> /\ prompt' = "none" /\ req_id' = 0
    /\ UNCHANGED <<disk, text>>

Ends(kind) == out' = Result(kind) /\ UNCHANGED <<disk, db, prompt, req_id, text, rpc>>

-----------------------------------------------------------------------------
(* Db and Wallet::new.                                                     *)

\* Mutant: the state does not depend on what is on disk.
StartForgetful ==
    /\ ~Running
    /\ db' = [state |-> "New", key |-> <<>>]
    /\ prompt' = "new" /\ req_id' = 0 /\ rpc' = <<>> /\ out' = Result("ok")
    /\ UNCHANGED <<disk, text>>

Start ==
    /\ ~Running
    /\ db' = [state |-> IF init # <<>> THEN "Locked" ELSE "New", key |-> <<>>]
    /\ prompt' = (IF db'.state = "Locked" THEN "locked" ELSE "new")
    /\ req_id' = 0 /\ rpc' = <<>> /\ out' = Result("ok")
    /\ UNCHANGED <<disk, text>>

\* Ctrl-C, the end of the input, or the death of the process.
Killed ==
    /\ Running
    /\ db' = Down /\ prompt' = "none" /\ req_id' = 0 /\ rpc' = <<>> /\ out' = Result("ok")
    /\ UNCHANGED <<disk, text>>

\* A key is wrapped as << >> or << k >>; opening with another key fails.
Opens(key, sealed) == key # <<>> /\ key[1] = sealed

\* get_accounts: expects a key, and unwraps what it decrypts.
AccountsPanic ==
    IF db.key = <<>> THEN "wallet not unlocked"
    ELSE IF \E a \in accounts : ~Opens(db.key, a.sealed) THEN "decrypt" ELSE "none"

get_account(name) == {a \in accounts : a.name = name}

\* AccountId::from_wif: the account of an address, if the text is one.
from_wif(t) == IF t \in DOMAIN Address THEN {Address[t]} ELSE {}
OffBoundary(t) == t = "garbled"

\* An account given by its name or, if no account has it, by its address.
Resolve(t) ==
    IF get_account(t) # {} THEN {a.id : a \in get_account(t)} ELSE from_wif(t)

ResolvePanic(t) ==
    IF AccountsPanic # "none" THEN AccountsPanic
    ELSE IF get_account(t) = {} /\ OffBoundary(t) THEN "char boundary" ELSE "none"

\* A line that clap accepts and whose values parse is handed to its handler.
Enters(c) == Ready /\ c \in {line.cmd : line \in AcceptedLines}

\* Every handler may meet a value that it cannot parse, and an accepted line
\* may still lack an argument that the handler unwraps.  A line that clap
\* accepts without a command in it panics.
process_line ==
    /\ Ready
    /\ \/ Dies("process_line", "no command")
       \/ (\E line \in Lines : ~Accepts(line)) /\ Ends("err")
       \/ \E line \in AcceptedLines :
              Missing(line) # {} /\ Dies(line.cmd, "missing argument")
       \/ (\E line \in AcceptedLines : line.given # {}) /\ Ends("err")

\* check_unlocked
Locked(c) == Enters(c) /\ db.state # "Unlocked" /\ Ends("err")
Unlocked(c) == Enters(c) /\ db.state = "Unlocked"

-----------------------------------------------------------------------------
(* cmd/mod.rs and cmd/account.rs: the commands that do not need a node.    *)

\* Random keys do not repeat; which one it is does not matter.
gen_key ==
    CHOOSE k \in Secrets : k \notin {a.sealed : a \in accounts} /\ \A i \in ToSet(init) : i.key # k

lock == db' = [state |-> "Locked", key |-> <<>>]

\* PROP_INIT is one put; the wallet is locked behind it.
set_password(pass) ==
    /\ init' = <<[pass |-> pass, key |-> IF db.state = "New" THEN gen_key ELSE db.key[1]]>>
    /\ lock

create_wallet(pass) ==
    /\ Enters("new")
    /\ \/ db.state # "New" /\ Ends("ok")
       \/ /\ db.state = "New"
          /\ set_password(pass)
          /\ prompt' = "locked" /\ out' = Result("ok")
          /\ UNCHANGED <<accounts, owned, req_id, text, rpc>>

\* Db::unlock, when PROP_INIT is there.
db_unlock(pass) ==
    IF init[1].pass # pass THEN Ends("ok")
    ELSE /\ db' = [state |-> "Unlocked", key |-> <<init[1].key>>]
         /\ prompt' = "unlocked" /\ out' = Result("ok")
         /\ UNCHANGED <<disk, req_id, text, rpc>>

unlock(pass) ==
    /\ Enters("unlock")
    /\ \/ db.state # "Locked" /\ Ends("ok")
       \/ db.state = "Locked" /\ init = <<>> /\ Dies("unlock", "no PROP_INIT")
       \/ db.state = "Locked" /\ init # <<>> /\ db_unlock(pass)

\* The commands that only print.
Prints(c) == Enters(c) /\ Ends("ok")

gen_keypair == Prints("gen_keypair")
account_id_to_address == Prints("account_id_to_address")
check_script_size == Prints("check_script_size")
decode_tx == Prints("decode_tx")

\* These only print too, and hand the addresses among their words to from_wif;
\* the builder of scripts panics on too many functions besides.
args_to_bin == Prints("args_to_bin") \/ (Enters("args_to_bin") /\ Dies("args_to_bin", "char boundary"))

build_script ==
    \/ Prints("build_script")
    \/ /\ Enters("build_script")
       /\ \E why \in {"too many functions", "char boundary"} : Dies("build_script", why)

\* The commands that print what get_accounts returns.
PrintsAccounts(c) ==
    \/ Locked(c)
    \/ /\ Unlocked(c)
       /\ IF AccountsPanic # "none" THEN Dies(c, AccountsPanic) ELSE Ends("ok")

list == PrintsAccounts("list_accounts")
get == PrintsAccounts("get_account")

set_account(name, id) ==
    accounts \cup {[name |-> name, id |-> id, keys |-> Wifs[id], sealed |-> db.key[1]]}

import_id(name, id) ==
    \/ AccountsPanic # "none" /\ Dies("import_account", AccountsPanic)
    \/ /\ AccountsPanic = "none"
       /\ \E a \in accounts : a.name = name \/ a.id = id
       /\ Ends("ok")
    \/ /\ AccountsPanic = "none"
       /\ \A a \in accounts : a.name # name /\ a.id # id
       /\ accounts' = set_account(name, id)
       /\ owned' = owned \cup {[name |-> name, id |-> id]}
       /\ out' = Result("ok")
       /\ UNCHANGED <<init, db, prompt, req_id, text, rpc>>

\* The address is read before the accounts are.
import(name, t) ==
    \/ Locked("import_account")
    \/ /\ Unlocked("import_account")
       /\ \/ OffBoundary(t) /\ Dies("import_account", "char boundary")
          \/ ~OffBoundary(t) /\ from_wif(t) = {} /\ Ends("err")
          \/ ~OffBoundary(t) /\ \E id \in from_wif(t) : import_id(name, id)

del_account(name) == accounts \ get_account(name)

delete(name) ==
    \/ Locked("delete_account")
    \/ /\ Unlocked("delete_account")
       /\ \/ AccountsPanic # "none" /\ Dies("delete_account", AccountsPanic)
          \/ /\ AccountsPanic = "none"
             /\ accounts' = del_account(name)
             /\ owned' = {o \in owned : o.name # name}
             /\ out' = Result("ok")
             /\ UNCHANGED <<init, db, prompt, req_id, text, rpc>>

-----------------------------------------------------------------------------
(* Transaction texts.  serialize writes the low bits of the number of      *)
(* signatures, and deserialize takes as many as that says.                 *)

serialize(tx) == [tx EXCEPT !.sigs = SubSeq(@, 1, Len(@) % SIGS)]

PrintsTx(tx) ==
    /\ text' = <<serialize(tx)>> /\ out' = Result("ok")
    /\ UNCHANGED <<disk, db, prompt, req_id, rpc>>

Unsigned(kind, id) == [kind |-> kind, id |-> id, sigs |-> <<>>]

\* The account of a transaction is looked up, and the transaction printed.
BuildTx(c, t) ==
    \/ ResolvePanic(t) # "none" /\ Dies(c, ResolvePanic(t))
    \/ ResolvePanic(t) = "none" /\ Resolve(t) = {} /\ Ends("err")
    \/ ResolvePanic(t) = "none" /\ \E id \in Resolve(t) : PrintsTx(Unsigned(c, id))

\* The expiry typed is added to the time; builds with overflow checks panic
\* when the sum does not fit.
ExpiryOverflows(c) == Dies(c, "expiry overflow")

\* The keys that are typed behind the account go through PublicKey::from_wif.
KeysPanic(c, t) ==
    ResolvePanic(t) = "none" /\ Resolve(t) # {} /\ Dies(c, "char boundary")

build_create_tx(t) ==
    LET c == "build_create_account_tx"
    IN  \/ Locked(c)
        \/ /\ Unlocked(c)
           /\ \/ BuildTx(c, t) \/ KeysPanic(c, t)
              \/ ResolvePanic(t) = "none" /\ Resolve(t) # {} /\ ExpiryOverflows(c)

build_transfer_tx(t) ==
    LET c == "build_transfer_tx"
    IN  Locked(c) \/ (Unlocked(c) /\ (ExpiryOverflows(c) \/ BuildTx(c, t)))

\* build_update_tx does not check that the wallet is unlocked.
build_update_tx(t) ==
    LET c == "build_update_account_tx"
    IN  Enters(c) /\ (ExpiryOverflows(c) \/ BuildTx(c, t) \/ KeysPanic(c, t))

sign_tx(name) ==
    \/ Locked("sign_tx")
    \/ /\ Unlocked("sign_tx") /\ text # <<>>
       /\ \/ AccountsPanic # "none" /\ Dies("sign_tx", AccountsPanic)
          \/ AccountsPanic = "none" /\ get_account(name) = {} /\ Ends("err")
          \/ /\ AccountsPanic = "none"
             /\ \E a \in get_account(name) : PrintsTx([text[1] EXCEPT !.sigs = @ \o a.keys])

\* A position behind the last signature changes nothing.
unsign_tx(i) ==
    /\ Enters("unsign_tx") /\ text # <<>>
    /\ IF i <= Len(text[1].sigs) THEN PrintsTx([text[1] EXCEPT !.sigs = RemoveAt(@, i)])
       ELSE Ends("ok")

-----------------------------------------------------------------------------
(* send_rpc_req: every request has a connection of its own.                *)

\* Mutant: what the node sent on the last connection is still there.
Inbox_Kept == IF out.kind = "undecodable" THEN out.msg ELSE <<>>

Inbox_Fresh == <<>>

NextId == IF req_id + 1 = MAX_ID THEN 0 ELSE req_id + 1

\* The request is counted before the connection is tried.  A host without an
\* address, a refused connection or handshake is an error; a name that does
\* not resolve, a TLS failure and a failed write are unwrapped.
send_rpc_req(request) ==
    \/ /\ req_id' = NextId
       /\ rpc' = <<[id |-> req_id, request |-> request, inbox |-> Inbox_Fresh,
                    node |-> <<request>>]>>
       /\ out' = Result("waiting")
       /\ UNCHANGED <<disk, db, prompt, text>>
    \/ /\ req_id' = NextId
       /\ out' = Result("err")
       /\ UNCHANGED <<disk, db, prompt, text, rpc>>
    \/ Dies("send_rpc_req", "connection")

broadcast == Enters("broadcast") /\ text # <<>> /\ send_rpc_req(<<"Broadcast", text[1]>>)
get_properties == Enters("get_properties") /\ send_rpc_req(<<"GetProperties">>)
get_block == Enters("get_block") /\ send_rpc_req(<<"GetBlock">>)

build_mint_tx ==
    /\ Enters("build_mint_tx")
    /\ ExpiryOverflows("build_mint_tx") \/ send_rpc_req(<<"GetProperties", "mint">>)

get_acc_info(t) ==
    \/ Locked("get_account_info")
    \/ /\ Unlocked("get_account_info")
       /\ \/ ResolvePanic(t) # "none" /\ Dies("get_account_info", ResolvePanic(t))
          \/ ResolvePanic(t) = "none" /\ Resolve(t) = {} /\ Ends("err")
          \/ /\ ResolvePanic(t) = "none"
             /\ \E id \in Resolve(t) : send_rpc_req(<<"GetAccountInfo", id>>)

\* The node (external): it answers every request once, under the id of the
\* request, or under MAX_ID if it could not read it; it may ping, send what is
\* not binary, or send what the wallet cannot read; the connection may break.
Msg(body) ==
    [body |-> body, id |-> IF body = "Io" THEN MAX_ID ELSE rpc[1].id,
     re |-> rpc[1].request]

NodeSends(body) ==
    /\ rpc # <<>> /\ Len(rpc[1].inbox) < MaxInbox
    /\ body \in {"Response", "Error", "Io"} => rpc[1].node # <<>>
    /\ rpc' = [rpc EXCEPT ![1].inbox = Append(@, Msg(body)),
                          ![1].node = IF body \in {"Response", "Error", "Io"} THEN <<>> ELSE @]
    /\ UNCHANGED <<disk, db, prompt, req_id, text, out>>

NodeAnswers == \E body \in {"Response", "Error", "Io"} : NodeSends(body)

ConnectionBreaks == rpc # <<>> /\ Dies("send_rpc_req", "connection")

Head1 == Head(rpc[1].inbox)
Rest == [rpc EXCEPT ![1].inbox = Tail(@)]

\* What the caller of send_rpc_req does with the answer.
Answered ==
    /\ out' = [Result("answer") EXCEPT !.re = <<rpc[1].id, rpc[1].request>>, !.msg = <<Head1>>]
    /\ \/ text' = text       \* for a mint: an error, or the attachment cannot be read
       \/ /\ rpc[1].request = <<"GetProperties", "mint">> /\ Head1.body = "Response"
          /\ text' = <<Unsigned("build_mint_tx", OWNER_WALLET)>>
    /\ rpc' = <<>>
    /\ UNCHANGED <<disk, db, prompt, req_id>>

\* Mutant: an error of the node is passed over.
read_message_SkipsErrors ==
    /\ rpc # <<>> /\ rpc[1].inbox # <<>>
    /\ \/ Head1.body = "Response" /\ Answered
       \/ /\ Head1.body # "Response"
          /\ rpc' = Rest
          /\ UNCHANGED <<disk, db, prompt, req_id, text, out>>

\* One round of the loop behind the request.
read_message ==
    /\ rpc # <<>> /\ rpc[1].inbox # <<>>
    /\ \/ Head1.body \in {"Response", "Error", "Io"} /\ Answered
       \/ /\ Head1.body = "Ping"
          /\ Dies("send_rpc_req", "connection")    \* the pong cannot be written
       \/ /\ Head1.body \in {"Ping", "Text"}
          /\ rpc' = Rest
          /\ UNCHANGED <<disk, db, prompt, req_id, text, out>>
       \/ /\ Head1.body = "Junk"
          /\ rpc' = <<>>
          /\ out' = [Result("undecodable") EXCEPT !.msg = Tail(rpc[1].inbox)]
          /\ UNCHANGED <<disk, db, prompt, req_id, text>>
       \/ /\ Head1.body = "Junk"
          /\ Dies("send_rpc_req", "no memory")     \* for the receipts of a garbled block

-----------------------------------------------------------------------------
Init ==
    /\ init = <<>> /\ accounts = {} /\ owned = {}
    /\ db = Down /\ prompt = "none" /\ req_id = 0 /\ text = <<>> /\ rpc = <<>>
    /\ out = Result("ok")

LineHandled ==
    \/ process_line
    \/ \E pass \in Passwords : create_wallet(pass)
    \/ \E pass \in Passwords \cup {"wrong"} : unlock(pass)
    \/ gen_keypair \/ account_id_to_address \/ args_to_bin \/ check_script_size
    \/ decode_tx \/ build_script \/ list \/ get
    \/ \E name \in Names, t \in Typed : import(name, t)
    \/ \E name \in Names : delete(name) \/ sign_tx(name)
    \/ \E t \in Typed : \/ build_create_tx(t) \/ build_transfer_tx(t) \/ build_update_tx(t)
                        \/ get_acc_info(t)
    \/ \E i \in 1..SIGS : unsign_tx(i)
    \/ broadcast \/ get_properties \/ get_block \/ build_mint_tx

Next ==
    \/ Start \/ Killed
    \/ LineHandled
    \/ NodeAnswers
    \/ \E body \in {"Ping", "Text", "Junk"} : NodeSends(body)
    \/ ConnectionBreaks
    \/ read_message

\* The wallet reads what has arrived, and a node answers what it was asked:
\* its handler of messages returns an answer to every request.  The fairness
\* is strong because of MaxInbox only, which may keep an answer waiting.
Spec == Init /\ [][Next]_wvars /\ WF_wvars(read_message) /\ SF_wvars(NodeAnswers)

-----------------------------------------------------------------------------
(* Properties.                                                             *)

\* The texts that a handler hands to from_wif, and the times that it adds.
ReadsWif ==
    {"import_account", "args_to_bin", "build_script", "get_account_info", "build_transfer_tx",
     "build_create_account_tx", "build_update_account_tx"}
AddsExpiry ==
    {"build_mint_tx", "build_transfer_tx", "build_create_account_tx", "build_update_account_tx"}

KnownPanics ==
    {<<"process_line", "no command">>, <<"send_rpc_req", "connection">>,
     <<"send_rpc_req", "no memory">>, <<"build_script", "too many functions">>,
     <<"build_update_account_tx", "wallet not unlocked">>}
    \cup (ReadsWif \X {"char boundary"}) \cup (AddsExpiry \X {"expiry overflow"})

\* A line kills the wallet for what its user or its node wrote only: no command
\* on it, too many functions, a text that from_wif cuts inside a character, an
\* expiry that overflows, a block whose count of receipts is garbled, or a
\* connection that fails once it was made; with one exception, an update of an
\* account, the one command that looks accounts up without asking whether the
\* wallet is unlocked.  So no accepted line lacks an argument that a handler
\* unwraps, no account fails to decrypt, no handler finds a state of the
\* database that it did not check for.
PanicsAreKnown == out.kind = "panic" => out.reason \in KnownPanics

\* Whatever the order of commands, kills and restarts, what the database holds
\* is what the user imported and did not delete, each name and each account
\* once, all of it sealed under the key that the password of PROP_INIT opens;
\* and the prompt tells the state of the database.
AccountsRecoverable ==
    /\ {[name |-> a.name, id |-> a.id] : a \in accounts} = owned
    /\ \A a, b \in accounts : a = b \/ (a.name # b.name /\ a.id # b.id)
    /\ \A a \in accounts : init # <<>> /\ a.sealed = init[1].key
    /\ <<db.state, prompt>> \in {<<"Down", "none">>, <<"New", "new">>, <<"Locked", "locked">>,
                                 <<"Unlocked", "unlocked">>}

\* What is shown as the answer to a request is the node's answer to that very
\* request, although ids are not compared, start again at 0 with every start
\* of the wallet and wrap around; no request uses the reserved id.
AnswerMatchesRequest ==
    /\ out.kind = "answer" =>
           /\ out.msg[1].re = out.re[2]
           /\ out.msg[1].id = out.re[1] \/ out.msg[1].body = "Io"
    /\ req_id # MAX_ID /\ (rpc # <<>> => rpc[1].id # MAX_ID)

\* A wallet that waits for an answer comes back, whatever the node sends
\* besides: an answer, an error of either side or the end of the connection.
RequestEnds == (rpc # <<>>) ~> (rpc = <<>>)

-----------------------------------------------------------------------------
(* The inductive invariant behind them, proved in WalletProofs.            *)

\* The state in memory follows what is on disk: the key is that of PROP_INIT, and
\* it is there only while the wallet is unlocked.
DbInv ==
    /\ db = [state |-> db.state, key |-> db.key]
    /\ db.state \in {"Down", "New", "Locked", "Unlocked"}
    /\ init # <<>> => init = <<[pass |-> init[1].pass, key |-> init[1].key]>>
    /\ db.state = "New" => init = <<>>
    /\ db.state = "Locked" => init # <<>>
    /\ db.state = "Unlocked" => init # <<>> /\ db.key = <<init[1].key>>
    /\ db.state # "Unlocked" => db.key = <<>>

\* What a node may have sent on the connection of request q.
MessagesFor(q) ==
    [body : {"Response", "Error", "Ping", "Text", "Junk"}, id : {q.id}, re : {q.request}]
    \cup [body : {"Io"}, id : {MAX_ID}, re : {q.request}]

RpcInv ==
    /\ req_id \in Nat
    /\ rpc # <<>> =>
          /\ rpc = <<rpc[1]>> /\ DOMAIN rpc[1] = {"id", "request", "inbox", "node"}
          /\ rpc[1].inbox \in Seq(MessagesFor(rpc[1]))

WalletInv == DbInv /\ RpcInv /\ PanicsAreKnown /\ AccountsRecoverable /\ AnswerMatchesRequest

=============================================================================
