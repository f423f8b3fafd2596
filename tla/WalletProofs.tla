---------------------------- MODULE WalletProofs ----------------------------
(***************************************************************************)
(* Proofs about the wallet, for any passwords, names, addresses, keys and  *)
(* any size of the id counter.  WalletInv is inductive.                    *)
(***************************************************************************)
EXTENDS Wallet, TLAPS

-----------------------------------------------------------------------------
(* The grammar.                                                            *)

\* No line that the grammar accepts lacks an argument that its handler unwraps.
LEMMA NothingMissing ==
  ASSUME NEW line \in AcceptedLines
  PROVE  Missing(line) = {}
  <1> DEFINE g == Grammar[line.cmd]
  <1>1. /\ g.required \subseteq line.given
        /\ \A r \in g.requires : r[1] \in line.given => r[2] \in line.given
    BY DEF AcceptedLines, Accepts
  <1>2. CASE line.cmd = "build_create_account_tx"
    <2>1. g = build_create_account_tx_grammar
      BY <1>2 DEF Grammar
    <2> QED
      BY <2>1, <1>1, <1>2 DEF Missing, Unwraps, build_create_account_tx_grammar, Command
  <1>3. CASE line.cmd = "build_update_account_tx"
    <2>1. g = build_update_account_tx_grammar
      BY <1>3 DEF Grammar
    <2>2. /\ g.required \subseteq line.given /\ "expiry" \in g.defaulted
          /\ <<"threshold", "public_wif">> \in g.requires
      BY <2>1, <1>1 DEF build_update_account_tx_grammar, Command
    <2>3. "threshold" \in line.given => "public_wif" \in line.given
      BY <2>2, <1>1
    <2> QED
      BY <2>1, <2>2, <2>3, <1>3 DEF Missing, Unwraps, build_update_account_tx_grammar, Command
  <1>4. CASE line.cmd = "build_mint_tx"
    <2>1. g = build_mint_tx_grammar
      BY <1>4 DEF Grammar
    <2>2. /\ g.required \subseteq line.given /\ "expiry" \in g.defaulted
          /\ <<"attachment_path", "attachment_name">> \in g.requires
      BY <2>1, <1>1 DEF build_mint_tx_grammar, Command
    <2>3. "attachment_path" \in line.given => "attachment_name" \in line.given
      BY <2>2, <1>1
    <2> QED
      BY <2>1, <2>2, <2>3, <1>4 DEF Missing, Unwraps, build_mint_tx_grammar, Command
  <1>5. CASE line.cmd = "build_transfer_tx"
    <2>1. g = build_transfer_tx_grammar
      BY <1>5 DEF Grammar
    <2> QED
      BY <2>1, <1>1, <1>5 DEF Missing, Unwraps, build_transfer_tx_grammar, Command
  <1>6. CASE line.cmd \notin {"build_create_account_tx", "build_update_account_tx",
                              "build_mint_tx", "build_transfer_tx"}
    BY <1>1, <1>6 DEF Missing, Unwraps
  <1> QED
    BY <1>2, <1>3, <1>4, <1>5, <1>6

-----------------------------------------------------------------------------
(* Accounts can be read whenever the wallet is unlocked, and only then.    *)

LEMMA AccountsOpen ==
  ASSUME WalletInv
  PROVE  /\ db.state = "Unlocked" => AccountsPanic = "none"
         /\ db.state # "Unlocked" => AccountsPanic = "wallet not unlocked"
  <1>1. CASE db.state = "Unlocked"
    <2>1. /\ db.key = <<init[1].key>> /\ db.key # <<>> /\ db.key[1] = init[1].key
          /\ \A a \in accounts : a.sealed = init[1].key
      BY <1>1 DEF WalletInv, DbInv, AccountsRecoverable
    <2>2. \A a \in accounts : Opens(db.key, a.sealed)
      BY <2>1 DEF Opens
    <2> QED
      BY <1>1, <2>1, <2>2 DEF AccountsPanic
  <1>2. CASE db.state # "Unlocked"
    BY <1>2 DEF WalletInv, DbInv, AccountsPanic
  <1> QED
    BY <1>1, <1>2

-----------------------------------------------------------------------------
(* How a line may end.                                                     *)

LEMMA Known ==
  /\ {<<"process_line", "no command">>, <<"send_rpc_req", "connection">>,
      <<"send_rpc_req", "no memory">>, <<"build_script", "too many functions">>,
      <<"build_update_account_tx", "wallet not unlocked">>} \subseteq KnownPanics
  /\ \A c \in ReadsWif : <<c, "char boundary">> \in KnownPanics
  /\ \A c \in AddsExpiry : <<c, "expiry overflow">> \in KnownPanics
  BY DEF KnownPanics

\* A result that is neither a panic nor an answer.
LEMMA Quiet ==
  ASSUME NEW kind, kind \notin {"panic", "answer"}, out' = Result(kind),
         req_id' # MAX_ID, rpc' # <<>> => rpc'[1].id # MAX_ID
  PROVE  PanicsAreKnown' /\ AnswerMatchesRequest'
  BY DEF Result, PanicsAreKnown, AnswerMatchesRequest

LEMMA StepEnds ==
  ASSUME WalletInv, NEW kind, kind \notin {"panic", "answer"}, Ends(kind)
  PROVE  WalletInv'
  <1>1. /\ init' = init /\ accounts' = accounts /\ owned' = owned /\ db' = db
        /\ prompt' = prompt /\ req_id' = req_id /\ rpc' = rpc /\ out' = Result(kind)
    BY DEF Ends, disk
  <1>2. DbInv' /\ AccountsRecoverable'
    BY <1>1 DEF WalletInv, DbInv, AccountsRecoverable
  <1>3. RpcInv'
    BY <1>1 DEF WalletInv, RpcInv
  <1>4. req_id' # MAX_ID /\ (rpc' # <<>> => rpc'[1].id # MAX_ID)
    BY <1>1 DEF WalletInv, AnswerMatchesRequest
  <1>5. PanicsAreKnown' /\ AnswerMatchesRequest'
    BY <1>1, <1>4, Quiet
  <1> QED
    BY <1>2, <1>3, <1>5 DEF WalletInv

\* The process ends; what is on disk stays.
LEMMA StepDown ==
  ASSUME WalletInv, UNCHANGED disk, db' = Down, prompt' = "none", req_id' = 0, rpc' = <<>>
  PROVE  DbInv' /\ RpcInv' /\ AccountsRecoverable' /\ req_id' # MAX_ID
  <1>1. init' = init /\ accounts' = accounts /\ owned' = owned
    BY DEF disk
  <1>2. db' = [state |-> "Down", key |-> <<>>] /\ db'.state = "Down" /\ db'.key = <<>>
    BY DEF Down
  <1>3. DbInv'
    BY <1>1, <1>2 DEF WalletInv, DbInv
  <1>4. AccountsRecoverable'
    BY <1>1, <1>2 DEF WalletInv, AccountsRecoverable
  <1>5. RpcInv'
    BY DEF RpcInv
  <1> QED
    BY <1>3, <1>4, <1>5, WalletAssumption

LEMMA StepDies ==
  ASSUME WalletInv, NEW c, NEW why, <<c, why>> \in KnownPanics, Dies(c, why)
  PROVE  WalletInv'
  <1>1. DbInv' /\ RpcInv' /\ AccountsRecoverable' /\ req_id' # MAX_ID /\ rpc' = <<>>
    BY StepDown DEF Dies
  <1>2. out' = [kind |-> "panic", reason |-> <<c, why>>, re |-> <<>>, msg |-> <<>>]
    BY DEF Dies, Result
  <1>3. PanicsAreKnown'
    BY <1>2 DEF PanicsAreKnown
  <1>4. AnswerMatchesRequest'
    BY <1>1, <1>2 DEF AnswerMatchesRequest
  <1> QED
    BY <1>1, <1>3, <1>4 DEF WalletInv

LEMMA StepPrintsTx ==
  ASSUME WalletInv, NEW tx, PrintsTx(tx)
  PROVE  WalletInv'
  <1>1. /\ init' = init /\ accounts' = accounts /\ owned' = owned /\ db' = db
        /\ prompt' = prompt /\ req_id' = req_id /\ rpc' = rpc /\ out' = Result("ok")
    BY DEF PrintsTx, disk
  <1>2. DbInv' /\ AccountsRecoverable'
    BY <1>1 DEF WalletInv, DbInv, AccountsRecoverable
  <1>3. RpcInv'
    BY <1>1 DEF WalletInv, RpcInv
  <1>4. req_id' # MAX_ID /\ (rpc' # <<>> => rpc'[1].id # MAX_ID)
    BY <1>1 DEF WalletInv, AnswerMatchesRequest
  <1>5. PanicsAreKnown' /\ AnswerMatchesRequest'
    BY <1>1, <1>4, Quiet
  <1> QED
    BY <1>2, <1>3, <1>5 DEF WalletInv

\* A request gets a connection with nothing on it, and an id that is not reserved.
LEMMA StepSend ==
  ASSUME WalletInv, NEW request, send_rpc_req(request)
  PROVE  WalletInv'
  <1>1. req_id \in Nat /\ req_id # MAX_ID /\ NextId \in Nat /\ NextId # MAX_ID
    BY WalletAssumption DEF WalletInv, RpcInv, AnswerMatchesRequest, NextId
  <1>2. ASSUME req_id' = NextId, NEW kind \in {"waiting", "err"}, out' = Result(kind),
               UNCHANGED <<disk, db, prompt, text>>,
               rpc' = rpc \/ rpc' = <<[id |-> req_id, request |-> request, inbox |-> <<>>,
                                       node |-> <<request>>]>>
        PROVE  WalletInv'
    <2>1. init' = init /\ accounts' = accounts /\ owned' = owned /\ db' = db /\ prompt' = prompt
      BY <1>2 DEF disk
    <2>2. DbInv' /\ AccountsRecoverable'
      BY <2>1 DEF WalletInv, DbInv, AccountsRecoverable
    <2>3. rpc' # <<>> => rpc'[1].id # MAX_ID
      BY <1>1, <1>2 DEF WalletInv, AnswerMatchesRequest
    <2>4. PanicsAreKnown' /\ AnswerMatchesRequest'
      BY <1>1, <1>2, <2>3, Quiet
    <2>5. RpcInv'
      <3>1. CASE rpc' = rpc
        BY <3>1, <1>1, <1>2 DEF WalletInv, RpcInv
      <3>2. CASE rpc' = <<[id |-> req_id, request |-> request, inbox |-> <<>>,
                           node |-> <<request>>]>>
        <4> DEFINE q == [id |-> req_id, request |-> request, inbox |-> <<>>,
                         node |-> <<request>>]
        <4>1. rpc' = <<q>> /\ rpc'[1] = q
          BY <3>2
        <4>2. q.inbox \in Seq(MessagesFor(q))
          OBVIOUS
        <4>3. DOMAIN q = {"id", "request", "inbox", "node"}
          OBVIOUS
        <4> HIDE DEF q
        <4> QED
          BY <4>1, <4>2, <4>3, <1>1, <1>2 DEF RpcInv
      <3> QED
        BY <1>2, <3>1, <3>2
    <2> QED
      BY <2>2, <2>4, <2>5 DEF WalletInv
  <1>3. CASE Dies("send_rpc_req", "connection")
    <2>1. <<"send_rpc_req", "connection">> \in KnownPanics
      BY Known
    <2> QED
      BY <1>3, <2>1, StepDies
  <1> QED
    BY <1>2, <1>3 DEF send_rpc_req, Inbox_Fresh

-----------------------------------------------------------------------------
(* The life of the wallet, and its database.                               *)

LEMMA StepStart == ASSUME WalletInv, Start PROVE WalletInv'
  <1> DEFINE s == IF init # <<>> THEN "Locked" ELSE "New"
  <1>1. /\ init' = init /\ accounts' = accounts /\ owned' = owned
        /\ db' = [state |-> s, key |-> <<>>] /\ db'.state = s /\ db'.key = <<>>
        /\ prompt' = (IF s = "Locked" THEN "locked" ELSE "new")
        /\ req_id' = 0 /\ rpc' = <<>> /\ out' = Result("ok")
    BY DEF Start, disk
  <1>2. DbInv'
    BY <1>1 DEF WalletInv, DbInv
  <1>3. AccountsRecoverable'
    BY <1>1 DEF WalletInv, AccountsRecoverable
  <1>4. RpcInv' /\ req_id' # MAX_ID /\ rpc' = <<>>
    BY <1>1, WalletAssumption DEF RpcInv
  <1>5. PanicsAreKnown' /\ AnswerMatchesRequest'
    BY <1>1, <1>4, Quiet
  <1> QED
    BY <1>2, <1>3, <1>4, <1>5 DEF WalletInv

LEMMA StepKilled == ASSUME WalletInv, Killed PROVE WalletInv'
  <1>1. DbInv' /\ RpcInv' /\ AccountsRecoverable' /\ req_id' # MAX_ID
    BY StepDown DEF Killed
  <1>2. out' = Result("ok") /\ rpc' = <<>>
    BY DEF Killed
  <1>3. PanicsAreKnown' /\ AnswerMatchesRequest'
    BY <1>1, <1>2, Quiet
  <1> QED
    BY <1>1, <1>3 DEF WalletInv

\* What a step that touches only the database and the prompt must establish.
LEMMA DbStep ==
  ASSUME WalletInv, out' = Result("ok"), UNCHANGED <<req_id, text, rpc>>,
         DbInv', AccountsRecoverable'
  PROVE  WalletInv'
  <1>1. RpcInv'
    BY DEF WalletInv, RpcInv
  <1>2. req_id' # MAX_ID /\ (rpc' # <<>> => rpc'[1].id # MAX_ID)
    BY DEF WalletInv, AnswerMatchesRequest
  <1>3. PanicsAreKnown' /\ AnswerMatchesRequest'
    BY <1>2, Quiet
  <1> QED
    BY <1>1, <1>3 DEF WalletInv

\* The first password: no account is there yet that another key would seal.
LEMMA StepCreate ==
  ASSUME WalletInv, NEW pass, create_wallet(pass)
  PROVE  WalletInv'
  <1>1. CASE Ends("ok")
    BY <1>1, StepEnds
  <1>2. CASE /\ db.state = "New" /\ set_password(pass)
             /\ prompt' = "locked" /\ out' = Result("ok")
             /\ UNCHANGED <<accounts, owned, req_id, text, rpc>>
    <2> DEFINE k == IF db.state = "New" THEN gen_key ELSE db.key[1]
    <2>1. /\ init' = <<[pass |-> pass, key |-> k]>>
          /\ db' = [state |-> "Locked", key |-> <<>>]
      BY <1>2 DEF set_password, lock
    <2> HIDE DEF k
    <2>2. accounts = {} /\ accounts' = accounts /\ owned' = owned
      BY <1>2 DEF WalletInv, DbInv, AccountsRecoverable
    <2>3. DbInv'
      <3>1. init' # <<>> /\ init'[1] = [pass |-> pass, key |-> k]
        BY <2>1
      <3>2. init'[1].pass = pass /\ init'[1].key = k
        BY <3>1
      <3>3. init' = <<[pass |-> init'[1].pass, key |-> init'[1].key]>>
        BY <2>1, <3>2
      <3>4. db'.state = "Locked" /\ db'.key = <<>>
        BY <2>1
      <3> QED
        BY <2>1, <3>1, <3>3, <3>4 DEF DbInv
    <2>4. AccountsRecoverable'
      BY <1>2, <2>1, <2>2 DEF WalletInv, AccountsRecoverable
    <2> QED
      BY <1>2, <2>3, <2>4, DbStep
  <1> QED
    BY <1>1, <1>2 DEF create_wallet

LEMMA StepUnlock ==
  ASSUME WalletInv, NEW pass, unlock(pass)
  PROVE  WalletInv'
  <1>1. CASE Ends("ok")
    BY <1>1, StepEnds
  <1>2. CASE db.state = "Locked" /\ init = <<>>
    BY <1>2 DEF WalletInv, DbInv
  <1>3. CASE /\ db.state = "Locked" /\ init # <<>>
             /\ db' = [state |-> "Unlocked", key |-> <<init[1].key>>]
             /\ prompt' = "unlocked" /\ out' = Result("ok")
             /\ UNCHANGED <<disk, req_id, text, rpc>>
    <2>1. init' = init /\ accounts' = accounts /\ owned' = owned
      BY <1>3 DEF disk
    <2>2. db'.state = "Unlocked" /\ db'.key = <<init[1].key>>
      BY <1>3
    <2>3. DbInv'
      BY <1>3, <2>1, <2>2 DEF WalletInv, DbInv
    <2>4. AccountsRecoverable'
      BY <1>3, <2>1, <2>2 DEF WalletInv, AccountsRecoverable
    <2> QED
      BY <1>3, <2>3, <2>4, DbStep
  <1> QED
    BY <1>1, <1>2, <1>3 DEF unlock, db_unlock

\* An account imported is sealed under the key of PROP_INIT, and its name and id
\* are new.
LEMMA StepImportId ==
  ASSUME WalletInv, db.state = "Unlocked", NEW name, NEW id, import_id(name, id)
  PROVE  WalletInv'
  <1>1. CASE Ends("ok")
    BY <1>1, StepEnds
  <1>3. CASE db.state = "Unlocked" /\ AccountsPanic # "none"
    BY <1>3, AccountsOpen
  <1>4. CASE /\ db.state = "Unlocked"
             /\ \A a \in accounts : a.name # name /\ a.id # id
             /\ accounts' = set_account(name, id)
             /\ owned' = owned \cup {[name |-> name, id |-> id]}
             /\ out' = Result("ok")
             /\ UNCHANGED <<init, db, prompt, req_id, text, rpc>>
    <2> DEFINE n == [name |-> name, id |-> id, keys |-> Wifs[id], sealed |-> db.key[1]]
    <2>1. accounts' = accounts \cup {n}
      BY <1>4 DEF set_account
    <2>2. /\ n.name = name /\ n.id = id /\ n.sealed = db.key[1]
          /\ [name |-> n.name, id |-> n.id] = [name |-> name, id |-> id]
      OBVIOUS
    <2> HIDE DEF n
    <2>3. init # <<>> /\ db.key[1] = init[1].key /\ init' = init /\ db' = db /\ prompt' = prompt
      BY <1>4 DEF WalletInv, DbInv
    <2>4. DbInv'
      BY <2>3 DEF WalletInv, DbInv
    <2>5. {[name |-> a.name, id |-> a.id] : a \in accounts'} = owned'
      BY <1>4, <2>1, <2>2 DEF WalletInv, AccountsRecoverable
    <2>6. \A a, b \in accounts' : a = b \/ (a.name # b.name /\ a.id # b.id)
      BY <1>4, <2>1, <2>2 DEF WalletInv, AccountsRecoverable
    <2>7. \A a \in accounts' : init' # <<>> /\ a.sealed = init'[1].key
      BY <2>1, <2>2, <2>3 DEF WalletInv, AccountsRecoverable
    <2>8. AccountsRecoverable'
      BY <2>3, <2>5, <2>6, <2>7 DEF WalletInv, AccountsRecoverable
    <2> QED
      BY <1>4, <2>4, <2>8, DbStep
  <1> QED
    BY <1>1, <1>3, <1>4 DEF import_id

LEMMA StepImport ==
  ASSUME WalletInv, NEW name, NEW t, import(name, t)
  PROVE  WalletInv'
  <1>1. CASE Ends("err")
    BY <1>1, StepEnds
  <1>2. CASE Dies("import_account", "char boundary")
    <2>1. <<"import_account", "char boundary">> \in KnownPanics
      BY Known DEF ReadsWif
    <2> QED
      BY <1>2, <2>1, StepDies
  <1>3. CASE db.state = "Unlocked" /\ \E id \in from_wif(t) : import_id(name, id)
    BY <1>3, StepImportId
  <1> QED
    BY <1>1, <1>2, <1>3 DEF import, Locked, Unlocked

LEMMA StepDelete ==
  ASSUME WalletInv, NEW name, delete(name)
  PROVE  WalletInv'
  <1>1. CASE Ends("err")
    BY <1>1, StepEnds
  <1>2. CASE db.state = "Unlocked" /\ AccountsPanic # "none"
    BY <1>2, AccountsOpen
  <1>3. CASE /\ accounts' = del_account(name)
             /\ owned' = {o \in owned : o.name # name}
             /\ out' = Result("ok")
             /\ UNCHANGED <<init, db, prompt, req_id, text, rpc>>
    <2>1. accounts' = {a \in accounts : a.name # name}
      BY <1>3 DEF del_account, get_account
    <2>2. init' = init /\ db' = db /\ prompt' = prompt
      BY <1>3
    <2>3. DbInv'
      BY <2>2 DEF WalletInv, DbInv
    <2>4. {[name |-> a.name, id |-> a.id] : a \in accounts'} = owned'
      <3>1. owned = {[name |-> a.name, id |-> a.id] : a \in accounts}
        BY DEF WalletInv, AccountsRecoverable
      <3>2. owned' \subseteq {[name |-> a.name, id |-> a.id] : a \in accounts'}
        BY <3>1, <2>1, <1>3
      <3>3. {[name |-> a.name, id |-> a.id] : a \in accounts'} \subseteq owned'
        BY <3>1, <2>1, <1>3
      <3> QED
        BY <3>2, <3>3
    <2>5. AccountsRecoverable'
      BY <2>1, <2>2, <2>4 DEF WalletInv, AccountsRecoverable
    <2> QED
      BY <1>3, <2>3, <2>5, DbStep
  <1> QED
    BY <1>1, <1>2, <1>3 DEF delete, Locked, Unlocked

-----------------------------------------------------------------------------
(* The other commands.                                                     *)

LEMMA StepProcessLine == ASSUME WalletInv, process_line PROVE WalletInv'
  <1>1. CASE Dies("process_line", "no command")
    <2>1. <<"process_line", "no command">> \in KnownPanics
      BY Known
    <2> QED
      BY <1>1, <2>1, StepDies
  <1>2. CASE Ends("err")
    BY <1>2, StepEnds
  <1>3. CASE \E line \in AcceptedLines : Missing(line) # {}
    BY <1>3, NothingMissing
  <1> QED
    BY <1>1, <1>2, <1>3 DEF process_line

LEMMA StepPrints ==
  ASSUME WalletInv, NEW c, Prints(c) \/ Locked(c) \/ PrintsAccounts(c)
  PROVE  WalletInv'
  <1>1. Ends("ok") \/ Ends("err")
    BY AccountsOpen DEF Prints, Locked, Unlocked, PrintsAccounts
  <1> QED
    BY <1>1, StepEnds

LEMMA StepReadsWords == ASSUME WalletInv, args_to_bin \/ build_script PROVE WalletInv'
  <1>1. CASE Prints("args_to_bin") \/ Prints("build_script")
    BY <1>1, StepPrints
  <1>2. CASE Dies("args_to_bin", "char boundary")
    <2>1. <<"args_to_bin", "char boundary">> \in KnownPanics
      BY Known DEF ReadsWif
    <2> QED
      BY <1>2, <2>1, StepDies
  <1>3. CASE \E why \in {"too many functions", "char boundary"} : Dies("build_script", why)
    <2>1. \A why \in {"too many functions", "char boundary"} :
              <<"build_script", why>> \in KnownPanics
      BY Known DEF ReadsWif
    <2> QED
      BY <1>3, <2>1, StepDies
  <1> QED
    BY <1>1, <1>2, <1>3 DEF args_to_bin, build_script

\* Looking an account up may end the process for the text, or for the state.
LEMMA ResolveKnown ==
  ASSUME WalletInv, NEW t, ResolvePanic(t) # "none"
  PROVE  \/ ResolvePanic(t) = "char boundary"
         \/ ResolvePanic(t) = "wallet not unlocked" /\ db.state # "Unlocked"
  BY AccountsOpen DEF ResolvePanic

LEMMA StepBuildTx ==
  ASSUME WalletInv, NEW c \in ReadsWif, NEW t, BuildTx(c, t),
         db.state = "Unlocked" \/ c = "build_update_account_tx"
  PROVE  WalletInv'
  <1>1. CASE Ends("err")
    BY <1>1, StepEnds
  <1>2. CASE \E id \in Resolve(t) : PrintsTx(Unsigned(c, id))
    BY <1>2, StepPrintsTx
  <1>3. CASE ResolvePanic(t) # "none" /\ Dies(c, ResolvePanic(t))
    <2>1. <<c, ResolvePanic(t)>> \in KnownPanics
      BY <1>3, ResolveKnown, Known
    <2> QED
      BY <1>3, <2>1, StepDies
  <1> QED
    BY <1>1, <1>2, <1>3 DEF BuildTx

\* The three commands that build a transaction from an account.
LEMMA StepBuilds ==
  ASSUME WalletInv, NEW t, build_create_tx(t) \/ build_transfer_tx(t) \/ build_update_tx(t)
  PROVE  WalletInv'
  <1>1. CASE Ends("err")
    BY <1>1, StepEnds
  <1>2. ASSUME NEW c \in {"build_create_account_tx", "build_transfer_tx", "build_update_account_tx"},
               \/ Dies(c, "char boundary") \/ Dies(c, "expiry overflow")
               \/ BuildTx(c, t) /\ (db.state = "Unlocked" \/ c = "build_update_account_tx")
        PROVE  WalletInv'
    <2>1. c \in ReadsWif /\ c \in AddsExpiry
      BY <1>2 DEF ReadsWif, AddsExpiry
    <2>2. <<c, "char boundary">> \in KnownPanics /\ <<c, "expiry overflow">> \in KnownPanics
      BY <2>1, Known
    <2> QED
      BY <1>2, <2>1, <2>2, StepDies, StepBuildTx
  <1> QED
    BY <1>1, <1>2 DEF build_create_tx, build_transfer_tx, build_update_tx, Locked, Unlocked,
       KeysPanic, ExpiryOverflows

LEMMA StepBuildMint == ASSUME WalletInv, build_mint_tx PROVE WalletInv'
  <1>1. <<"build_mint_tx", "expiry overflow">> \in KnownPanics
    BY Known DEF AddsExpiry
  <1> QED
    BY <1>1, StepDies, StepSend DEF build_mint_tx, ExpiryOverflows

LEMMA StepSign ==
  ASSUME WalletInv, NEW name, sign_tx(name)
  PROVE  WalletInv'
  <1>1. \/ Ends("err")
        \/ \E a \in get_account(name) : PrintsTx([text[1] EXCEPT !.sigs = @ \o a.keys])
    BY AccountsOpen DEF sign_tx, Locked, Unlocked
  <1> QED
    BY <1>1, StepEnds, StepPrintsTx

LEMMA StepUnsign ==
  ASSUME WalletInv, NEW i, unsign_tx(i)
  PROVE  WalletInv'
  <1>1. Ends("ok") \/ PrintsTx([text[1] EXCEPT !.sigs = RemoveAt(@, i)])
    BY DEF unsign_tx
  <1> QED
    BY <1>1, StepEnds, StepPrintsTx

LEMMA StepGetAccInfo ==
  ASSUME WalletInv, NEW t, get_acc_info(t)
  PROVE  WalletInv'
  <1>1. \/ Ends("err")
        \/ \E id \in Resolve(t) : send_rpc_req(<<"GetAccountInfo", id>>)
        \/ Dies("get_account_info", "char boundary")
    BY ResolveKnown DEF get_acc_info, Locked, Unlocked
  <1>2. <<"get_account_info", "char boundary">> \in KnownPanics
    BY Known DEF ReadsWif
  <1> QED
    BY <1>1, <1>2, StepEnds, StepSend, StepDies

-----------------------------------------------------------------------------
(* The exchange with a node.                                               *)

Bodies == {"Response", "Error", "Io", "Ping", "Text", "Junk"}

\* An update of the one request there is.
LEMMA UpdateOne ==
  ASSUME NEW f, NEW x, NEW y, f = <<x>>
  PROVE  [f EXCEPT ![1] = y] = <<y>>
  <1> DEFINE g == [f EXCEPT ![1] = y]
  <1>1. DOMAIN f = 1..1 /\ DOMAIN <<y>> = 1..1
    OBVIOUS
  <1>2. DOMAIN g = 1..1 /\ g = [i \in 1..1 |-> g[i]] /\ g[1] = y
    BY <1>1
  <1>3. <<y>> = [i \in 1..1 |-> <<y>>[i]] /\ <<y>>[1] = y
    OBVIOUS
  <1>4. \A i \in 1..1 : g[i] = <<y>>[i]
    BY <1>2, <1>3
  <1> QED
    BY <1>2, <1>3, <1>4

Request(q) == DOMAIN q = {"id", "request", "inbox", "node"}

LEMMA UpdateInbox ==
  ASSUME NEW q, Request(q), NEW x
  PROVE  LET p == [q EXCEPT !.inbox = x]
         IN  Request(p) /\ p.id = q.id /\ p.request = q.request /\ p.inbox = x
  BY DEF Request

LEMMA UpdateNode ==
  ASSUME NEW q, Request(q), NEW x
  PROVE  LET p == [q EXCEPT !.node = x]
         IN  Request(p) /\ p.id = q.id /\ p.request = q.request /\ p.inbox = q.inbox
  BY DEF Request

\* A request of which only the inbox or the node's copy has changed.
LEMMA RpcUpdated ==
  ASSUME WalletInv, rpc # <<>>, UNCHANGED <<disk, db, prompt, req_id, out>>,
         NEW p, rpc' = <<p>>, Request(p), p.id = rpc[1].id, p.request = rpc[1].request,
         p.inbox \in Seq(MessagesFor(rpc[1]))
  PROVE  WalletInv'
  <1>1. /\ init' = init /\ accounts' = accounts /\ owned' = owned /\ db' = db
        /\ prompt' = prompt /\ req_id' = req_id /\ out' = out
    BY DEF disk
  <1>2. req_id \in Nat /\ req_id # MAX_ID /\ rpc[1].id # MAX_ID
    BY DEF WalletInv, RpcInv, AnswerMatchesRequest
  <1>3. rpc'[1] = p /\ rpc' = <<rpc'[1]>>
    OBVIOUS
  <1>4. MessagesFor(p) = MessagesFor(rpc[1])
    BY DEF MessagesFor
  <1>5. RpcInv'
    BY <1>1, <1>2, <1>3, <1>4 DEF RpcInv, Request
  <1>6. AnswerMatchesRequest'
    BY <1>1, <1>2, <1>3 DEF WalletInv, AnswerMatchesRequest
  <1>7. DbInv' /\ AccountsRecoverable' /\ PanicsAreKnown'
    BY <1>1 DEF WalletInv, DbInv, AccountsRecoverable, PanicsAreKnown
  <1> QED
    BY <1>5, <1>6, <1>7 DEF WalletInv

\* What a node sends carries the request it was sent, and its id.
LEMMA StepNodeSends ==
  ASSUME WalletInv, NEW body \in Bodies, NodeSends(body)
  PROVE  WalletInv'
  <1> DEFINE q == rpc[1]
             m == Msg(body)
             node == IF body \in {"Response", "Error", "Io"} THEN <<>> ELSE q.node
             h == [q EXCEPT !.inbox = Append(q.inbox, m)]
             p == [h EXCEPT !.node = node]
  <1>1. /\ rpc # <<>> /\ UNCHANGED <<disk, db, prompt, req_id, out>>
        /\ rpc' = [rpc EXCEPT ![1].inbox = Append(q.inbox, m), ![1].node = node]
    BY DEF NodeSends
  <1>2. rpc = <<q>> /\ Request(q) /\ q.inbox \in Seq(MessagesFor(q))
    BY <1>1 DEF WalletInv, RpcInv, Request
  <1>3. m \in MessagesFor(q)
    BY DEF Msg, MessagesFor, Bodies
  <1>4. rpc' = [rpc EXCEPT ![1] = p]
    BY <1>1, <1>2
  <1> HIDE DEF m, node
  <1>5. Request(h) /\ h.id = q.id /\ h.request = q.request /\ h.inbox = Append(q.inbox, m)
    BY <1>2, UpdateInbox
  <1> HIDE DEF h
  <1>6. Request(p) /\ p.id = q.id /\ p.request = q.request /\ p.inbox = Append(q.inbox, m)
    BY <1>5, UpdateNode
  <1> HIDE DEF p
  <1>7. rpc' = <<p>>
    BY <1>2, <1>4, UpdateOne
  <1>8. p.inbox \in Seq(MessagesFor(q))
    BY <1>2, <1>3, <1>6
  <1> QED
    BY <1>1, <1>6, <1>7, <1>8, RpcUpdated

\* The answer shown is a message on the connection of the request.
LEMMA StepAnswered ==
  ASSUME WalletInv, rpc # <<>>, rpc[1].inbox # <<>>, Answered
  PROVE  WalletInv'
  <1>1. /\ rpc[1].inbox \in Seq(MessagesFor(rpc[1])) /\ req_id \in Nat /\ req_id # MAX_ID
    BY DEF WalletInv, RpcInv, AnswerMatchesRequest
  <1>2. Head1 \in MessagesFor(rpc[1])
    BY <1>1 DEF Head1
  <1>3. Head1.re = rpc[1].request /\ (Head1.id = rpc[1].id \/ Head1.body = "Io")
    BY <1>2 DEF MessagesFor
  <1>4. /\ init' = init /\ accounts' = accounts /\ owned' = owned /\ db' = db
        /\ prompt' = prompt /\ req_id' = req_id /\ rpc' = <<>>
        /\ out' = [kind |-> "answer", reason |-> <<>>, re |-> <<rpc[1].id, rpc[1].request>>,
                   msg |-> <<Head1>>]
    BY DEF Answered, disk, Result
  <1>5. AnswerMatchesRequest'
    <2>1. /\ out'.re[1] = rpc[1].id /\ out'.re[2] = rpc[1].request /\ out'.msg[1] = Head1
      BY <1>4
    <2> QED
      BY <2>1, <1>1, <1>3, <1>4 DEF AnswerMatchesRequest
  <1>6. PanicsAreKnown' /\ RpcInv'
    BY <1>1, <1>4 DEF PanicsAreKnown, RpcInv
  <1>7. DbInv' /\ AccountsRecoverable'
    BY <1>4 DEF WalletInv, DbInv, AccountsRecoverable
  <1> QED
    BY <1>5, <1>6, <1>7 DEF WalletInv

LEMMA StepReadMessage == ASSUME WalletInv, read_message PROVE WalletInv'
  <1> DEFINE q == rpc[1]
             p == [q EXCEPT !.inbox = Tail(q.inbox)]
  <1>1. rpc # <<>> /\ q.inbox # <<>>
    BY DEF read_message
  <1>2. /\ rpc = <<q>> /\ Request(q) /\ q.inbox \in Seq(MessagesFor(q))
        /\ req_id \in Nat /\ req_id # MAX_ID
    BY <1>1 DEF WalletInv, RpcInv, AnswerMatchesRequest, Request
  <1>3. CASE Answered
    BY <1>1, <1>3, StepAnswered
  <1>4. CASE Dies("send_rpc_req", "connection")
    <2>1. <<"send_rpc_req", "connection">> \in KnownPanics
      BY Known
    <2> QED
      BY <1>4, <2>1, StepDies
  <1>5. CASE rpc' = Rest /\ UNCHANGED <<disk, db, prompt, req_id, text, out>>
    <2>1. rpc' = [rpc EXCEPT ![1] = p]
      BY <1>2, <1>5 DEF Rest
    <2>2. Request(p) /\ p.id = q.id /\ p.request = q.request /\ p.inbox = Tail(q.inbox)
      BY <1>2, UpdateInbox
    <2> HIDE DEF p
    <2>3. rpc' = <<p>>
      BY <1>2, <2>1, UpdateOne
    <2>4. p.inbox \in Seq(MessagesFor(q))
      BY <1>1, <1>2, <2>2
    <2> QED
      BY <1>1, <1>5, <2>2, <2>3, <2>4, RpcUpdated
  <1>6. CASE /\ rpc' = <<>>
             /\ out' = [Result("undecodable") EXCEPT !.msg = Tail(rpc[1].inbox)]
             /\ UNCHANGED <<disk, db, prompt, req_id, text>>
    <2>1. /\ init' = init /\ accounts' = accounts /\ owned' = owned /\ db' = db
          /\ prompt' = prompt /\ req_id' = req_id /\ out'.kind = "undecodable"
      BY <1>6 DEF disk, Result
    <2>2. PanicsAreKnown' /\ AnswerMatchesRequest' /\ RpcInv'
      BY <1>2, <1>6, <2>1 DEF PanicsAreKnown, AnswerMatchesRequest, RpcInv
    <2>3. DbInv' /\ AccountsRecoverable'
      BY <2>1 DEF WalletInv, DbInv, AccountsRecoverable
    <2> QED
      BY <2>2, <2>3 DEF WalletInv
  <1>7. CASE Dies("send_rpc_req", "no memory")
    <2>1. <<"send_rpc_req", "no memory">> \in KnownPanics
      BY Known
    <2> QED
      BY <1>7, <2>1, StepDies
  <1> QED
    BY <1>3, <1>4, <1>5, <1>6, <1>7 DEF read_message

-----------------------------------------------------------------------------
(* The theorems.                                                           *)

LEMMA InitWallet == Init => WalletInv
  <1> SUFFICES ASSUME Init PROVE WalletInv
    OBVIOUS
  <1> USE DEF Init
  <1>1. DbInv /\ RpcInv
    BY DEF DbInv, RpcInv, Down
  <1>2. out.kind = "ok"
    BY DEF Result
  <1>3. PanicsAreKnown /\ AnswerMatchesRequest
    BY <1>2, WalletAssumption DEF PanicsAreKnown, AnswerMatchesRequest
  <1>4. AccountsRecoverable
    BY DEF AccountsRecoverable, Down
  <1> QED
    BY <1>1, <1>3, <1>4 DEF WalletInv

LEMMA StepLine == ASSUME WalletInv, LineHandled PROVE WalletInv'
  <1>1. CASE process_line \/ args_to_bin \/ build_script
    BY <1>1, StepProcessLine, StepReadsWords
  <1>2. CASE \E pass \in Passwords : create_wallet(pass)
    BY <1>2, StepCreate
  <1>3. CASE \E pass \in Passwords \cup {"wrong"} : unlock(pass)
    BY <1>3, StepUnlock
  <1>4. CASE gen_keypair \/ account_id_to_address \/ check_script_size \/ decode_tx
             \/ list \/ get
    BY <1>4, StepPrints DEF gen_keypair, account_id_to_address, check_script_size,
       decode_tx, list, get
  <1>5. CASE \E name \in Names, t \in Typed : import(name, t)
    BY <1>5, StepImport
  <1>6. CASE \E name \in Names : delete(name) \/ sign_tx(name)
    BY <1>6, StepDelete, StepSign
  <1>7. CASE \E t \in Typed : \/ build_create_tx(t) \/ build_transfer_tx(t) \/ build_update_tx(t)
                              \/ get_acc_info(t)
    BY <1>7, StepBuilds, StepGetAccInfo
  <1>8. CASE \E i \in 1..SIGS : unsign_tx(i)
    BY <1>8, StepUnsign
  <1>9. CASE broadcast \/ get_properties \/ get_block \/ build_mint_tx
    BY <1>9, StepSend, StepBuildMint DEF broadcast, get_properties, get_block
  <1> QED
    BY <1>1, <1>2, <1>3, <1>4, <1>5, <1>6, <1>7, <1>8, <1>9 DEF LineHandled

LEMMA NextWallet == ASSUME WalletInv, [Next]_wvars PROVE WalletInv'
  <1>1. CASE NodeAnswers \/ \E body \in {"Ping", "Text", "Junk"} : NodeSends(body)
    BY <1>1, StepNodeSends DEF NodeAnswers, Bodies
  <1>2. CASE ConnectionBreaks
    <2>1. <<"send_rpc_req", "connection">> \in KnownPanics
      BY Known
    <2> QED
      BY <1>2, <2>1, StepDies DEF ConnectionBreaks
  <1>3. CASE UNCHANGED wvars
    BY <1>3 DEF wvars, WalletInv, DbInv, RpcInv, PanicsAreKnown, AccountsRecoverable,
       AnswerMatchesRequest
  <1> QED
    BY <1>1, <1>2, <1>3, StepStart, StepKilled, StepLine, StepReadMessage DEF Next

\* The invariant holds for every sequence of lines, kills, restarts and messages.
THEOREM WalletInvariant == Spec => []WalletInv
  BY InitWallet, NextWallet, PTL DEF Spec

\* A line kills the wallet for a reason of KnownPanics only: what was typed, what the
\* node sent, or an update while the wallet is locked (process_line, get_accounts,
\* from_wif, send_rpc_req).
THEOREM KnownPanicsOnly == Spec => []PanicsAreKnown
  <1>1. WalletInv => PanicsAreKnown
    BY DEF WalletInv
  <1> QED
    BY <1>1, WalletInvariant, PTL

\* The database holds what was imported and not deleted, sealed under the key that
\* the password opens (Db::set_password, Db::set_account, Db::unlock).
THEOREM Recoverable == Spec => []AccountsRecoverable
  <1>1. WalletInv => AccountsRecoverable
    BY DEF WalletInv
  <1> QED
    BY <1>1, WalletInvariant, PTL

\* An answer is the node's answer to the request it is shown for (send_rpc_req,
\* which compares no ids).
THEOREM AnswersMatch == Spec => []AnswerMatchesRequest
  <1>1. WalletInv => AnswerMatchesRequest
    BY DEF WalletInv
  <1> QED
    BY <1>1, WalletInvariant, PTL

=============================================================================
