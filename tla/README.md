# A verification project for erc4337-api

The service is an HTTP API in Go that keeps ERC-4337 smart accounts ("wallets")
for one owner key. It creates accounts, sends user operations on their behalf
through a bundler, has a paymaster pay for them, and grants every new account
some tokens first. This directory holds TLA+ models of it, TLC configurations
that check them on small instances, and proofs for TLAPS.

## 1. Inventory

| component | source | state | operations |
|---|---|---|---|
| token minting | `internal/contracts/contracts.go` | the grant `initialETH`, one `big.Int` shared by all handlers | `MintToken`, `getValueInToken`, `getNonce` |
| user operation | `internal/model/userOp.go`, `utils/address.go`, `internal/bundler/bundler.go` | none; a value per request | `Pack`, `EncodePaymasterData`, the request members, `IsZeroAddress`, `markUpGas` |
| operation pipeline | `internal/usecase/usecase.go` | the request's local variables | `SendUserOperation` |
| operation status | `usecase.go`, `bundler.go` | none | `GetUserOperationStatus` |
| wallet handlers | `internal/api/api.go` | the handler's local variables | `POST /wallet`, `/wallet/:address/send`, the two transfers |
| wallet table | `internal/store/sqlite/sqlite.go` | table `wallet` | `CountWallet`, `CreateWallet`, `GetWallet`, `GetAllWallet` |
| read endpoints | `api.go`, `contracts.go`, `sqlite.go` | the handler's local variables, the response | `GET /wallet`, the two balances, the status |
| process wiring | `main.go`, `contracts.go` | configuration, keys, the copies of `Contracts` | `main`, `LoadConfig`, the setters, `GetSenderAddres` |
| contract events | `generated/abi/` | per call: channels, a goroutine, an iterator | for each of 17 events `Filter`, the iterator's `Next` and `Close`, `Watch`, `Parse` |
| contract methods | `generated/abi/` | none | wrappers of constructors, calls and transactions; not modelled |
| code without a caller | `contracts.go`, `usecase.go`, `internal/model/` | none | not modelled |

External to the repository, and modelled only as far as its code relies on them:
the node's view of the owner's account, the bundler with its mempool, the
EntryPoint, account and paymaster contracts, the node's logs, and go-ethereum's
subscriptions.

How they interact: echo runs one goroutine per request. A handler calls
`SendUserOperation`, which makes about ten RPCs one after the other and, for an
account without code, calls `MintToken`, which makes three more and waits for a
block. Handlers share the grant (a pointer inside a `Usecase` that is otherwise
copied), the owner's account, the table, and through the chain the accounts.
There is no lock anywhere. Only the table and the chain outlive the process. The
event bindings are offered beside the service, which does not subscribe to events.

What is hard here, and what makes each component correct:

* *Minting.* The grant is divided in place, without synchronisation, and read
  again two RPCs later. The owner's nonce is read two RPCs before its use. The
  wait has no deadline. Correct: mints stay within the bound, a call divides the
  grant once at most, nonces have no gap, a waiting call is one whose transaction is
  known or has lost its nonce.
* *Pipeline and user operation.* Code, nonce, gas and fees are read at different
  times and acted on later. Two signatures must cover the final fields, and the
  bundler packs them anew, from numbers that may be wider than half a word or out
  of `int64`. Correct: what is submitted verifies; it follows the mint; an account
  never has two operations pooled, nor one with another nonce than its next, and a
  creation that comes too late takes two creations of the account.
* *Handlers and table.* The salt is the number of rows plus one, and the row is
  inserted after the operation has been submitted. Anything may fail in between.
  Correct: the salt in use never runs ahead of the rows, a creation starts on an
  unregistered wallet, only submitted accounts are registered, and without overlap
  the table lists the salts in order and an account that was submitted but not
  registered is found again by the next creation.
* *Reads.* A list is read row by row while rows are added, `rows.Err()` is not asked,
  and a handler goes on after an error it has already answered. Correct: a list
  holds what was answered before, a balance answered as one is the node's.
* *Status.* A replaced, evicted, pending or reverted operation is no success.
* *Wiring.* `Contracts` is copied by value into the use case and the handlers, and
  `GetSenderAddres` appends to a package variable, in place if the slice has room.
  Correct: the address submitted for, created and registered is one.
* *Events.* Rules go by position and structs by name. `Next` selects between two
  channels that may both be ready; a `Watch` goroutine may hold an event nobody
  takes. Correct: the events asked for, complete and in order, or a reason why not.

`PROJECT.json` lists the hazards line by line with the properties aimed at them.

## 2. Modules

    Accounts                     addresses, salts, CREATE2
      OwnerAccount (external)    the owner's nonce and transactions
        MintToken                Contracts.MintToken         MintTokenProofs
      UserOperation              packing, request, signatures
        EntryPoint (external)    bundler and EntryPoint
          SendUserOperation      MintToken + EntryPoint      SendUserOperationProofs
            AccountLife          what an account goes through (abstract)
            OperationStatus      GetUserOperationStatus
            WalletApi            handlers and table          WalletApiProofs
              WalletRegistry     what creation promises (abstract)
              ReadEndpoints      the GET handlers: WalletApi + OperationStatus
                                                             ReadEndpointsProofs
    ProcessWiring                main and GetSenderAddres    ProcessWiringProofs
    ContractEvents               17 bindings, their ABIs     ContractEventsProofs
      LogIterator                Filter and its iterator     LogIteratorProofs
      LogWatch                   Watch                       LogWatchProofs
        LogStream                what both promise (abstract)

The `MC` modules hold the values of the constants for TLC. Definitions whose name
extends that of another and whose comment begins with *Fault* are plausible bugs;
`PROJECT.json` pairs each with the property that notices it.

### Correspondence

* `mintPc[r]`, `opPc[r]` and `apiPc[r]` say where request `r` is in `MintToken`,
  `SendUserOperation` and its handler. An action runs from one RPC, statement or
  shared access to the next; what lies between is local and is part of it.
* The grant: `DivLoad` and `DivStore` are the read and the write of
  `amountInETH.Div(amountInETH, 100)`, separate because nothing orders them
  between goroutines. `MintTx` reads `initialETH` when the transaction is built,
  for `tokenValue` is the same pointer. Go's memory model permits worse for a data
  race on the words of a `big.Int`; a value of one ether is a single word on the
  64-bit platforms, and torn words are not modelled.
* Failures: every RPC may fail (`MintRpcError`, `OpRpcError`), and a submission
  may succeed with its answer lost (`SendMintTxLost`, `SendOpLost`). Bind and
  database errors are `Reject` and `InsertFails`. A crash (`Restart`) ends all
  requests, resets the grant and keeps table and chain.
* Panic: `[32]byte(simpleOp.WalletSalt)` of a nil slice (`CodeAtPanic`). `net/http`
  recovers it per connection, so that it ends the request only. As no middleware
  recovers before, the connection is closed without a response (`panicked`).
* Senders: `POST /wallet/:address/send` takes any address (`PostSend`), a transfer a
  row of the table. The configured contracts have code, too (`HasCode`), so that the
  pipeline runs for them as for an account, up to the bundler, which refuses a
  sender that cannot validate (`AcceptOp`). All other addresses have code once the
  EntryPoint has created them.
* `AcceptOp` takes every operation of an account whose nonce is not used up, also one
  whose creation comes too late, as it is when the account is created between the
  simulation and the pooling. A bundler that refuses it is `OpRpcError`.
* User operations are records of symbolic values. A hash is the data hashed, a
  signature a pair of key and hash. `SendRequest` builds the bundler's packed
  operation from the request's members, independently of `Pack`, as a bundler
  does; the signature checks compare the two. Amounts are in gwei.
* Widths: the halves of the packed words are bytes. A number that does not fit its
  half stays wider, and the conversion cuts the concatenation; negative numbers
  lose their sign. `markUpGas` out of the range of `int64` is what the processor
  makes of it. `InRange` is what a bundler accepts: what it
  refuses is not submitted, and nothing is claimed of it.
* `IsZeroAddress` gets the dynamic type of its argument, on which the code
  switches: for pointers it is false.
* An initCode that names the zero address creates nothing in `IncludeOp`. A
  bundler may instead refuse it; that is `OpRpcError` or `EvictOp`. Safety results
  hold either way.
* The schema of table `wallet` is not in the repository. A uniqueness constraint
  would make some inserts fail, which `InsertFails` covers.
* `ReadEndpoints`: a response takes the status of its first write and the bodies
  of all, as echo's does. `asked` and `broke` record what the properties relate an
  answer to; the handlers know neither.
* `ProcessWiring`: `LoadConfig` merges file and environment as viper does, the
  setters are applied in `main`'s order, and `tail` is the memory behind the
  creation code, two words, written one at a time. Whether `append` writes in place
  depends on the capacity of the slice, so `spare` is either. `sender`, `row` and
  `created` are the three derivations of an account's address.
* `ContractEvents`: the generated code of two events differs in the names and the
  order of the arguments only, so a binding (rules in the order of `Filter` and
  `Watch`, members of the struct) stands for an event's block, and `LogIterator`
  and `LogWatch` name the lines of `UserOperationEvent`. The embedded ABIs are
  modelled apart from the bindings, as go-ethereum decodes by them.
* `AccountLife` knows neither requests nor bundler: an account is paid for, created
  by its first operation, and then executes one operation after the other. Seen
  from `SendUserOperation`, `funded` is whom the mints on chain are for, `live` what
  the mempool holds of each account, and `executed` its receipts in the order of
  their nonces.
* `PushLog`, `ProducerReturns` and the two halves of `Close` and `Unsubscribe` are
  go-ethereum's; a select with several ready cases takes any of them.

### What the externals leave out

The node's pool does not drop an accepted transaction, except for one with the
same nonce, and the chain does not reorganise. The owner key is used by this
service alone. Accounts are not created by others. Mints on chain are not told
apart by their success.

## 3. Runs

| run | instance | shows |
|---|---|---|
| `mint_concurrent` | 3 calls, 1 restart, fair | type invariant, `GrantBounded`, `DividedOncePerCall`, `NoncesContiguous`, `WaiterAccountedFor`, `MintReturns` |
| `mint_unequal_grants` | 2 calls without overlap | *violated* `EqualGrants` |
| `send_concurrent` | 3 requests, 1 account | type invariant, `MempoolCurrent`, `StrandedByCreations`, and `AccountLife` as a refinement |
| `send_two_wallets` | 2 requests, 2 accounts, 1 restart, 3 estimates, 2 fees | `CreationFunded`, `SubmittedVerifies`, and `MintSpec` as a refinement |
| `send_zero_factory` | 2 requests, 1 account | *violated* `OmitsZeroFactory` |
| `api_concurrent` | 2 requests, 2 salts, 1 restart, fair | type invariant, `RowsWithinIndex`, `CreationIsFresh`, `ProvidedWithinNext`, `RegisteredWasSubmitted`, `SpenderRegistered`, `RequestAnswered` |
| `api_sequential` | 3 requests without overlap, 3 salts, 1 restart | `RowsAreSalts`, `OrphanIsNext`, and `WalletRegistry` as a refinement |
| `reads` | 1 read among 2 writing requests, 2 salts, 1 restart | `ListReadsWrites`, `BalanceIsReal`, `TrueMeansExecuted` |
| `status_pending` | 2 requests, 1 account | *violated* `FalseMeansFailed` |
| `process_wiring` | 3 overlapping creations, 2 salts, files and environments with a key missing, malformed or overridden | `AddressesAgree`, `SignsAsOwner` |
| `log_iterator` | every event, criteria and chain; fair | type invariant, `SelectedByArguments`, `FalseIsComplete`, `LogStream` as a refinement, `NextReturns`, `ProducerReleased` |
| `log_watch` | three events, every criteria and chain; fair | type invariant, `ReceivesWanted`, `EndIsExplained`, `LogStream` as a refinement, `UnsubscribeEnds`, `UpstreamEndIsTold` |

Bounds. `Requests` is finite, and each request is made once; runs therefore end,
and deadlock is not checked. Two requests are enough for every pairwise race (one
nonce, one salt, one account), and a third lets one observe what two have left
behind. `MaxRestarts` is one: a second crash finds nothing the first does not
leave. `MaxSalt` is at least the number of creations a run can complete, or the
bound in `PostWallet` would hide them, but for `api_concurrent` and `reads`, whose
two requests cannot complete more than two anyway. `InitialETH` is 10000 so that
the first two divisions leave something. `Estimates` contains the zeros that
missing members of an answer turn into. A byte has 16 values (`Byte`), half a word
5 bytes (`Half`) and the greatest `int64` is 100000 (`MaxInt64`): these keep the
order of the real widths, in which the marked-up fee may leave `int64`, and one of
the fees, the greatest number of five bytes, exercises it. Chains of events have
up to two emissions and channels a place for one (`Capacity`), enough for a full
channel, a log behind it, and a log of a foreign shape before and after a good one.
Requests are interchangeable, which is why the safety runs use symmetry; runs with
liveness properties do not.

`Sequential = TRUE` says that clients do not let requests overlap. It is an
assumption about clients, and the properties checked under it say so. Without it,
`RowsAreSalts` and `OrphanIsNext` do not hold: two overlapping creations share a
salt, mint twice and insert two rows, after which one salt is passed over. (This
takes a third creation, one more than `api_concurrent` has; the theorems are for any
number.) What holds however they overlap is, for the table, that the i-th row is of
one of the first i salts (`RowsWithinIndex`) and that only creations that counted the
rows before either inserted its own give two rows to one wallet (`CreationIsFresh`);
and for all that was minted for or submitted `ProvidedWithinNext`: nothing is provided
for beyond the salt that the next creation takes. It does not say that the account is
found again: that of a salt passed over is not.

Three properties describe how far a harm goes that the code does not prevent.
`StrandedByCreations`: whether the account has code is read before the mint, its nonce
after it, so that of two overlapping creations of one account the second may submit
an operation that is never included; nothing else leads there. `DividedOncePerCall`:
overlapping calls may mint one quotient, or one that a later call stored, but never
one smaller than as many divisions as calls make. `RequestAnswered`: a request gets
its response unless the process dies, its mint is superseded, or it names an address
without code and panics at `usecase.go:77`, which no creation does. And a list of
`GET /wallet` that breaks off is a part of the table (`ListReadsWrites`).

Fairness. `HandlerStep` and `MintStep` are weakly fair per request: goroutines are
scheduled, and every RPC and statement returns, with an error if need be. `MintMine`
is weakly fair: blocks are produced. Nothing is assumed of the bundler, and no
outcome of an RPC is. Even so `WaitMined` may never return, when the transaction
was replaced; `Superseded` names this state, and the liveness properties except
precisely it. For events, the steps inside `Next`, the producer's, the watch
goroutine's and the return of `Close` and `Unsubscribe` are weakly fair, as
goroutines are; the caller need not call, the node need not push, and a select is
not assumed to choose each ready case in the end.

### Disagreements found

1. `EqualGrants`: the in-place division makes each grant a hundredth of the one
   before, failed attempts included, and the tenth creation after a start mints 0.
2. `OmitsZeroFactory`: for operations on existing accounts the request names
   factory `0x00..00`, as `IsZeroAddress` does not see through the pointer. `Pack`
   puts the same twenty zero bytes into `initCode`, so that the signatures hold.
3. `FalseMeansFailed`: a pending operation's status is `false`, like a failed one's.

## 4. Proofs

All of them hold for any number of requests, salts, restarts and answers, and use
the named assumptions on constants only: the initial grant and the bounds are
naturals, the configured addresses exist, CREATE2 maps salts to non-zero addresses
without collision, a byte has at least two values, fees and estimates are
integers, the data of a transfer is not that of an empty call, and a call of a
`Filter` or `Watch` is for a bound event, with a value for each of its rules, over a
chain of any length on which the event's emissions carry its arguments (`WellFormed`).
Three of the results assume `Sequential` besides and say so.

`MintTokenProofs`

* `MintTypeCorrect`: by induction, an action at a time.
* `GrantIsBounded`: `GrantBounded` is about accepted transactions, and what will
  be accepted is in the cell. `GrantInv` adds that the cell is within the bound
  while any call is between its own `DivStore` and its submission, and that a
  quotient not stored yet is within it too. A restart puts the full grant back, but
  ends all calls.
* `NoncesAreContiguous`, `WaitersAreAccountedFor`: `NonceInv` adds that a nonce in
  hand is at most the node's, and that of a waiting call is below it. Accepting a
  transaction then extends the used nonces by one or not at all.
* `TargetInvariant`: a transaction mints for the address its call was made for, and
  a call that returned without an error is mined. Later modules build on it.
* `DividedAtMostOncePerCall`: the cell is at least the grant divided once for every
  call that has stored a quotient or died, and a quotient in hand is at least one division more
  (`DivInv`). That the floors of repeated division are monotone is induction on the
  recursive function `Hundredths`, which the library's theorems cannot be used for;
  well-foundedness of the naturals, as a set, gives it (`NaturalsByStep`). A restart
  puts the full grant back and takes no call out of the count.

`SendUserOperationProofs` begins with lemmas about user operations: a number that
fits is packed to half a word; so, in range, `Pack` and the bundler's packing agree
(`RequestIsPacked`), the two hashes cover what they should, and a signed operation's
request verifies.

* `SendInvariant`: the sender of a request with a salt is the account of this salt,
  so that only accounts of salts are minted for; any other sender may be anything.
* `SendImplementsMint`: by it every step is a step of `MintSpec` or a stutter, which
  carries the theorems above over. `SendTypeCorrect` follows.
* `MempoolIsCurrent`, `AtMostOneOpIsLive`: `MempoolInv` adds that a nonce in hand is
  at most the account's. The bundler takes none that is lower, so what it takes
  carries the account's very nonce and displaces what is pooled.
* `CreationIsFunded`: `FundInv` says that a request whose operation names a factory
  is at its mint, has failed at it, or has it on chain, for its own address.
* `SubmittedOpsVerify`: `SignInv` follows an operation to its submission. It is
  unsigned until the paymaster has signed; the paymaster's signature survives the
  owner's because its hash covers neither; the owner's covers everything else.
* `SendImplementsLife`: three invariants make every step one of `AccountLife`.
  `ReceiptInv`: an account's receipts carry the nonces from 0 to its own, each once,
  so that they form a sequence, to which an inclusion appends (`InclusionExecutes`);
  and it has code from the first one on. `CreationInv`: an operation that does not
  create its account was begun when the account had code, hence reads a nonce above
  0: none of them can come first, and the bundler refuses the contracts that have
  code but are no accounts. `FundInv` and `MempoolInv` are those above. A
  transaction mined is `Fund`, what the bundler takes is `Submit` (it has the next
  nonce and replaces what is live), inclusion and eviction are `Execute` and `Drop`,
  and all other steps change nothing that `AccountLife` sees.
* `StrandedTakesTwoCreations`: by `OriginInv`, what asks for a creation is what a
  request with the account's salt has ended with, and what does not was submitted
  for an account in place. A creation pooled for an account in place carries a nonce
  above 0, while by `ReceiptInv` the account executed one with nonce 0, which has
  created it and hence comes from another request.

`WalletApiProofs`

* `ApiInvariant`: a salt in use is at most the number of rows plus one, for the
  table does not shrink; from that `RowsAreWithinIndex`, and `CreationsAreFresh`, as
  the next salt is past those of all rows and CREATE2 has no collisions.
* `ApiImplementsSend`: the handlers call `SendUserOperation` as `SendSpec` allows, by
  a salt within the bound or by an address. `TypeCorrect` and
  `ServiceInvariants` collect what carries over.
* `ProvidedAreWithinNext`: `ProvidedIn(S)` says that what has code, was submitted,
  is minted for, or is in the pipeline past its look at the code, lies in the set
  `S`, or is a configured contract, for which nothing is accepted. A step keeps it, in
  an `S` that grows, if what is found without code is in `S` (`ProvidedStep`). For the wallets that the table has reached and the next one
  (`Reached`) this is so, as a request's salt is at most the next.
* `RegisteredWasSubmittedFirst`: `SubmitInv` adds that a handler about to insert has
  sent its operation.
* `SpendersAreRegistered`: `SpendInv` carries the handler's check along with the
  operation, whose sender and call data no later step changes.
* `TableListsSalts`, `NoAccountIsOrphaned`, under `Sequential`: at most one request
  is being handled, and its salt is still the next one when its row is inserted
  (`SequentialInv`). By `ProvidedStep` again, now for the rows and the account of
  the next salt, what was submitted or minted for is one of these (`OrphanInv`),
  which is where the next creation starts.
* `ApiImplementsRegistry`, under `Sequential`: the table holds no account twice, so
  its length is the number of its accounts (`CountInv`), and the accounts submitted
  for are as many, or one more, by the invariants above. A step that adds one is
  `Provision`, a step that adds a row is `Register`.
* `ServiceImplementsLife`: accounts live as `AccountLife` has it in the service, too.

`ReadEndpointsProofs`

* `ReadsImplementService`: readers change nothing of the service, so that all that
  is proved of `Spec` holds among them.
* `SuccessMeansExecuted`: by `ReceiptInv` the nonces of receipts lie behind their
  account's and belong to one operation each. Pooled operations carry the
  account's very nonce (`MempoolInv`), hence are none of these.
* `BalancesAreReal`: `ResponseInv` says that nothing is written before a handler's
  last step but the error of `GetERC20Balance`, whose status the later write keeps.
* `ListsReadWrites`: a wallet whose creation was answered is a row, and the table
  only grows (`TableGrows`), so the rows taken stay its first ones (`ListInv`).

`ProcessWiringProofs`: both copies are complete when the first request is accepted
(`Wired`); so all requests write the same words, and one that has written its words
finds them (`WordsThere`), whoever wrote last. `AllAddressesAgree` and
`ServiceSignsAsOwner` follow, for every configuration and number of requests.

`ContractEventsProofs` has lemmas only, for every event, call and chain.
`BindingsAgree`: in each of the seventeen blocks the rules by position, the members
of the struct and the ABI's order name the same arguments. So a log matches the
topics of a query exactly when its arguments, by name, have the values asked for
(`MatchesByName`), what unpacks is what was emitted (`UnpackedIsEmitted`), and a log
of the contract that does not is of a foreign shape (`UndecodableIsForeign`). The
node's answer is then, in order, the events wanted (`FoundAreWanted`): by counting,
for each place of the chain, the places before it that match (`RanksCount`).

`LogIteratorProofs`, `LogWatchProofs`: the logs found are, at any moment, split into
those drawn, those in the channel and those still with the producer, in this order
(`Accounted`). With what is known where `Next` is about to return false, respectively
where the goroutine returns, this is inductive. It gives the type invariants,
`FalseMeansComplete` and `EndsAreExplained`, and that either implements `LogStream`,
for any subscription and capacity. `AnswerInv` adds that what was found answers the
caller's query and that each log delivered has unpacked; the accounting identifies
the log at hand, which is the one after those delivered. With the lemmas on events
this gives `SelectionIsByArguments` and `WantedAreReceived`.

Model-checked only: the liveness properties `MintReturns`, `RequestAnswered`,
`NextReturns`, `ProducerReleased`, `UnsubscribeEnds` and `UpstreamEndIsTold`, as
fairness and ENABLED are outside the prover's reach. Every invariant, action property
and refinement that a passing run checks is proved. Of the three runs that expect a
violation TLC's counterexample is the evidence.

## 5. Not modelled, and the plan

Not modelled:

* The contract methods' wrappers (constructors, call, transact, session types): each
  hands its arguments to go-ethereum and keeps no state. The methods the service
  calls are steps of the modules of their callers.
* Code without a caller: `GetSenderAddressFromInitCode`, `GetInitCode`,
  `getTransactionOps`, the types of `rpc.go` and of `model/bundler.go`.
* Whether a mint on chain succeeded: `MintToken` drops the receipt
  (`contracts.go:238`), so the code does not tell, and nothing in the repository
  promises it.
* The amounts of transfers (`api.go:143`) and the other text formats: call data are
  values that the account contract alone takes apart.

Next, in this order:

1. A receipt status for mints, with the accounts that are created without a grant.
2. Torn reads of the shared grant on 32-bit platforms, where one ether is two words.
