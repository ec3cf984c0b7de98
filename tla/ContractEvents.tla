--------------------------- MODULE ContractEvents ---------------------------
(***************************************************************************)
(* The events of the contracts as abigen binds them: for each event a      *)
(* struct, a filter, a subscription and a parser, all generated from one   *)
(* ABI, and the ABI itself, which the binding embeds and go-ethereum       *)
(* consults when it encodes a filter and decodes a log.                    *)
(*                                                                         *)
(* What ties them together is the order of arguments.  A filter passes its *)
(* rules by position, a log carries topics by position, and the struct is  *)
(* filled by name.  The generated code of two events differs in this only: *)
(* a binding here, with the iterator of LogIterator and the watch of       *)
(* LogWatch that take it, stands for the event's whole block of code.      *)
(***************************************************************************)
EXTENDS Integers, Sequences, FiniteSets

\* An event's binding: the rules in the order Filter and Watch pass them on, and
\* the struct's members (under their names in the ABI; Raw is left out).
Binding(contract, name, rules, others) ==
    [contract |-> contract, name |-> name, rules |-> rules,
     members |-> {rules[i] : i \in DOMAIN rules} \cup others]

AccountDeployed ==
    Binding("EntryPoint", "AccountDeployed", <<"userOpHash", "sender">>,
            {"factory", "paymaster"})

BeforeExecution ==
    Binding("EntryPoint", "BeforeExecution", <<>>, {})

Deposited ==
    Binding("EntryPoint", "Deposited", <<"account">>, {"totalDeposit"})

PostOpRevertReason ==
    Binding("EntryPoint", "PostOpRevertReason", <<"userOpHash", "sender">>,
            {"nonce", "revertReason"})

SignatureAggregatorChanged ==
    Binding("EntryPoint", "SignatureAggregatorChanged", <<"aggregator">>, {})

StakeLocked ==
    Binding("EntryPoint", "StakeLocked", <<"account">>,
            {"totalStaked", "unstakeDelaySec"})

StakeUnlocked ==
    Binding("EntryPoint", "StakeUnlocked", <<"account">>, {"withdrawTime"})

StakeWithdrawn ==
    Binding("EntryPoint", "StakeWithdrawn", <<"account">>,
            {"withdrawAddress", "amount"})

\* Fault: two rules of one type change places.
UserOperationEventSwapped ==
    Binding("EntryPoint", "UserOperationEvent",
            <<"userOpHash", "paymaster", "sender">>,
            {"nonce", "success", "actualGasCost", "actualGasUsed"})

UserOperationEvent ==
    Binding("EntryPoint", "UserOperationEvent",
            <<"userOpHash", "sender", "paymaster">>,
            {"nonce", "success", "actualGasCost", "actualGasUsed"})

UserOperationPrefundTooLow ==
    Binding("EntryPoint", "UserOperationPrefundTooLow",
            <<"userOpHash", "sender">>, {"nonce"})

UserOperationRevertReason ==
    Binding("EntryPoint", "UserOperationRevertReason",
            <<"userOpHash", "sender">>, {"nonce", "revertReason"})

Withdrawn ==
    Binding("EntryPoint", "Withdrawn", <<"account">>,
            {"withdrawAddress", "amount"})

ERC20Approval ==
    Binding("ERC20", "Approval", <<"owner", "spender">>, {"value"})

ERC20Transfer ==
    Binding("ERC20", "Transfer", <<"from", "to">>, {"value"})

PaymasterApproval ==
    Binding("Paymaster", "Approval", <<"owner", "spender">>, {"value"})

OwnershipTransferred ==
    Binding("Paymaster", "OwnershipTransferred",
            <<"previousOwner", "newOwner">>, {})

PaymasterTransfer ==
    Binding("Paymaster", "Transfer", <<"from", "to">>, {"value"})

BoundEvents ==
    {AccountDeployed, BeforeExecution, Deposited, PostOpRevertReason,
     SignatureAggregatorChanged, StakeLocked, StakeUnlocked, StakeWithdrawn,
     UserOperationEvent, UserOperationPrefundTooLow, UserOperationRevertReason,
     Withdrawn, ERC20Approval, ERC20Transfer, PaymasterApproval,
     OwnershipTransferred, PaymasterTransfer}

------------------------------------------------------------------------------
\* The ABIs that the bindings embed: each event's indexed and plain arguments.
Arguments(indexed, plain) == [indexed |-> indexed, plain |-> plain]

EntryPointABI ==
    [AccountDeployed |->
        Arguments(<<"userOpHash", "sender">>, <<"factory", "paymaster">>),
     BeforeExecution |-> Arguments(<<>>, <<>>),
     Deposited |-> Arguments(<<"account">>, <<"totalDeposit">>),
     PostOpRevertReason |->
        Arguments(<<"userOpHash", "sender">>, <<"nonce", "revertReason">>),
     SignatureAggregatorChanged |-> Arguments(<<"aggregator">>, <<>>),
     StakeLocked |->
        Arguments(<<"account">>, <<"totalStaked", "unstakeDelaySec">>),
     StakeUnlocked |-> Arguments(<<"account">>, <<"withdrawTime">>),
     StakeWithdrawn |->
        Arguments(<<"account">>, <<"withdrawAddress", "amount">>),
     UserOperationEvent |->
        Arguments(<<"userOpHash", "sender", "paymaster">>,
                  <<"nonce", "success", "actualGasCost", "actualGasUsed">>),
     UserOperationPrefundTooLow |->
        Arguments(<<"userOpHash", "sender">>, <<"nonce">>),
     UserOperationRevertReason |->
        Arguments(<<"userOpHash", "sender">>, <<"nonce", "revertReason">>),
     Withdrawn |-> Arguments(<<"account">>, <<"withdrawAddress", "amount">>)]

ERC20ABI ==
    [Approval |-> Arguments(<<"owner", "spender">>, <<"value">>),
     Transfer |-> Arguments(<<"from", "to">>, <<"value">>)]

PaymasterABI ==
    [Approval |-> Arguments(<<"owner", "spender">>, <<"value">>),
     OwnershipTransferred |-> Arguments(<<"previousOwner", "newOwner">>, <<>>),
     Transfer |-> Arguments(<<"from", "to">>, <<"value">>)]

ABI == [EntryPoint |-> EntryPointABI, ERC20 |-> ERC20ABI,
        Paymaster |-> PaymasterABI]

ArgumentsOf(e) == ABI[e.contract][e.name]

------------------------------------------------------------------------------
(***************************************************************************)
(* The node and go-ethereum.  An emission is what a contract emits: who    *)
(* ("bound" is the binding's address), the event's name, the values of its *)
(* arguments by name, and its shape.  A contract of another standard may   *)
(* emit an event of the same signature with every argument indexed, as an  *)
(* ERC-721 token does with Transfer.                                       *)
(***************************************************************************)
Values(names, args) == [i \in DOMAIN names |-> args[names[i]]]

Emit(e, emission) ==
    LET a == ArgumentsOf(e)
    IN  [address |-> emission.address,
         topics |-> <<emission.name>> \o Values(a.indexed, emission.args) \o
                    IF emission.shape = "declared" THEN <<>>
                    ELSE Values(a.plain, emission.args),
         data |-> IF emission.shape = "declared"
                  THEN Values(a.plain, emission.args) ELSE <<>>]

\* criteria: for each parameter of Filter or Watch the values asked for; an empty
\* slice asks for any.  eth_getLogs and eth_subscribe match topics by position.
Matches(e, criteria, log) ==
    LET query == <<{e.name}>> \o Values(e.rules, criteria)
    IN  /\ log.address = "bound"
        /\ Len(query) <= Len(log.topics)
        /\ \A i \in DOMAIN query : query[i] = {} \/ log.topics[i] \in query[i]

\* bind.UnpackLog: the signature, the number of topics, a member for each argument.
Unpacks(e, log) ==
    LET a == ArgumentsOf(e)
    IN  /\ log.topics[1] = e.name
        /\ Len(log.topics) = Len(a.indexed) + 1
        /\ \A i \in DOMAIN a.indexed : a.indexed[i] \in e.members
        /\ log.data # <<>> => \A i \in DOMAIN a.plain : a.plain[i] \in e.members

\* The struct: each member from the topic or the word of data at the place of its
\* name in the ABI, or zero if there is no data.
Unpacked(e, log) ==
    LET a == ArgumentsOf(e)
        Indexed(m) == {i \in DOMAIN a.indexed : a.indexed[i] = m}
        Plain(m) == {i \in DOMAIN a.plain : a.plain[i] = m /\ i \in DOMAIN log.data}
    IN  [m \in e.members |->
            CASE Indexed(m) # {} -> log.topics[1 + CHOOSE i \in Indexed(m) : TRUE]
              [] Plain(m) # {} -> log.data[CHOOSE i \in Plain(m) : TRUE]
              [] OTHER -> "zero"]

------------------------------------------------------------------------------
(***************************************************************************)
(* A subscription is a call of a Filter or Watch method: the event, the    *)
(* criteria, and the chain it is answered from.                            *)
(***************************************************************************)
\* The rank of i in S, counted from the smallest, and the element of rank k.
Rank(S, i) == Cardinality({j \in S : j <= i})

Nth(S, k) == CHOOSE i \in S : Rank(S, i) = k

\* What the node finds: eth_getLogs, or what eth_subscribe pushes one by one.
FilterLogs(s) ==
    LET RawLog(i) == Emit(s.event, s.chain[i])
        chosen == {i \in DOMAIN s.chain :
                     Matches(s.event, s.criteria, RawLog(i))}
    IN  [k \in 1..Cardinality(chosen) |-> RawLog(Nth(chosen, k))]

IsOf(m, e) == m.address = "bound" /\ m.name = e.name

\* A call that compiles, on a chain as the contract writes it: a value for each
\* parameter, and emissions with the ABI's arguments, in the ABI's shape or a
\* foreign one, which differs if there is an argument that is not indexed.
WellFormed(s) ==
    /\ s.event \in BoundEvents
    /\ DOMAIN s.criteria = {s.event.rules[i] : i \in DOMAIN s.event.rules}
    /\ s.chain \in Seq({s.chain[i] : i \in DOMAIN s.chain})
    /\ \A i \in DOMAIN s.chain :
          LET m == s.chain[i]
          IN  IsOf(m, s.event) =>
                /\ m.args = [p \in s.event.members |-> m.args[p]]
                /\ m.shape \in {"declared", "allIndexed"}
                /\ ArgumentsOf(s.event).plain = <<>> => m.shape = "declared"

\* Reference: where on the chain the emissions are that a caller asks for, by the
\* names of arguments.
WantedPlaces(s) ==
    {i \in DOMAIN s.chain :
        /\ IsOf(s.chain[i], s.event)
        /\ \A p \in DOMAIN s.criteria :
              s.criteria[p] = {} \/ s.chain[i].args[p] \in s.criteria[p]}

\* Events as delivered are the emissions asked for, in order and from the first.
AreWanted(s, events) ==
    LET wanted == WantedPlaces(s)
    IN  /\ Len(events) <= Cardinality(wanted)
        /\ \A i \in wanted :
              Rank(wanted, i) <= Len(events) =>
                /\ s.chain[i].shape = "declared"
                /\ events[Rank(wanted, i)] = s.chain[i].args

\* The n-th emission asked for is of a foreign shape.
IsForeign(s, n) ==
    \E i \in WantedPlaces(s) :
        Rank(WantedPlaces(s), i) = n /\ s.chain[i].shape # "declared"
=============================================================================
