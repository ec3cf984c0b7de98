------------------------ MODULE ContractEventsProofs ------------------------
(***************************************************************************)
(* Lemmas about the bound events, for every call and chain: the generated  *)
(* bindings agree with the ABIs, so that the node's choice by position is  *)
(* the caller's by name and a log becomes the arguments it was made of.    *)
(***************************************************************************)
EXTENDS ContractEvents, FiniteSetTheorems, TLAPS

Places(names) == {names[i] : i \in DOMAIN names}

\* No two arguments of an event have one name.
Distinct(indexed, plain) ==
    /\ indexed \in Seq(Places(indexed)) /\ plain \in Seq(Places(plain))
    /\ \A i, j \in DOMAIN indexed : indexed[i] = indexed[j] => i = j
    /\ \A i, j \in DOMAIN plain : plain[i] = plain[j] => i = j
    /\ \A i \in DOMAIN indexed, j \in DOMAIN plain : indexed[i] # plain[j]

\* A binding has the ABI's arguments, the indexed ones in the ABI's order.
Agrees(e) ==
    LET a == ArgumentsOf(e)
    IN  /\ e.rules = a.indexed
        /\ e.members = Places(a.indexed) \cup Places(a.plain)
        /\ Distinct(a.indexed, a.plain)

\* Lemma: what there is to see about a single binding.
LEMMA AgreesBy ==
    ASSUME NEW e, NEW indexed, NEW plain,
           ArgumentsOf(e) = [indexed |-> indexed, plain |-> plain],
           e.rules = indexed,
           e.members = Places(indexed) \cup Places(plain),
           Distinct(indexed, plain)
    PROVE  Agrees(e)
  BY DEF Agrees

\* Lemma: each of the seventeen bindings agrees with its ABI.
LEMMA BindingsAgree == ASSUME NEW e \in BoundEvents PROVE Agrees(e)
  <1>1. CASE e = AccountDeployed
    <2> DEFINE indexed == <<"userOpHash", "sender">>
               plain == <<"factory", "paymaster">>
    <2>1. ArgumentsOf(e) = [indexed |-> indexed, plain |-> plain]
      BY <1>1 DEF AccountDeployed, Binding, ArgumentsOf, Arguments,
                  ABI, EntryPointABI
    <2>2. e.rules = indexed /\ e.members = Places(indexed) \cup Places(plain)
      BY <1>1 DEF AccountDeployed, Binding, Places
    <2>3. Distinct(indexed, plain)
      BY DEF Distinct, Places
    <2> HIDE DEF indexed, plain
    <2> QED BY <2>1, <2>2, <2>3, AgreesBy
  <1>2. CASE e = BeforeExecution
    <2> DEFINE indexed == <<>>
               plain == <<>>
    <2>1. ArgumentsOf(e) = [indexed |-> indexed, plain |-> plain]
      BY <1>2 DEF BeforeExecution, Binding, ArgumentsOf, Arguments,
                  ABI, EntryPointABI
    <2>2. e.rules = indexed /\ e.members = Places(indexed) \cup Places(plain)
      BY <1>2 DEF BeforeExecution, Binding, Places
    <2>3. Distinct(indexed, plain)
      BY DEF Distinct, Places
    <2> HIDE DEF indexed, plain
    <2> QED BY <2>1, <2>2, <2>3, AgreesBy
  <1>3. CASE e = Deposited
    <2> DEFINE indexed == <<"account">>
               plain == <<"totalDeposit">>
    <2>1. ArgumentsOf(e) = [indexed |-> indexed, plain |-> plain]
      BY <1>3 DEF Deposited, Binding, ArgumentsOf, Arguments,
                  ABI, EntryPointABI
    <2>2. e.rules = indexed /\ e.members = Places(indexed) \cup Places(plain)
      BY <1>3 DEF Deposited, Binding, Places
    <2>3. Distinct(indexed, plain)
      BY DEF Distinct, Places
    <2> HIDE DEF indexed, plain
    <2> QED BY <2>1, <2>2, <2>3, AgreesBy
  <1>4. CASE e = PostOpRevertReason
    <2> DEFINE indexed == <<"userOpHash", "sender">>
               plain == <<"nonce", "revertReason">>
    <2>1. ArgumentsOf(e) = [indexed |-> indexed, plain |-> plain]
      BY <1>4 DEF PostOpRevertReason, Binding, ArgumentsOf, Arguments,
                  ABI, EntryPointABI
    <2>2. e.rules = indexed /\ e.members = Places(indexed) \cup Places(plain)
      BY <1>4 DEF PostOpRevertReason, Binding, Places
    <2>3. Distinct(indexed, plain)
      BY DEF Distinct, Places
    <2> HIDE DEF indexed, plain
    <2> QED BY <2>1, <2>2, <2>3, AgreesBy
  <1>5. CASE e = SignatureAggregatorChanged
    <2> DEFINE indexed == <<"aggregator">>
               plain == <<>>
    <2>1. ArgumentsOf(e) = [indexed |-> indexed, plain |-> plain]
      BY <1>5 DEF SignatureAggregatorChanged, Binding, ArgumentsOf, Arguments,
                  ABI, EntryPointABI
    <2>2. e.rules = indexed /\ e.members = Places(indexed) \cup Places(plain)
      BY <1>5 DEF SignatureAggregatorChanged, Binding, Places
    <2>3. Distinct(indexed, plain)
      BY DEF Distinct, Places
    <2> HIDE DEF indexed, plain
    <2> QED BY <2>1, <2>2, <2>3, AgreesBy
  <1>6. CASE e = StakeLocked
    <2> DEFINE indexed == <<"account">>
               plain == <<"totalStaked", "unstakeDelaySec">>
    <2>1. ArgumentsOf(e) = [indexed |-> indexed, plain |-> plain]
      BY <1>6 DEF StakeLocked, Binding, ArgumentsOf, Arguments,
                  ABI, EntryPointABI
    <2>2. e.rules = indexed /\ e.members = Places(indexed) \cup Places(plain)
      BY <1>6 DEF StakeLocked, Binding, Places
    <2>3. Distinct(indexed, plain)
      BY DEF Distinct, Places
    <2> HIDE DEF indexed, plain
    <2> QED BY <2>1, <2>2, <2>3, AgreesBy
  <1>7. CASE e = StakeUnlocked
    <2> DEFINE indexed == <<"account">>
               plain == <<"withdrawTime">>
    <2>1. ArgumentsOf(e) = [indexed |-> indexed, plain |-> plain]
      BY <1>7 DEF StakeUnlocked, Binding, ArgumentsOf, Arguments,
                  ABI, EntryPointABI
    <2>2. e.rules = indexed /\ e.members = Places(indexed) \cup Places(plain)
      BY <1>7 DEF StakeUnlocked, Binding, Places
    <2>3. Distinct(indexed, plain)
      BY DEF Distinct, Places
    <2> HIDE DEF indexed, plain
    <2> QED BY <2>1, <2>2, <2>3, AgreesBy
  <1>8. CASE e = StakeWithdrawn
    <2> DEFINE indexed == <<"account">>
               plain == <<"withdrawAddress", "amount">>
    <2>1. ArgumentsOf(e) = [indexed |-> indexed, plain |-> plain]
      BY <1>8 DEF StakeWithdrawn, Binding, ArgumentsOf, Arguments,
                  ABI, EntryPointABI
    <2>2. e.rules = indexed /\ e.members = Places(indexed) \cup Places(plain)
      BY <1>8 DEF StakeWithdrawn, Binding, Places
    <2>3. Distinct(indexed, plain)
      BY DEF Distinct, Places
    <2> HIDE DEF indexed, plain
    <2> QED BY <2>1, <2>2, <2>3, AgreesBy
  <1>9. CASE e = UserOperationEvent
    <2> DEFINE indexed == <<"userOpHash", "sender", "paymaster">>
               plain == <<"nonce", "success", "actualGasCost", "actualGasUsed">>
    <2>1. ArgumentsOf(e) = [indexed |-> indexed, plain |-> plain]
      BY <1>9 DEF UserOperationEvent, Binding, ArgumentsOf, Arguments,
                  ABI, EntryPointABI
    <2>2. e.rules = indexed /\ e.members = Places(indexed) \cup Places(plain)
      BY <1>9 DEF UserOperationEvent, Binding, Places
    <2>3. Distinct(indexed, plain)
      BY DEF Distinct, Places
    <2> HIDE DEF indexed, plain
    <2> QED BY <2>1, <2>2, <2>3, AgreesBy
  <1>10. CASE e = UserOperationPrefundTooLow
    <2> DEFINE indexed == <<"userOpHash", "sender">>
               plain == <<"nonce">>
    <2>1. ArgumentsOf(e) = [indexed |-> indexed, plain |-> plain]
      BY <1>10 DEF UserOperationPrefundTooLow, Binding, ArgumentsOf, Arguments,
                  ABI, EntryPointABI
    <2>2. e.rules = indexed /\ e.members = Places(indexed) \cup Places(plain)
      BY <1>10 DEF UserOperationPrefundTooLow, Binding, Places
    <2>3. Distinct(indexed, plain)
      BY DEF Distinct, Places
    <2> HIDE DEF indexed, plain
    <2> QED BY <2>1, <2>2, <2>3, AgreesBy
  <1>11. CASE e = UserOperationRevertReason
    <2> DEFINE indexed == <<"userOpHash", "sender">>
               plain == <<"nonce", "revertReason">>
    <2>1. ArgumentsOf(e) = [indexed |-> indexed, plain |-> plain]
      BY <1>11 DEF UserOperationRevertReason, Binding, ArgumentsOf, Arguments,
                  ABI, EntryPointABI
    <2>2. e.rules = indexed /\ e.members = Places(indexed) \cup Places(plain)
      BY <1>11 DEF UserOperationRevertReason, Binding, Places
    <2>3. Distinct(indexed, plain)
      BY DEF Distinct, Places
    <2> HIDE DEF indexed, plain
    <2> QED BY <2>1, <2>2, <2>3, AgreesBy
  <1>12. CASE e = Withdrawn
    <2> DEFINE indexed == <<"account">>
               plain == <<"withdrawAddress", "amount">>
    <2>1. ArgumentsOf(e) = [indexed |-> indexed, plain |-> plain]
      BY <1>12 DEF Withdrawn, Binding, ArgumentsOf, Arguments,
                  ABI, EntryPointABI
    <2>2. e.rules = indexed /\ e.members = Places(indexed) \cup Places(plain)
      BY <1>12 DEF Withdrawn, Binding, Places
    <2>3. Distinct(indexed, plain)
      BY DEF Distinct, Places
    <2> HIDE DEF indexed, plain
    <2> QED BY <2>1, <2>2, <2>3, AgreesBy
  <1>13. CASE e = ERC20Approval
    <2> DEFINE indexed == <<"owner", "spender">>
               plain == <<"value">>
    <2>1. ArgumentsOf(e) = [indexed |-> indexed, plain |-> plain]
      BY <1>13 DEF ERC20Approval, Binding, ArgumentsOf, Arguments,
                  ABI, ERC20ABI
    <2>2. e.rules = indexed /\ e.members = Places(indexed) \cup Places(plain)
      BY <1>13 DEF ERC20Approval, Binding, Places
    <2>3. Distinct(indexed, plain)
      BY DEF Distinct, Places
    <2> HIDE DEF indexed, plain
    <2> QED BY <2>1, <2>2, <2>3, AgreesBy
  <1>14. CASE e = ERC20Transfer
    <2> DEFINE indexed == <<"from", "to">>
               plain == <<"value">>
    <2>1. ArgumentsOf(e) = [indexed |-> indexed, plain |-> plain]
      BY <1>14 DEF ERC20Transfer, Binding, ArgumentsOf, Arguments,
                  ABI, ERC20ABI
    <2>2. e.rules = indexed /\ e.members = Places(indexed) \cup Places(plain)
      BY <1>14 DEF ERC20Transfer, Binding, Places
    <2>3. Distinct(indexed, plain)
      BY DEF Distinct, Places
    <2> HIDE DEF indexed, plain
    <2> QED BY <2>1, <2>2, <2>3, AgreesBy
  <1>15. CASE e = PaymasterApproval
    <2> DEFINE indexed == <<"owner", "spender">>
               plain == <<"value">>
    <2>1. ArgumentsOf(e) = [indexed |-> indexed, plain |-> plain]
      BY <1>15 DEF PaymasterApproval, Binding, ArgumentsOf, Arguments,
                  ABI, PaymasterABI
    <2>2. e.rules = indexed /\ e.members = Places(indexed) \cup Places(plain)
      BY <1>15 DEF PaymasterApproval, Binding, Places
    <2>3. Distinct(indexed, plain)
      BY DEF Distinct, Places
    <2> HIDE DEF indexed, plain
    <2> QED BY <2>1, <2>2, <2>3, AgreesBy
  <1>16. CASE e = OwnershipTransferred
    <2> DEFINE indexed == <<"previousOwner", "newOwner">>
               plain == <<>>
    <2>1. ArgumentsOf(e) = [indexed |-> indexed, plain |-> plain]
      BY <1>16 DEF OwnershipTransferred, Binding, ArgumentsOf, Arguments,
                  ABI, PaymasterABI
    <2>2. e.rules = indexed /\ e.members = Places(indexed) \cup Places(plain)
      BY <1>16 DEF OwnershipTransferred, Binding, Places
    <2>3. Distinct(indexed, plain)
      BY DEF Distinct, Places
    <2> HIDE DEF indexed, plain
    <2> QED BY <2>1, <2>2, <2>3, AgreesBy
  <1>17. CASE e = PaymasterTransfer
    <2> DEFINE indexed == <<"from", "to">>
               plain == <<"value">>
    <2>1. ArgumentsOf(e) = [indexed |-> indexed, plain |-> plain]
      BY <1>17 DEF PaymasterTransfer, Binding, ArgumentsOf, Arguments,
                  ABI, PaymasterABI
    <2>2. e.rules = indexed /\ e.members = Places(indexed) \cup Places(plain)
      BY <1>17 DEF PaymasterTransfer, Binding, Places
    <2>3. Distinct(indexed, plain)
      BY DEF Distinct, Places
    <2> HIDE DEF indexed, plain
    <2> QED BY <2>1, <2>2, <2>3, AgreesBy
  <1> QED
    BY <1>1, <1>2, <1>3, <1>4, <1>5, <1>6, <1>7, <1>8, <1>9,
       <1>10, <1>11, <1>12, <1>13, <1>14, <1>15, <1>16, <1>17
       DEF BoundEvents
------------------------------------------------------------------------------
\* Lemma: the values of some names are a sequence of as many.
LEMMA ValuesOfNames ==
    ASSUME NEW names, names \in Seq(Places(names)), NEW args,
           NEW S, \A i \in DOMAIN names : args[names[i]] \in S
    PROVE  /\ Values(names, args) \in Seq(S)
           /\ Len(Values(names, args)) = Len(names)
           /\ \A i \in DOMAIN names : Values(names, args)[i] = args[names[i]]
  <1>1. DOMAIN names = 1..Len(names) /\ Len(names) \in Nat
    OBVIOUS
  <1>2. Values(names, args) = [i \in 1..Len(names) |-> args[names[i]]]
    BY <1>1 DEF Values
  <1> QED BY <1>1, <1>2

\* Lemma: a concatenation begins with its first part.
LEMMA Concatenated ==
    ASSUME NEW S, NEW s \in Seq(S), NEW t \in Seq(S)
    PROVE  /\ Len(s \o t) = Len(s) + Len(t)
           /\ \A j \in 1..Len(s) : (s \o t)[j] = s[j]
  OBVIOUS

\* Lemma: what a log carries of the emission it was made of.
LEMMA EmittedLog ==
    ASSUME NEW e, Agrees(e), NEW m
    PROVE  /\ Emit(e, m).address = m.address
           /\ Emit(e, m).topics[1] = m.name
           /\ \A i \in DOMAIN ArgumentsOf(e).indexed :
                 Emit(e, m).topics[1 + i] = m.args[ArgumentsOf(e).indexed[i]]
           /\ m.shape = "declared" =>
                 /\ Len(Emit(e, m).topics) = 1 + Len(ArgumentsOf(e).indexed)
                 /\ Emit(e, m).data = Values(ArgumentsOf(e).plain, m.args)
           /\ m.shape # "declared" =>
                 Len(Emit(e, m).topics) =
                    1 + Len(ArgumentsOf(e).indexed) + Len(ArgumentsOf(e).plain)
  <1> DEFINE a == ArgumentsOf(e)
             I == Values(a.indexed, m.args)
             P == Values(a.plain, m.args)
             rest == IF m.shape = "declared" THEN <<>> ELSE P
             log == Emit(e, m)
             S == {m.name} \cup {m.args[a.indexed[i]] : i \in DOMAIN a.indexed}
                           \cup {m.args[a.plain[i]] : i \in DOMAIN a.plain}
  <1>1. a.indexed \in Seq(Places(a.indexed)) /\ a.plain \in Seq(Places(a.plain))
    BY DEF Agrees, Distinct
  <1>2. /\ I \in Seq(S) /\ Len(I) = Len(a.indexed)
        /\ \A i \in DOMAIN a.indexed : I[i] = m.args[a.indexed[i]]
    <2>1. \A i \in DOMAIN a.indexed : m.args[a.indexed[i]] \in S
      OBVIOUS
    <2> HIDE DEF a, S
    <2> QED BY <1>1, <2>1, ValuesOfNames
  <1>3. P \in Seq(S) /\ Len(P) = Len(a.plain)
    <2>1. \A i \in DOMAIN a.plain : m.args[a.plain[i]] \in S
      OBVIOUS
    <2> HIDE DEF a, S
    <2> QED BY <1>1, <2>1, ValuesOfNames
  <1>4. /\ log.topics = <<m.name>> \o I \o rest
        /\ log.address = m.address
        /\ m.shape = "declared" => log.data = P
    BY DEF Emit
  <1>5. /\ rest \in Seq(S)
        /\ m.shape = "declared" => Len(rest) = 0
        /\ m.shape # "declared" => Len(rest) = Len(a.plain)
    BY <1>3
  <1>6. <<m.name>> \in Seq(S) /\ Len(<<m.name>>) = 1
    OBVIOUS
  <1>7. DOMAIN a.indexed = 1..Len(a.indexed) /\ Len(a.indexed) \in Nat
    BY <1>1
  <1> HIDE DEF log, I, P, rest, S, a
  <1> DEFINE head == <<m.name>> \o I
  <1>8. /\ head \in Seq(S) /\ Len(head) = 1 + Len(I) /\ head[1] = m.name
        /\ \A i \in 1..Len(I) : head[1 + i] = I[i]
    BY <1>2, <1>6
  <1> HIDE DEF head
  <1>9. /\ Len(head \o rest) = Len(head) + Len(rest)
        /\ \A j \in 1..Len(head) : (head \o rest)[j] = head[j]
    BY <1>5, <1>8, Concatenated
  <1> DEFINE topics == log.topics
             indexed == a.indexed
             plain == a.plain
  <1>10. topics = head \o rest
    BY <1>4 DEF head
  <1> HIDE DEF topics, indexed, plain
  <1>11. DOMAIN indexed = 1..Len(indexed) /\ Len(indexed) \in Nat /\ Len(I) = Len(indexed)
    BY <1>2, <1>7 DEF indexed
  <1>12. \A i \in DOMAIN indexed : topics[1 + i] = I[i]
    BY <1>8, <1>9, <1>10, <1>11
  <1>13. topics[1] = m.name
    BY <1>8, <1>9, <1>10, <1>11
  <1>14. /\ m.shape = "declared" => Len(topics) = 1 + Len(indexed)
         /\ m.shape # "declared" => Len(topics) = 1 + Len(indexed) + Len(plain)
    <2>1. /\ m.shape = "declared" => Len(rest) = 0
          /\ m.shape # "declared" => Len(rest) = Len(plain)
      BY <1>5 DEF plain
    <2>2. Len(topics) = 1 + Len(indexed) + Len(rest)
      BY <1>8, <1>9, <1>10, <1>11
    <2>3. m.shape = "declared" => Len(topics) = 1 + Len(indexed)
      BY <1>11, <2>1, <2>2
    <2> QED BY <2>1, <2>2, <2>3
  <1> QED
    BY <1>2, <1>4, <1>12, <1>13, <1>14 DEF log, a, P, topics, indexed, plain

\* Lemma: the topic of an indexed argument is at its place in the ABI.
LEMMA EmittedTopic ==
    ASSUME NEW e, Agrees(e), NEW m, NEW i \in DOMAIN ArgumentsOf(e).indexed
    PROVE  Emit(e, m).topics[1 + i] = m.args[ArgumentsOf(e).indexed[i]]
  BY EmittedLog

\* Lemma: the node's choice, topic by topic, is the caller's, name by name.
LEMMA MatchesByName ==
    ASSUME NEW e, Agrees(e), NEW m,
           NEW criteria, DOMAIN criteria = Places(e.rules)
    PROVE  Matches(e, criteria, Emit(e, m)) <=>
             /\ IsOf(m, e)
             /\ \A p \in DOMAIN criteria :
                   criteria[p] = {} \/ m.args[p] \in criteria[p]
  <1> DEFINE rules == e.rules
             n == Len(rules)
             V == Values(rules, criteria)
             query == <<{e.name}>> \o V
             log == Emit(e, m)
             S == {{e.name}} \cup {criteria[rules[i]] : i \in DOMAIN rules}
  <1>1. rules \in Seq(Places(rules)) /\ ArgumentsOf(e).indexed = rules
    BY DEF Agrees, Distinct
  <1>2. n \in Nat /\ DOMAIN rules = 1..n
    BY <1>1
  <1>3. /\ V \in Seq(S) /\ Len(V) = n
        /\ \A i \in 1..n : V[i] = criteria[rules[i]]
    <2>1. \A i \in DOMAIN rules : criteria[rules[i]] \in S
      OBVIOUS
    <2> HIDE DEF rules, S
    <2>2. /\ V \in Seq(S) /\ Len(V) = Len(rules)
          /\ \A i \in DOMAIN rules : V[i] = criteria[rules[i]]
      BY <1>1, <2>1, ValuesOfNames
    <2> QED BY <1>2, <2>2
  <1>4. <<{e.name}>> \in Seq(S) /\ Len(<<{e.name}>>) = 1
    OBVIOUS
  <1> HIDE DEF V, S
  <1>5. /\ DOMAIN query = 1..(n + 1) /\ Len(query) = n + 1
        /\ query[1] = {e.name}
        /\ \A i \in 1..n : query[1 + i] = criteria[rules[i]]
    BY <1>2, <1>3, <1>4
  <1>6. /\ log.address = m.address /\ log.topics[1] = m.name
        /\ \A i \in 1..n : log.topics[1 + i] = m.args[rules[i]]
    <2>1. \A i \in DOMAIN ArgumentsOf(e).indexed :
             log.topics[1 + i] = m.args[ArgumentsOf(e).indexed[i]]
      BY EmittedLog
    <2>2. log.address = m.address /\ log.topics[1] = m.name
      BY EmittedLog
    <2> HIDE DEF log, rules
    <2> QED BY <1>1, <1>2, <2>1, <2>2
  <1>7. Len(query) <= Len(log.topics)
    <2> DEFINE topics == log.topics
               plain == ArgumentsOf(e).plain
    <2>1. Len(plain) \in Nat
      BY DEF Agrees, Distinct
    <2>2. /\ m.shape = "declared" => Len(topics) = 1 + Len(ArgumentsOf(e).indexed)
          /\ m.shape # "declared" =>
                Len(topics) = 1 + Len(ArgumentsOf(e).indexed) + Len(plain)
      BY Zenon, EmittedLog
    <2> HIDE DEF topics, plain
    <2>3. Len(topics) = 1 + n \/ Len(topics) = 1 + n + Len(plain)
      BY <1>1, <2>2
    <2> HIDE DEF query, n
    <2>4. Len(query) <= Len(topics)
      BY <1>2, <1>5, <2>1, <2>3
    <2> QED BY <2>4 DEF topics
  <1>8. Matches(e, criteria, log) <=>
          /\ m.address = "bound"
          /\ \A j \in 1..(n + 1) : query[j] = {} \/ log.topics[j] \in query[j]
    BY <1>5, <1>6, <1>7 DEF Matches, V
  <1> HIDE DEF query, log
  <1>9. (\A j \in 1..(n + 1) : query[j] = {} \/ log.topics[j] \in query[j]) <=>
          /\ m.name = e.name
          /\ \A i \in 1..n : \/ criteria[rules[i]] = {}
                             \/ m.args[rules[i]] \in criteria[rules[i]]
    <2>1. query[1] # {} /\ (log.topics[1] \in query[1] <=> m.name = e.name)
      BY <1>5, <1>6
    <2>2. \A j \in 1..(n + 1) : j = 1 \/ (j - 1 \in 1..n /\ j = 1 + (j - 1))
      BY <1>2
    <2>3. \A i \in 1..n : 1 + i \in 1..(n + 1)
      BY <1>2
    <2>4. 1 \in 1..(n + 1)
      BY <1>2
    <2>5. \A i \in 1..n :
            (query[1 + i] = {} \/ log.topics[1 + i] \in query[1 + i]) <=>
            (criteria[rules[i]] = {} \/ m.args[rules[i]] \in criteria[rules[i]])
      BY <1>5, <1>6
    <2> HIDE DEF n, rules
    <2> QED BY <2>1, <2>2, <2>3, <2>4, <2>5
  <1>10. (\A i \in 1..n : \/ criteria[rules[i]] = {}
                          \/ m.args[rules[i]] \in criteria[rules[i]]) <=>
         (\A p \in DOMAIN criteria : criteria[p] = {} \/ m.args[p] \in criteria[p])
    BY <1>2 DEF Places
  <1> QED BY <1>8, <1>9, <1>10 DEF log, IsOf

\* Lemma: go-ethereum unpacks the logs of the ABI's shape only, into the arguments
\* that were emitted.
LEMMA UnpackedIsEmitted ==
    ASSUME NEW e, Agrees(e), NEW m, IsOf(m, e),
           m.args = [p \in e.members |-> m.args[p]],
           ArgumentsOf(e).plain = <<>> => m.shape = "declared"
    PROVE  /\ Unpacks(e, Emit(e, m)) <=> m.shape = "declared"
           /\ m.shape = "declared" => Unpacked(e, Emit(e, m)) = m.args
  <1> DEFINE indexed == ArgumentsOf(e).indexed
             plain == ArgumentsOf(e).plain
             log == Emit(e, m)
             topics == log.topics
             data == log.data
  <1>1. /\ indexed \in Seq(Places(indexed)) /\ plain \in Seq(Places(plain))
        /\ e.members = Places(indexed) \cup Places(plain)
        /\ \A i, j \in DOMAIN indexed : indexed[i] = indexed[j] => i = j
        /\ \A i, j \in DOMAIN plain : plain[i] = plain[j] => i = j
        /\ \A i \in DOMAIN indexed, j \in DOMAIN plain : indexed[i] # plain[j]
    BY DEF Agrees, Distinct
  <1>2. Len(indexed) \in Nat /\ Len(plain) \in Nat /\ (Len(plain) = 0 => plain = <<>>)
    BY <1>1
  <1>3. topics[1] = e.name
    <2>1. topics[1] = m.name
      BY Zenon, EmittedLog
    <2>2. m.name = e.name
      BY DEF IsOf
    <2> QED BY <2>1, <2>2
  <1>4. ASSUME NEW i \in DOMAIN indexed PROVE topics[1 + i] = m.args[indexed[i]]
    BY Zenon, EmittedTopic
  <1>5. m.shape = "declared" =>
          Len(topics) = 1 + Len(indexed) /\ data = Values(plain, m.args)
    BY EmittedLog
  <1>6. m.shape # "declared" => Len(topics) = 1 + Len(indexed) + Len(plain)
    BY Zenon, EmittedLog
  <1>7. plain = <<>> => m.shape = "declared"
    OBVIOUS
  <1>8. /\ \A i \in DOMAIN indexed : indexed[i] \in e.members
        /\ \A i \in DOMAIN plain : plain[i] \in e.members
    BY <1>1 DEF Places
  <1>9. Unpacks(e, log) <=> Len(topics) = Len(indexed) + 1
    BY <1>3, <1>8 DEF Unpacks
  <1> DEFINE Indexed(p) == {i \in DOMAIN indexed : indexed[i] = p}
             Plain(p) == {i \in DOMAIN plain : plain[i] = p /\ i \in DOMAIN data}
             value(p) ==
                CASE Indexed(p) # {} -> topics[1 + CHOOSE i \in Indexed(p) : TRUE]
                  [] Plain(p) # {} -> data[CHOOSE i \in Plain(p) : TRUE]
                  [] OTHER -> "zero"
  <1>10. Unpacked(e, log) = [p \in e.members |-> value(p)]
    BY DEF Unpacked
  <1> HIDE DEF indexed, plain, log, topics, data
  <1>11. Unpacks(e, log) <=> m.shape = "declared"
    BY <1>2, <1>5, <1>6, <1>7, <1>9
  <1>12. ASSUME m.shape = "declared" PROVE Unpacked(e, log) = m.args
    <2>1. /\ DOMAIN data = DOMAIN plain
          /\ \A i \in DOMAIN plain : data[i] = m.args[plain[i]]
      BY <1>5, <1>12 DEF Values
    <2>2. ASSUME NEW p \in e.members PROVE value(p) = m.args[p]
      <3>1. CASE p \in Places(indexed)
        <4>1. Indexed(p) # {} /\ Plain(p) = {}
          BY <1>1, <3>1 DEF Places
        <4> DEFINE i == CHOOSE i \in Indexed(p) : TRUE
        <4>2. i \in Indexed(p)
          BY <4>1
        <4>3. value(p) = topics[1 + i]
          BY <4>1
        <4> HIDE DEF value, i
        <4> QED BY <1>4, <4>2, <4>3
      <3>2. CASE p \in Places(plain)
        <4>1. PICK k \in DOMAIN plain : plain[k] = p
          BY <3>2 DEF Places
        <4>2. Indexed(p) = {}
          BY <1>1, <4>1
        <4>3. Plain(p) # {}
          BY <2>1, <4>1
        <4> DEFINE i == CHOOSE i \in Plain(p) : TRUE
        <4>4. i \in Plain(p)
          BY <4>3
        <4>5. value(p) = data[i]
          BY <4>2, <4>3
        <4> HIDE DEF value, i
        <4> QED BY <2>1, <4>4, <4>5
      <3> QED BY <1>1, <2>2, <3>1, <3>2
    <2> HIDE DEF value
    <2> QED BY <1>10, <2>2
  <1> QED BY <1>11, <1>12 DEF log
------------------------------------------------------------------------------
\* Lemma: the ranks of a finite set's numbers are 1, 2, ..., each of one number.
LEMMA RanksCount ==
    ASSUME NEW S, S \subseteq Int, IsFiniteSet(S)
    PROVE  /\ Cardinality(S) \in Nat
           /\ \A i \in S : Rank(S, i) \in 1..Cardinality(S)
           /\ \A i, j \in S : Rank(S, i) = Rank(S, j) => i = j
           /\ \A k \in 1..Cardinality(S) : \E i \in S : Rank(S, i) = k
  <1> DEFINE n == Cardinality(S)
             below(i) == {j \in S : j <= i}
             rank == [i \in S |-> Rank(S, i)]
  <1>1. n \in Nat
    BY FS_CardinalityType
  <1>2. ASSUME NEW i \in S
        PROVE  IsFiniteSet(below(i)) /\ Rank(S, i) \in 1..n
    <2>1. IsFiniteSet(below(i)) /\ Cardinality(below(i)) <= n
      BY FS_Subset
    <2>2. Cardinality(below(i)) \in Nat
      BY <2>1, FS_CardinalityType
    <2>3. i \in below(i)
      OBVIOUS
    <2>4. Cardinality(below(i)) # 0
      BY <2>1, <2>3, FS_EmptySet
    <2> QED BY <1>1, <2>1, <2>2, <2>4 DEF Rank
  <1>3. ASSUME NEW i \in S, NEW j \in S, i < j
        PROVE  Rank(S, i) # Rank(S, j)
    <2>1. below(i) \in SUBSET below(j)
      <3>1. ASSUME NEW k \in S, k <= i PROVE k <= j
        BY <1>3, <3>1
      <3> QED BY <3>1
    <2>2. j \in below(j) /\ j \notin below(i)
      BY <1>3
    <2>3. Cardinality(below(j)) = Cardinality(below(i)) => below(j) = below(i)
      BY <1>2, <2>1, FS_Subset
    <2> QED BY <2>2, <2>3 DEF Rank
  <1>4. \A i, j \in S : Rank(S, i) = Rank(S, j) => i = j
    BY <1>3
  <1>5. rank \in Injection(S, 1..n)
    BY <1>2, <1>4 DEF Injection, IsInjective
  <1>6. IsFiniteSet(1..n) /\ Cardinality(1..n) = n
    BY <1>1, FS_Interval
  <1>7. rank \in Surjection(S, 1..n)
    BY <1>5, <1>6, FS_Injection
  <1>8. \A k \in 1..n : \E i \in S : Rank(S, i) = k
    BY <1>7 DEF Surjection
  <1> QED BY <1>1, <1>2, <1>4, <1>8

\* Lemma: what the node answers are the logs of the emissions asked for, each at its
\* rank.
LEMMA FoundAreWanted ==
    ASSUME NEW s, WellFormed(s)
    PROVE  LET found == FilterLogs(s)
               wanted == WantedPlaces(s)
           IN  /\ found \in Seq({found[i] : i \in DOMAIN found})
               /\ Len(found) = Cardinality(wanted)
               /\ \A i \in wanted :
                     /\ Rank(wanted, i) \in 1..Len(found)
                     /\ found[Rank(wanted, i)] = Emit(s.event, s.chain[i])
               /\ \A k \in 1..Len(found) : \E i \in wanted : Rank(wanted, i) = k
  <1> DEFINE found == FilterLogs(s)
             wanted == WantedPlaces(s)
             log(i) == Emit(s.event, s.chain[i])
             chosen == {i \in DOMAIN s.chain : Matches(s.event, s.criteria, log(i))}
             n == Cardinality(wanted)
  <1>1. Agrees(s.event)
    BY BindingsAgree DEF WellFormed
  <1>2. DOMAIN s.criteria = Places(s.event.rules)
    BY DEF WellFormed, Places
  <1>3. chosen = wanted
    <2>1. ASSUME NEW i \in DOMAIN s.chain
          PROVE  Matches(s.event, s.criteria, log(i)) <=>
                   /\ IsOf(s.chain[i], s.event)
                   /\ \A p \in DOMAIN s.criteria :
                         s.criteria[p] = {} \/ s.chain[i].args[p] \in s.criteria[p]
      BY <1>1, <1>2, MatchesByName
    <2> QED BY <2>1 DEF WantedPlaces
  <1>4. found = [k \in 1..n |-> log(Nth(wanted, k))]
    BY <1>3 DEF FilterLogs
  <1>5. wanted \subseteq Int /\ IsFiniteSet(wanted)
    <2>1. DOMAIN s.chain = 1..Len(s.chain) /\ Len(s.chain) \in Nat
      BY DEF WellFormed
    <2>2. IsFiniteSet(1..Len(s.chain))
      BY <2>1, FS_Interval
    <2>3. wanted \subseteq 1..Len(s.chain)
      BY <2>1 DEF WantedPlaces
    <2> QED BY <2>2, <2>3, FS_Subset
  <1> HIDE DEF wanted, log
  <1>6. /\ n \in Nat
        /\ \A i \in wanted : Rank(wanted, i) \in 1..n
        /\ \A i, j \in wanted : Rank(wanted, i) = Rank(wanted, j) => i = j
        /\ \A k \in 1..n : \E i \in wanted : Rank(wanted, i) = k
    BY <1>5, RanksCount
  <1> HIDE DEF n, found
  <1>7. /\ found \in Seq({found[i] : i \in DOMAIN found})
        /\ Len(found) = n /\ DOMAIN found = 1..n
    <2>1. DOMAIN found = 1..n
      BY <1>4
    <2>2. found = [k \in 1..n |-> found[k]]
      BY <1>4
    <2> QED BY <1>6, <2>1, <2>2
  <1>8. ASSUME NEW i \in wanted PROVE found[Rank(wanted, i)] = log(i)
    <2>1. Nth(wanted, Rank(wanted, i)) = i
      BY <1>6 DEF Nth
    <2> QED BY <1>4, <1>6, <2>1
  <1> QED BY <1>6, <1>7, <1>8 DEF n, found, wanted, log

\* The first logs of an answer have been unpacked into events, and the next has not.
LogsUnpacked(e, found, events) ==
    /\ Len(events) <= Len(found)
    /\ \A k \in 1..Len(events) :
          Unpacks(e, found[k]) /\ events[k] = Unpacked(e, found[k])

\* Lemma: such events are the ones asked for.
LEMMA UnpackedAreWanted ==
    ASSUME NEW s, WellFormed(s), NEW events, Len(events) \in Nat,
           LogsUnpacked(s.event, FilterLogs(s), events)
    PROVE  AreWanted(s, events)
  <1> DEFINE found == FilterLogs(s)
             wanted == WantedPlaces(s)
             rank(i) == Rank(wanted, i)
  <1>1. /\ Len(found) = Cardinality(wanted)
        /\ \A i \in wanted : /\ rank(i) \in 1..Len(found)
                             /\ found[rank(i)] = Emit(s.event, s.chain[i])
    BY FoundAreWanted
  <1>2. ASSUME NEW i \in wanted, rank(i) <= Len(events)
        PROVE  s.chain[i].shape = "declared" /\ events[rank(i)] = s.chain[i].args
    <2>1. rank(i) \in 1..Len(events)
      <3> HIDE DEF rank, found, wanted
      <3> QED BY <1>1, <1>2
    <2>2. /\ Unpacks(s.event, found[rank(i)])
          /\ events[rank(i)] = Unpacked(s.event, found[rank(i)])
      BY <2>1 DEF LogsUnpacked
    <2>3. /\ i \in DOMAIN s.chain /\ IsOf(s.chain[i], s.event)
      BY DEF WantedPlaces
    <2>4. Agrees(s.event)
      BY BindingsAgree DEF WellFormed
    <2>5. /\ s.chain[i].args = [p \in s.event.members |-> s.chain[i].args[p]]
          /\ ArgumentsOf(s.event).plain = <<>> => s.chain[i].shape = "declared"
      BY <2>3 DEF WellFormed
    <2> QED BY <1>1, <2>2, <2>3, <2>4, <2>5, UnpackedIsEmitted
  <1>3. Len(events) <= Cardinality(wanted)
    BY <1>1 DEF LogsUnpacked
  <1> QED BY <1>2, <1>3 DEF AreWanted

\* Lemma: a log found that does not unpack is an emission of a foreign shape.
LEMMA UndecodableIsForeign ==
    ASSUME NEW s, WellFormed(s), NEW k \in 1..Len(FilterLogs(s)),
           ~Unpacks(s.event, FilterLogs(s)[k])
    PROVE  IsForeign(s, k)
  <1> DEFINE found == FilterLogs(s)
             wanted == WantedPlaces(s)
  <1>1. PICK i \in wanted :
          Rank(wanted, i) = k /\ found[k] = Emit(s.event, s.chain[i])
    <2>1. \E i \in wanted : Rank(wanted, i) = k
      BY FoundAreWanted
    <2>2. \A i \in wanted :
             found[Rank(wanted, i)] = Emit(s.event, s.chain[i])
      BY FoundAreWanted
    <2> HIDE DEF found, wanted
    <2> QED BY <2>1, <2>2
  <1>2. i \in DOMAIN s.chain /\ IsOf(s.chain[i], s.event)
    BY DEF WantedPlaces
  <1>3. /\ s.chain[i].args = [p \in s.event.members |-> s.chain[i].args[p]]
        /\ ArgumentsOf(s.event).plain = <<>> => s.chain[i].shape = "declared"
    BY <1>2 DEF WellFormed
  <1>4. Agrees(s.event)
    BY BindingsAgree DEF WellFormed
  <1>5. s.chain[i].shape # "declared"
    BY <1>1, <1>2, <1>3, <1>4, UnpackedIsEmitted
  <1> QED BY <1>1, <1>5 DEF IsForeign
==============================================================================
