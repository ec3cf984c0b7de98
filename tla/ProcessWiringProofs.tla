------------------------- MODULE ProcessWiringProofs -------------------------
(***************************************************************************)
(* Proofs about ProcessWiring, for any configuration and any number of     *)
(* requests.  Both copies of Contracts are the configured one by the time  *)
(* a request is accepted; so all that is ever written behind the creation  *)
(* code are the words of that one struct, and a request that has written   *)
(* them finds them there, whoever wrote last.                              *)
(***************************************************************************)
EXTENDS ProcessWiring, TLAPS

\* The struct that main has built, and the address it derives for r's salt.
Built == Configured(config)

Address(r) ==
    CreateAddress2(Built.AccountFactoryAddress, salt[r],
                   <<Built.ownerAddress, Built.EntryPointAddress>>)

Stages == {"idle", "usecase", "submitting", "api", "answered"}

Domains ==
    /\ stage \in [Requests -> Stages]
    /\ step \in [Requests -> {"owner", "entryPoint", "hash"}]
    /\ DOMAIN sender = Requests /\ DOMAIN created = Requests
    /\ DOMAIN row = Requests
    /\ tail = <<tail[1], tail[2]>>

\* Requests are accepted only when both copies are complete.
Wired ==
    /\ mainPc = "serving" => usecase = Built /\ api = Built
    /\ \A r \in Requests : stage[r] # "idle" => mainPc = "serving"

\* A request that has appended a word finds it.
WordsThere ==
    \A r \in Requests :
        spare => /\ step[r] \in {"entryPoint", "hash"} => tail[1] = Built.ownerAddress
                 /\ step[r] = "hash" => tail[2] = Built.EntryPointAddress

\* What is derived is the one address, and the operation's sender comes first.
OneAddress ==
    \A r \in Requests :
        /\ created[r] \in {NoAddress, Address(r)}
        /\ row[r] \in {NoAddress, Address(r)}
        /\ \/ stage[r] \in {"submitting", "api"}
           \/ created[r] # NoAddress
           \/ row[r] # NoAddress
           => sender[r] = Address(r)

IInv == Domains /\ Wired /\ WordsThere /\ OneAddress

------------------------------------------------------------------------------
\* Lemma: the invariant holds initially.
LEMMA InitIInv == Init => IInv
  <1> SUFFICES ASSUME Init PROVE IInv
    OBVIOUS
  <1>1. Domains
    BY DEF Init, Domains, Stages
  <1>2. Wired /\ WordsThere
    BY DEF Init, Wired, WordsThere
  <1>3. OneAddress
    BY DEF Init, OneAddress
  <1> QED BY <1>1, <1>2, <1>3 DEF IInv

\* Lemma: while a request is in GetSenderAddres, its receiver is the built struct.
LEMMA ReceiverIsBuilt ==
    ASSUME IInv, NEW r \in Requests, stage[r] # "idle"
    PROVE  mainPc = "serving" /\ usecase = Built /\ Copy(r) = Built
  BY DEF IInv, Wired, Copy

\* Lemma: appending a word writes what is there, or what will be read.
LEMMA AppendIInv ==
    ASSUME IInv, NEW r \in Requests, AppendOwner(r) \/ AppendEntryPoint(r)
    PROVE  IInv'
  <1>1. stage[r] \in {"usecase", "api"}
    BY DEF AppendOwner, AppendEntryPoint, StepTo
  <1>2. Copy(r) = Built
    BY <1>1, ReceiverIsBuilt
  <1>3. UNCHANGED <<Built, wiringVars, stage, salt, sender, created, row>>
    BY DEF AppendOwner, AppendEntryPoint, wiringVars, Built
  <1>4. /\ Wired' /\ OneAddress'
    BY <1>3 DEF IInv, Wired, OneAddress, Address, wiringVars
  <1>5. step \in [Requests -> {"owner", "entryPoint", "hash"}] /\ tail = <<tail[1], tail[2]>>
    BY DEF IInv, Domains
  <1>6. CASE AppendOwner(r)
    <2>1. /\ step' = [step EXCEPT ![r] = "entryPoint"]
          /\ spare => tail' = <<Built.ownerAddress, tail[2]>>
          /\ ~spare => tail' = tail
      BY <1>2, <1>5, <1>6 DEF AppendOwner, StepTo
    <2>2. Domains'
      BY <1>3, <1>5, <2>1 DEF IInv, Domains
    <2>3. WordsThere'
      BY <1>3, <1>5, <2>1 DEF IInv, WordsThere, wiringVars
    <2> QED BY <1>4, <2>2, <2>3 DEF IInv
  <1>7. CASE AppendEntryPoint(r)
    <2>1. /\ step[r] = "entryPoint" /\ step' = [step EXCEPT ![r] = "hash"]
          /\ spare => tail' = <<tail[1], Built.EntryPointAddress>>
          /\ ~spare => tail' = tail
      BY <1>2, <1>5, <1>7 DEF AppendEntryPoint, StepTo
    <2>2. Domains'
      BY <1>3, <1>5, <2>1 DEF IInv, Domains
    <2>3. WordsThere'
      BY <1>3, <1>5, <2>1 DEF IInv, WordsThere, wiringVars
    <2> QED BY <1>4, <2>2, <2>3 DEF IInv
  <1> QED BY <1>6, <1>7

\* Lemma: the address derived is the one address.
LEMMA HashIInv ==
    ASSUME IInv, NEW r \in Requests, HashInitCode(r)
    PROVE  IInv'
  <1>1. stage[r] \in {"usecase", "api"} /\ step[r] = "hash"
    BY DEF HashInitCode, StepTo
  <1>2. Copy(r) = Built /\ mainPc = "serving"
    BY <1>1, ReceiverIsBuilt
  <1>3. UNCHANGED <<Built, wiringVars, tail, salt, created>>
    BY DEF HashInitCode, wiringVars, Built
  <1>4. (IF spare THEN tail ELSE <<Copy(r).ownerAddress, Copy(r).EntryPointAddress>>)
          = <<Built.ownerAddress, Built.EntryPointAddress>>
    BY <1>1, <1>2 DEF IInv, Domains, WordsThere
  <1>5. /\ step' = [step EXCEPT ![r] = "owner"]
        /\ \/ /\ sender' = [sender EXCEPT ![r] = Address(r)]
              /\ stage' = [stage EXCEPT ![r] = "submitting"]
              /\ row' = row
           \/ /\ row' = [row EXCEPT ![r] = Address(r)]
              /\ stage' = [stage EXCEPT ![r] = "answered"]
              /\ sender' = sender
              /\ stage[r] = "api"
    BY <1>1, <1>2, <1>4 DEF HashInitCode, StepTo, Address
  <1>6. Domains'
    BY <1>3, <1>5 DEF IInv, Domains, Stages
  <1>7. Wired'
    BY <1>2, <1>3, <1>5 DEF IInv, Wired, Domains, wiringVars
  <1>8. WordsThere'
    BY <1>3, <1>5 DEF IInv, WordsThere, Domains, wiringVars
  <1>9. \A q \in Requests : Address(q)' = Address(q)
    BY <1>3 DEF Address
  <1>10. OneAddress'
    BY <1>3, <1>5, <1>9 DEF IInv, OneAddress, Domains
  <1> QED BY <1>6, <1>7, <1>8, <1>10 DEF IInv

\* Lemma: the factory creates the one address.
LEMMA SubmitIInv ==
    ASSUME IInv, NEW r \in Requests, Submit(r)
    PROVE  IInv'
  <1>1. stage[r] = "submitting" /\ stage' = [stage EXCEPT ![r] = "api"]
    BY DEF Submit
  <1>2. usecase = Built /\ mainPc = "serving"
    BY <1>1, ReceiverIsBuilt
  <1>3. UNCHANGED <<Built, wiringVars, tail, step, salt, sender, row>>
    BY DEF Submit, wiringVars, Built
  <1>4. created' = [created EXCEPT ![r] = Address(r)]
    BY <1>2 DEF Submit, Address
  <1>5. Domains'
    BY <1>1, <1>3, <1>4 DEF IInv, Domains, Stages
  <1>6. Wired' /\ WordsThere'
    BY <1>1, <1>2, <1>3 DEF IInv, Wired, WordsThere, Domains, wiringVars
  <1>7. \A q \in Requests : Address(q)' = Address(q)
    BY <1>3 DEF Address
  <1>8. OneAddress'
    BY <1>1, <1>3, <1>4, <1>7 DEF IInv, OneAddress, Domains
  <1> QED BY <1>5, <1>6, <1>8 DEF IInv

\* Lemma: every step keeps the invariant.
LEMMA NextIInv == IInv /\ [Next]_vars => IInv'
  <1> SUFFICES ASSUME IInv, [Next]_vars PROVE IInv'
    OBVIOUS
  <1>1. CASE Serve
    <2>1. UNCHANGED <<config, spare, requestVars, Built>> /\ mainPc' = "serving"
      BY <1>1 DEF Serve, Built
    <2>2. usecase' = Built' /\ api' = Built'
      BY <1>1, <2>1 DEF Serve, Built
    <2> QED
      BY <2>1, <2>2 DEF IInv, Domains, Wired, WordsThere, OneAddress, Address,
                        requestVars
  <1>2. CASE Fatal
    <2>1. UNCHANGED <<config, spare, usecase, api, requestVars, Built>>
      BY <1>2 DEF Fatal, Built
    <2>2. \A r \in Requests : stage[r] = "idle"
      BY <1>2 DEF Fatal, IInv, Wired
    <2> QED
      BY <1>2, <2>1, <2>2 DEF Fatal, IInv, Domains, Wired, WordsThere, OneAddress,
                              Address, requestVars
  <1>3. ASSUME NEW r \in Requests, PostWallet(r) PROVE IInv'
    <2>1. /\ UNCHANGED <<wiringVars, Built, tail, step, salt, sender, created, row>>
          /\ mainPc = "serving" /\ stage' = [stage EXCEPT ![r] = "usecase"]
      BY <1>3 DEF PostWallet, wiringVars, Built
    <2>2. Domains'
      BY <2>1 DEF IInv, Domains, Stages
    <2>3. Wired' /\ WordsThere'
      BY <2>1 DEF IInv, Wired, WordsThere, Domains, wiringVars
    <2>4. OneAddress'
      BY <2>1 DEF IInv, OneAddress, Domains, Address
    <2> QED BY <2>2, <2>3, <2>4 DEF IInv
  <1>4. ASSUME NEW r \in Requests, SubmitFails(r) PROVE IInv'
    <2>1. /\ UNCHANGED <<wiringVars, Built, tail, step, salt, sender, created, row>>
          /\ stage[r] = "submitting" /\ stage' = [stage EXCEPT ![r] = "answered"]
      BY <1>4 DEF SubmitFails, wiringVars, Built
    <2>2. Domains'
      BY <2>1 DEF IInv, Domains, Stages
    <2>3. Wired' /\ WordsThere'
      BY <2>1 DEF IInv, Wired, WordsThere, Domains, wiringVars
    <2>4. OneAddress'
      BY <2>1 DEF IInv, OneAddress, Domains, Address
    <2> QED BY <2>2, <2>3, <2>4 DEF IInv
  <1>5. CASE UNCHANGED vars
    BY <1>5 DEF IInv, Domains, Wired, WordsThere, OneAddress, Address, Built, vars,
                wiringVars, requestVars
  <1> QED
    BY <1>1, <1>2, <1>3, <1>4, <1>5, AppendIInv, HashIInv, SubmitIInv DEF Next

\* Both copies are complete when requests are accepted, and the shared words hold what
\* every request writes.
THEOREM WiringInvariant == Spec => []IInv
  BY InitIInv, NextIInv, PTL DEF Spec

------------------------------------------------------------------------------
\* The address an operation is submitted for, the one the factory creates and the one
\* in the table agree, for any configuration and however the requests' writes to the
\* memory behind accountCreationByteCode interleave.
THEOREM AllAddressesAgree == Spec => []AddressesAgree
  <1>1. IInv => AddressesAgree
    BY DEF IInv, OneAddress, AddressesAgree
  <1> QED BY <1>1, WiringInvariant, PTL

\* The use case signs operations and mints with the key of the very account the
\* handlers derive addresses for, whatever the file and the environment hold.
THEOREM ServiceSignsAsOwner == Spec => []SignsAsOwner
  <1>1. /\ Built.paymasterOwnerPrivateKey = config["PRIVATE_KEY"]
        /\ Built.privateKey = config["PRIVATE_KEY"]
        /\ Built.ownerAddress = PubkeyToAddress(config["PRIVATE_KEY"])
        /\ Built.paymasterSignerPrivateKey = config["PAYMASTER_SIGNER_PRIVATE_KEY"]
        /\ Built.chainId = "the node's" /\ Built.client = "the node"
    BY DEF Built, Configured, NewContracts, SetChainId, SetRPCClient,
           SetPublicAndPrivateKey, SetPaymasterSignerPublicAndPrivateKey,
           SetPaymasterOwnerPublicAndPrivateKey
  <1>2. IInv => SignsAsOwner
    BY <1>1 DEF IInv, Wired, SignsAsOwner
  <1> QED BY <1>2, WiringInvariant, PTL
==============================================================================
