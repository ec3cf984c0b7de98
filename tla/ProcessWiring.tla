---------------------------- MODULE ProcessWiring ----------------------------
(***************************************************************************)
(* main (main.go:75-141) and what the handlers rely on it for.  main reads *)
(* the configuration, fills one Contracts by its setters, and hands copies *)
(* of it to the use case and to the API.  A creation derives its account's *)
(* address twice, through either copy: SendUserOperation submits for the   *)
(* one, the handler inserts the other into the table, and the factory      *)
(* creates a third, from the call data.                                    *)
(*                                                                         *)
(* GetSenderAddres appends to the package's accountCreationByteCode.  When *)
(* that slice has spare capacity, which Go 1.22's hex.DecodeString leaves, *)
(* append writes in place: concurrent calls write the same words of memory,*)
(* without synchronisation, before they hash them.                         *)
(***************************************************************************)
EXTENDS Integers, Sequences

CONSTANTS
    Requests,      \* one identity per POST /wallet
    Salts,         \* the salts they may use
    Files,         \* what testnet.env may hold: functions from keys to values
    Envs,          \* what the environment may hold
    ValidKeys,     \* strings that crypto.HexToECDSA takes
    Empty          \* the empty string

ConfigKeys == {"PRIVATE_KEY", "PAYMASTER_SIGNER_PRIVATE_KEY",
               "ENTRYPOINT_ADDRESS", "ACCOUNT_FACTORY_ADDRESS",
               "PAYMASTER_ADDRESS"}

VARIABLES
    config,       \* what LoadConfig returned
    spare,        \* accountCreationByteCode has spare capacity
    mainPc,       \* starting, serving, or exited
    usecase,      \* the Contracts of the use case
    api,          \* the Contracts of the handlers
    tail,         \* the two words behind accountCreationByteCode
    stage, step,  \* where each creation is, and where in GetSenderAddres
    salt,         \* its nextSalt
    sender,       \* the sender of its user operation
    created,      \* the account its factory data creates
    row           \* the address inserted

wiringVars == <<config, spare, mainPc, usecase, api>>
requestVars == <<tail, stage, step, salt, sender, created, row>>
vars == <<wiringVars, requestVars>>

NoAddress == <<>>

------------------------------------------------------------------------------
\* viper: a key of the file, overridden by the environment.  A key that is in the
\* environment only is not unmarshalled.
LoadConfig(file, env) ==
    [k \in ConfigKeys |-> IF k \notin DOMAIN file THEN Empty
                          ELSE IF k \in DOMAIN env THEN env[k] ELSE file[k]]

HexToAddress(s) == IF s = Empty THEN "0x00" ELSE s

parsesPrivateKey(s) == s \in ValidKeys

PubkeyToAddress(key) == <<"address of", key>>

\* The struct as main builds it; what the setters set is unset.
NewContracts(c) ==
    [EntryPointAddress |-> HexToAddress(c["ENTRYPOINT_ADDRESS"]),
     AccountFactoryAddress |-> HexToAddress(c["ACCOUNT_FACTORY_ADDRESS"]),
     PaymasterAddress |-> HexToAddress(c["PAYMASTER_ADDRESS"]),
     privateKey |-> Empty, ownerAddress |-> "0x00",
     paymasterSignerPrivateKey |-> Empty, paymasterOwnerPrivateKey |-> Empty,
     chainId |-> "nil", client |-> "nil"]

SetChainId(c) == [c EXCEPT !.chainId = "the node's"]

SetRPCClient(c) == [c EXCEPT !.client = "the node"]

SetPublicAndPrivateKey(c, key) ==
    [c EXCEPT !.privateKey = key, !.ownerAddress = PubkeyToAddress(key)]

SetPaymasterSignerPublicAndPrivateKey(c, key) ==
    [c EXCEPT !.paymasterSignerPrivateKey = key]

\* Fault: the keys of the paymaster's signer.
SetPaymasterOwnerSigner(c, key) ==
    [c EXCEPT !.paymasterOwnerPrivateKey = c.paymasterSignerPrivateKey]

SetPaymasterOwnerPublicAndPrivateKey(c, key) ==
    [c EXCEPT !.paymasterOwnerPrivateKey = key]

\* The setters in main's order.
Configured(c) ==
    LET keyed == SetPublicAndPrivateKey(SetChainId(NewContracts(c)), c["PRIVATE_KEY"])
        signing == SetPaymasterSignerPublicAndPrivateKey(SetRPCClient(keyed),
                       c["PAYMASTER_SIGNER_PRIVATE_KEY"])
    IN  SetPaymasterOwnerPublicAndPrivateKey(signing, c["PRIVATE_KEY"])

Init ==
    /\ config \in {LoadConfig(f, e) : f \in Files, e \in Envs}
    /\ spare \in BOOLEAN
    /\ mainPc = "starting"
    /\ usecase = NewContracts(config)
    /\ api = NewContracts(config)
    /\ tail = <<"undefined", "undefined">>
    /\ stage = [r \in Requests |-> "idle"]
    /\ step = [r \in Requests |-> "owner"]
    /\ salt \in [Requests -> Salts]
    /\ sender = [r \in Requests |-> NoAddress]
    /\ created = [r \in Requests |-> NoAddress]
    /\ row = [r \in Requests |-> NoAddress]

\* Fault: the use case gets its copy before the keys are set.
ServeEarlyCopy ==
    /\ mainPc = "starting"
    /\ parsesPrivateKey(config["PRIVATE_KEY"])
    /\ parsesPrivateKey(config["PAYMASTER_SIGNER_PRIVATE_KEY"])
    /\ mainPc' = "serving"
    /\ usecase' = NewContracts(config)
    /\ api' = Configured(config)
    /\ UNCHANGED <<config, spare, requestVars>>

\* main runs through: NewUseCase and SetupAPI copy the struct as it is by then.
Serve ==
    /\ mainPc = "starting"
    /\ parsesPrivateKey(config["PRIVATE_KEY"])
    /\ parsesPrivateKey(config["PAYMASTER_SIGNER_PRIVATE_KEY"])
    /\ mainPc' = "serving"
    /\ usecase' = Configured(config)
    /\ api' = Configured(config)
    /\ UNCHANGED <<config, spare, requestVars>>

\* A key does not parse, the database cannot be opened, the node not be reached or
\* asked for its chain id, a binding not be made, or the port is taken.
Fatal ==
    /\ mainPc = "starting"
    /\ mainPc' = "exited"
    /\ UNCHANGED <<config, spare, usecase, api, requestVars>>

------------------------------------------------------------------------------
PostWallet(r) ==
    /\ mainPc = "serving"
    /\ stage[r] = "idle"
    /\ stage' = [stage EXCEPT ![r] = "usecase"]
    /\ UNCHANGED <<wiringVars, tail, step, salt, sender, created, row>>

\* The receiver of GetSenderAddres.
Copy(r) == IF stage[r] = "usecase" THEN usecase ELSE api

StepTo(r, from, to) ==
    /\ stage[r] \in {"usecase", "api"}
    /\ step[r] = from
    /\ step' = [step EXCEPT ![r] = to]

\* append(accountCreationByteCode, packedArguments...) copies the owner's word ...
AppendOwner(r) ==
    /\ StepTo(r, "owner", "entryPoint")
    /\ tail' = IF spare THEN [tail EXCEPT ![1] = Copy(r).ownerAddress] ELSE tail
    /\ UNCHANGED <<wiringVars, stage, salt, sender, created, row>>

\* ... and the entry point's.
AppendEntryPoint(r) ==
    /\ StepTo(r, "entryPoint", "hash")
    /\ tail' = IF spare THEN [tail EXCEPT ![2] = Copy(r).EntryPointAddress] ELSE tail
    /\ UNCHANGED <<wiringVars, stage, salt, sender, created, row>>

\* crypto.CreateAddress2(factory, salt, Keccak256(initHash)), symbolically.
CreateAddress2(factory, s, words) == <<factory, s, words>>

\* The hash reads what the slice holds by now.
HashInitCode(r) ==
    LET words == IF spare THEN tail
                 ELSE <<Copy(r).ownerAddress, Copy(r).EntryPointAddress>>
        address == CreateAddress2(Copy(r).AccountFactoryAddress, salt[r], words)
    IN  /\ StepTo(r, "hash", "owner")
        /\ IF stage[r] = "usecase"
           THEN /\ sender' = [sender EXCEPT ![r] = address]
                /\ stage' = [stage EXCEPT ![r] = "submitting"]
                /\ UNCHANGED row
           ELSE /\ row' = [row EXCEPT ![r] = address]
                /\ stage' = [stage EXCEPT ![r] = "answered"]
                /\ UNCHANGED sender
        /\ UNCHANGED <<wiringVars, tail, salt, created>>

\* The factory's createAccount(owner, salt, entryPoint), with the use case's data.
Submit(r) ==
    /\ stage[r] = "submitting"
    /\ stage' = [stage EXCEPT ![r] = "api"]
    /\ created' = [created EXCEPT ![r] =
          CreateAddress2(usecase.AccountFactoryAddress, salt[r],
                         <<usecase.ownerAddress, usecase.EntryPointAddress>>)]
    /\ UNCHANGED <<wiringVars, tail, step, salt, sender, row>>

SubmitFails(r) ==
    /\ stage[r] = "submitting"
    /\ stage' = [stage EXCEPT ![r] = "answered"]
    /\ UNCHANGED <<wiringVars, tail, step, salt, sender, created, row>>

Next ==
    \/ Serve
    \/ Fatal
    \/ \E r \in Requests :
          \/ PostWallet(r)
          \/ AppendOwner(r)
          \/ AppendEntryPoint(r)
          \/ HashInitCode(r)
          \/ Submit(r)
          \/ SubmitFails(r)

Spec == Init /\ [][Next]_vars

------------------------------------------------------------------------------
\* The address an operation is submitted for, the address the factory creates and
\* the address in the table are one, although they are derived through two copies
\* of Contracts and through memory that concurrent requests overwrite: the copies
\* are taken when the struct is complete, and so every request writes the same.
AddressesAgree ==
    \A r \in Requests :
        /\ created[r] # NoAddress => sender[r] = created[r]
        /\ row[r] # NoAddress => row[r] = sender[r]

\* What MintToken signs with is the key of the account whose pending nonce it reads,
\* what the operation is signed with is the key of the account's owner, and the
\* use case's copy has what signing takes.
SignsAsOwner ==
    mainPc = "serving" =>
        /\ PubkeyToAddress(usecase.paymasterOwnerPrivateKey) = usecase.ownerAddress
        /\ PubkeyToAddress(usecase.privateKey) = api.ownerAddress
        /\ usecase.paymasterSignerPrivateKey = config["PAYMASTER_SIGNER_PRIVATE_KEY"]
        /\ usecase.chainId # "nil" /\ usecase.client # "nil"
==============================================================================
