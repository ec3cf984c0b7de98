---------------------------- MODULE UserOperation ----------------------------
(***************************************************************************)
(* The user operation: how usecase.go fills it, how model/userOp.go packs  *)
(* it for the contracts' hash functions, how bundler.go puts it on the     *)
(* wire, and the signatures it carries.                                    *)
(*                                                                         *)
(* Byte strings are sequences of the values they concatenate.  Hashes are  *)
(* symbolic: a hash is the data hashed, a signature the pair of its key    *)
(* and the hash signed, so that two of them are equal only when everything *)
(* they cover is.  Wei amounts are in gwei.  The halves of a packed word    *)
(* are bytes, for their width decides whether the packing is right.        *)
(***************************************************************************)
EXTENDS Accounts, Sequences

CONSTANTS
    Byte,       \* values of a byte (256)
    Half,       \* bytes of half a word (16)
    MaxInt64    \* the greatest int64 (2^63 - 1)

ASSUME WidthAssumption ==
    /\ Byte \in Nat \ {0, 1}
    /\ Half \in Nat
    /\ MaxInt64 \in Nat

(***************************************************************************)
(* IsZeroAddress(interface{}) switches on the dynamic type of its argument *)
(* and answers false for every type but string and common.Address.  All of *)
(* its callers pass a *common.Address.                                     *)
(***************************************************************************)
Pointer(a) == [type |-> "*common.Address", address |-> a]

\* Fault: pointers are dereferenced, while Pack, which does not ask, still packs
\* the zero factory.
IsZeroAddressDeref(v) ==
    v.address = ZeroAddress

IsZeroAddress(v) ==
    /\ v.type \in {"string", "common.Address"}
    /\ v.address = ZeroAddress

\* The float64 product, floored, as an int64.  Out of range the result is up to the
\* processor: the least int64 (amd64) or the greatest (arm64).  From 2^53 on the
\* product is rounded as well, to a value that is not told apart here.
markUpGas(gas) ==
    LET product == (gas * 11) \div 10
    IN  IF product <= MaxInt64 THEN {product} ELSE {-MaxInt64 - 1, MaxInt64}

------------------------------------------------------------------------------
\* model.UserOperation as SendUserOperation first builds it.
NewUserOp(sender, nonce, factory, factoryData, callData) ==
    [sender |-> sender, nonce |-> nonce,
     factory |-> factory, factoryData |-> factoryData, callData |-> callData,
     callGasLimit |-> 400000, verificationGasLimit |-> 400000,
     preVerificationGas |-> 200000,
     maxFeePerGas |-> 10, maxPriorityFeePerGas |-> 5,
     paymaster |-> PaymasterAddress, paymasterData |-> <<>>,
     paymasterVerificationGasLimit |-> 1000000,
     paymasterPostOpGasLimit |-> 21000,
     signature |-> <<>>]

Magnitude(x) == IF x < 0 THEN -x ELSE x

Fits(x) == 0 <= x /\ x < Byte ^ Half

\* common.LeftPadBytes(x.Bytes(), 16), for numbers of up to 64 bytes: the sign is lost,
\* and what is wider stays so.
LeftPadBytes(x) ==
    LET m == Magnitude(x)
        width == IF m < Byte ^ Half THEN Half
                 ELSE CHOOSE n \in Half..4 * Half : Byte ^ (n - 1) <= m /\ m < Byte ^ n
    IN  [i \in 1..width |-> (m \div Byte ^ (width - i)) % Byte]

\* Fault: the halves change places.
packAccountGasLimitSwapped(left, right) ==
    SubSeq(LeftPadBytes(right) \o LeftPadBytes(left), 1, 2 * Half)

\* The conversion to [32]byte takes the first 32 bytes.
packAccountGasLimit(left, right) ==
    SubSeq(LeftPadBytes(left) \o LeftPadBytes(right), 1, 2 * Half)

packPaymasterAndPaymasterData(op) ==
    IF IsZeroAddress(Pointer(op.paymaster)) THEN <<>>
    ELSE <<op.paymaster, op.paymasterVerificationGasLimit,
           op.paymasterPostOpGasLimit>> \o op.paymasterData

Pack(op) ==
    [sender |-> op.sender, nonce |-> op.nonce,
     initCode |-> <<op.factory>> \o op.factoryData,
     callData |-> op.callData,
     accountGasLimits |->
        packAccountGasLimit(op.verificationGasLimit, op.callGasLimit),
     preVerificationGas |-> op.preVerificationGas,
     gasFees |->
        packAccountGasLimit(op.maxPriorityFeePerGas, op.maxFeePerGas),
     paymasterAndData |-> packPaymasterAndPaymasterData(op),
     signature |-> op.signature]

------------------------------------------------------------------------------
\* Contracts.personalSign
personalSign(hash, key) == <<[signer |-> key, over |-> hash]>>

\* EntryPoint.getUserOpHash covers everything but the signature.
UserOpHash(packed) == [packed EXCEPT !.signature = <<>>]

\* Paymaster.getHash covers neither the signature nor the paymaster's own data,
\* which GetPaymasterSignature asks it to hash before either exists.
PaymasterHash(packed, validUntil, validAfter) ==
    [op |-> [packed EXCEPT !.signature = <<>>,
                           !.paymasterAndData = SubSeq(@, 1, 3)],
     validUntil |-> validUntil, validAfter |-> validAfter]

EncodePaymasterData(op, validUntil, validAfter, signature) ==
    [op EXCEPT !.paymasterData = <<validUntil, validAfter>> \o signature]

------------------------------------------------------------------------------
(***************************************************************************)
(* The request of eth_sendUserOperation, assembled as the bundler hands it *)
(* to the EntryPoint.  Its members are named ones: the bundler does the    *)
(* packing anew, and the signatures hold only if it arrives at what the    *)
(* service packed.                                                         *)
(***************************************************************************)
TwoHalves(left, right) == LeftPadBytes(left) \o LeftPadBytes(right)

SendRequest(op) ==
    [sender |-> op.sender, nonce |-> op.nonce,
     initCode |-> IF IsZeroAddress(Pointer(op.factory)) THEN <<>>
                  ELSE <<op.factory>> \o op.factoryData,
     callData |-> op.callData,
     accountGasLimits |-> TwoHalves(op.verificationGasLimit, op.callGasLimit),
     preVerificationGas |-> op.preVerificationGas,
     gasFees |-> TwoHalves(op.maxPriorityFeePerGas, op.maxFeePerGas),
     paymasterAndData |-> <<op.paymaster, op.paymasterVerificationGasLimit,
                            op.paymasterPostOpGasLimit>> \o op.paymasterData,
     signature |-> op.signature]

\* A bundler refuses numbers that are negative or wider than their fields.
InRange(op) ==
    /\ Fits(op.verificationGasLimit) /\ Fits(op.callGasLimit)
    /\ Fits(op.maxPriorityFeePerGas) /\ Fits(op.maxFeePerGas)
    /\ op.preVerificationGas >= 0

\* The request asks the EntryPoint to have the factory create this very sender.
CreatesAccount(packed) ==
    /\ Len(packed.initCode) = 2
    /\ packed.initCode[1] = AccountFactory
    /\ GetSenderAddres(packed.initCode[2]) = packed.sender

\* What the account's and the paymaster's validation verify on chain, the
\* latter with parsePaymasterAndData's layout: validUntil, validAfter, signature.
OwnerSignatureValid(packed) ==
    packed.signature = personalSign(UserOpHash(packed), "owner")

PaymasterSignatureValid(packed) ==
    LET data == packed.paymasterAndData
    IN  /\ Len(data) = 6
        /\ <<data[6]>> = personalSign(PaymasterHash(packed, data[4], data[5]),
                                      "paymasterSigner")
==============================================================================
