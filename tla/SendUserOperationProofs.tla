----------------------- MODULE SendUserOperationProofs -----------------------
(***************************************************************************)
(* Proofs about SendUserOperation, for any number of requests, salts and   *)
(* answers of the node and the bundler.                                    *)
(***************************************************************************)
EXTENDS SendUserOperation, MintTokenProofs, SequenceTheorems

(***************************************************************************)
(* The packing and the signatures of a user operation, for every width of  *)
(* bytes and halves.                                                       *)
(***************************************************************************)
OpFields == {"sender", "nonce", "factory", "factoryData", "callData",
             "callGasLimit", "verificationGasLimit", "preVerificationGas",
             "maxFeePerGas", "maxPriorityFeePerGas", "paymaster",
             "paymasterData", "paymasterVerificationGasLimit",
             "paymasterPostOpGasLimit", "signature"}

PackedFields == {"sender", "nonce", "initCode", "callData", "accountGasLimits",
                 "preVerificationGas", "gasFees", "paymasterAndData",
                 "signature"}

\* What fits is padded to exactly half a word.
LEMMA PaddedWidth ==
    ASSUME NEW x \in Int, Fits(x)
    PROVE  /\ LeftPadBytes(x) \in Seq({LeftPadBytes(x)[i] : i \in 1..Half})
           /\ Len(LeftPadBytes(x)) = Half
  <1> DEFINE byte(i) == (x \div Byte ^ (Half - i)) % Byte
             s == [i \in 1..Half |-> byte(i)]
  <1>1. Magnitude(x) = x
    BY DEF Fits, Magnitude
  <1>2. LeftPadBytes(x) = s
    BY <1>1 DEF LeftPadBytes, Fits
  <1> HIDE DEF byte
  <1>3. /\ s \in Seq({s[i] : i \in 1..Half}) /\ Len(s) = Half
    BY WidthAssumption
  <1>4. QED
    BY <1>2, <1>3

\* Two halves fill the word: cutting it to 32 bytes changes nothing.
LEMMA WholeSubSeq ==
    ASSUME NEW S, NEW T, NEW s \in Seq(S), NEW t \in Seq(T),
           Len(s) = Half, Len(t) = Half
    PROVE  SubSeq(s \o t, 1, 2 * Half) = s \o t
  BY WidthAssumption

\* The first three parts of paymasterAndData come before the paymaster's data.
LEMMA FirstThree ==
    ASSUME NEW a, NEW b, NEW c, NEW S, NEW d \in Seq(S)
    PROVE  SubSeq(<<a, b, c>> \o d, 1, 3) = <<a, b, c>>
  <1> DEFINE T == {a, b, c} \cup S
             s == <<a, b, c>>
  <1>1. s \in Seq(T) /\ d \in Seq(T) /\ Len(s) = 3
    OBVIOUS
  <1> HIDE DEF T, s
  <1>2. SubSeq(s \o d, 1, 3) = SubSeq(s, 1, 3)
    BY <1>1, SubSeqOfConcat1, 1 \in 1..Len(s), 3 \in 1..Len(s)
  <1>3. SubSeq(s, 1, 3) = s
    BY <1>1, SubSeqFull
  <1>4. QED
    BY <1>2, <1>3 DEF s

\* Pack and the bundler lay out the limits and the fees alike.
LEMMA PackedHalves ==
    ASSUME NEW x \in Int, NEW y \in Int, Fits(x), Fits(y)
    PROVE  packAccountGasLimit(x, y) = TwoHalves(x, y)
  <1> DEFINE s == LeftPadBytes(x)
             t == LeftPadBytes(y)
             S == {s[i] : i \in 1..Half}
             T == {t[i] : i \in 1..Half}
  <1>1. s \in Seq(S) /\ Len(s) = Half /\ t \in Seq(T) /\ Len(t) = Half
    BY PaddedWidth
  <1> HIDE DEF s, t, S, T
  <1>2. SubSeq(s \o t, 1, 2 * Half) = s \o t
    BY <1>1, WholeSubSeq
  <1>3. QED
    BY <1>2 DEF packAccountGasLimit, TwoHalves, s, t

\* What the bundler assembles from a request in range is what Pack packs.
LEMMA RequestIsPacked ==
    ASSUME NEW uo, InRange(uo),
           uo.verificationGasLimit \in Int, uo.callGasLimit \in Int,
           uo.maxPriorityFeePerGas \in Int, uo.maxFeePerGas \in Int
    PROVE  SendRequest(uo) = Pack(uo)
  <1>1. ~IsZeroAddress(Pointer(uo.factory)) /\ ~IsZeroAddress(Pointer(uo.paymaster))
    BY DEF IsZeroAddress, Pointer
  <1>2. packAccountGasLimit(uo.verificationGasLimit, uo.callGasLimit)
          = TwoHalves(uo.verificationGasLimit, uo.callGasLimit)
    BY PackedHalves DEF InRange
  <1>3. packAccountGasLimit(uo.maxPriorityFeePerGas, uo.maxFeePerGas)
          = TwoHalves(uo.maxPriorityFeePerGas, uo.maxFeePerGas)
    BY PackedHalves DEF InRange
  <1>4. QED
    BY <1>1, <1>2, <1>3 DEF SendRequest, Pack, packPaymasterAndPaymasterData

\* The hash the owner signs is determined by all members but the signature ...
LEMMA HashesCover ==
    ASSUME NEW p, NEW q, DOMAIN p = DOMAIN q,
           \A f \in DOMAIN p \ {"signature"} : p[f] = q[f]
    PROVE  UserOpHash(p) = UserOpHash(q)
  BY DEF UserOpHash

\* ... and the one the paymaster signs, by those without the paymaster's data either.
LEMMA PaymasterHashCovers ==
    ASSUME NEW p, NEW q, DOMAIN p = DOMAIN q,
           \A f \in DOMAIN p \ {"signature", "paymasterAndData"} : p[f] = q[f],
           SubSeq(p.paymasterAndData, 1, 3) = SubSeq(q.paymasterAndData, 1, 3),
           NEW until, NEW after
    PROVE  PaymasterHash(p, until, after) = PaymasterHash(q, until, after)
  <1> DEFINE strip(x) == [x EXCEPT !.signature = <<>>,
                                   !.paymasterAndData = SubSeq(@, 1, 3)]
  <1>1. strip(p) = strip(q)
    OBVIOUS
  <1>2. QED
    BY <1>1 DEF PaymasterHash

\* The members of a packed operation the hashes treat specially.
LEMMA PackFields ==
    ASSUME NEW uo
    PROVE  /\ DOMAIN Pack(uo) = PackedFields
           /\ Pack(uo).sender = uo.sender
           /\ Pack(uo).signature = uo.signature
           /\ Pack(uo).paymasterAndData =
                 <<uo.paymaster, uo.paymasterVerificationGasLimit,
                   uo.paymasterPostOpGasLimit>> \o uo.paymasterData
  <1>1. ~IsZeroAddress(Pointer(uo.paymaster))
    BY DEF IsZeroAddress, Pointer
  <1>2. QED
    BY <1>1 DEF Pack, packPaymasterAndPaymasterData, PackedFields

\* Every other member comes from fields of the operation no signature fills in.
LEMMA PackAgrees ==
    ASSUME NEW uo, NEW up,
           \A f \in OpFields \ {"signature", "paymasterData"} : uo[f] = up[f]
    PROVE  \A f \in PackedFields \ {"signature", "paymasterAndData"} :
              Pack(uo)[f] = Pack(up)[f]
  <1>1. /\ uo.sender = up.sender /\ uo.nonce = up.nonce
        /\ uo.factory = up.factory /\ uo.factoryData = up.factoryData
        /\ uo.callData = up.callData
        /\ uo.callGasLimit = up.callGasLimit
        /\ uo.verificationGasLimit = up.verificationGasLimit
        /\ uo.preVerificationGas = up.preVerificationGas
        /\ uo.maxFeePerGas = up.maxFeePerGas
        /\ uo.maxPriorityFeePerGas = up.maxPriorityFeePerGas
    BY DEF OpFields
  <1>2. /\ Pack(uo).sender = Pack(up).sender
        /\ Pack(uo).nonce = Pack(up).nonce
        /\ Pack(uo).initCode = Pack(up).initCode
        /\ Pack(uo).callData = Pack(up).callData
        /\ Pack(uo).accountGasLimits = Pack(up).accountGasLimits
        /\ Pack(uo).preVerificationGas = Pack(up).preVerificationGas
        /\ Pack(uo).gasFees = Pack(up).gasFees
    BY <1>1 DEF Pack
  <1>3. QED
    BY <1>2 DEF PackedFields

------------------------------------------------------------------------------
(***************************************************************************)
(* The signatures.  The paymaster's covers all of an operation but its     *)
(* signature and the paymaster's data, the owner's all but its signature.  *)
(***************************************************************************)
PaymasterSigned(uo) ==
    \E until, after :
        uo.paymasterData =
          <<until, after>> \o
          personalSign(PaymasterHash(Pack(uo), until, after), "paymasterSigner")

OwnerSigned(uo) ==
    uo.signature = personalSign(UserOpHash(Pack(uo)), "owner")

\* Two operations that differ in what the signatures fill in, at the most.
AgreeButSignatures(uo, up) ==
    \A f \in OpFields \ {"signature", "paymasterData"} : uo[f] = up[f]

DataIsSequence(uo) == \E S : uo.paymasterData \in Seq(S)

\* The paymaster and its limits stay put, whatever its data is.
LEMMA PackedPaymaster ==
    ASSUME NEW uo, DataIsSequence(uo)
    PROVE  SubSeq(Pack(uo).paymasterAndData, 1, 3)
             = <<uo.paymaster, uo.paymasterVerificationGasLimit,
                 uo.paymasterPostOpGasLimit>>
  <1> DEFINE a == uo.paymaster
             b == uo.paymasterVerificationGasLimit
             c == uo.paymasterPostOpGasLimit
             d == uo.paymasterData
  <1>1. Pack(uo).paymasterAndData = <<a, b, c>> \o d
    BY PackFields
  <1>2. PICK S : d \in Seq(S)
    BY DEF DataIsSequence
  <1> HIDE DEF a, b, c, d
  <1>3. SubSeq(<<a, b, c>> \o d, 1, 3) = <<a, b, c>>
    BY <1>2, FirstThree
  <1>4. QED
    BY <1>1, <1>3 DEF a, b, c

\* The paymaster signs the same hash before and after the signatures are filled in.
LEMMA PaymasterHashStable ==
    ASSUME NEW uo, NEW up, AgreeButSignatures(uo, up),
           DataIsSequence(uo), DataIsSequence(up),
           NEW until, NEW after
    PROVE  PaymasterHash(Pack(uo), until, after)
             = PaymasterHash(Pack(up), until, after)
  <1> DEFINE p == Pack(uo)
             q == Pack(up)
  <1>1. SubSeq(p.paymasterAndData, 1, 3)
          = <<uo.paymaster, uo.paymasterVerificationGasLimit,
              uo.paymasterPostOpGasLimit>>
    BY PackedPaymaster
  <1>2. SubSeq(q.paymasterAndData, 1, 3)
          = <<up.paymaster, up.paymasterVerificationGasLimit,
              up.paymasterPostOpGasLimit>>
    BY PackedPaymaster
  <1>3. SubSeq(p.paymasterAndData, 1, 3) = SubSeq(q.paymasterAndData, 1, 3)
    BY <1>1, <1>2 DEF AgreeButSignatures, OpFields
  <1>4. DOMAIN p = PackedFields /\ DOMAIN q = PackedFields
    BY PackFields
  <1>5. \A f \in PackedFields \ {"signature", "paymasterAndData"} : p[f] = q[f]
    BY PackAgrees DEF AgreeButSignatures
  <1> HIDE DEF p, q
  <1>6. PaymasterHash(p, until, after) = PaymasterHash(q, until, after)
    BY <1>3, <1>4, <1>5, PaymasterHashCovers
  <1>7. QED
    BY <1>6 DEF p, q

\* EncodePaymasterData adds what the paymaster signed.
LEMMA EncodedIsSigned ==
    ASSUME NEW uo, OpFields \subseteq DOMAIN uo, uo.paymasterData = <<>>,
           NEW until, NEW after
    PROVE  PaymasterSigned(EncodePaymasterData(uo, until, after,
              personalSign(PaymasterHash(Pack(uo), until, after),
                           "paymasterSigner")))
  <1> DEFINE signed == [signer |-> "paymasterSigner",
                        over |-> PaymasterHash(Pack(uo), until, after)]
             data == <<until, after>> \o <<signed>>
             up == [uo EXCEPT !.paymasterData = data]
  <1>1. AgreeButSignatures(uo, up)
    BY DEF AgreeButSignatures
  <1>2. up.paymasterData = data
    BY DEF OpFields
  <1>3. up = EncodePaymasterData(uo, until, after,
                personalSign(PaymasterHash(Pack(uo), until, after),
                             "paymasterSigner"))
    BY DEF EncodePaymasterData, personalSign
  <1>4. DataIsSequence(uo) /\ DataIsSequence(up)
    <2>1. <<>> \in Seq({})
      OBVIOUS
    <2> HIDE DEF signed, up
    <2>2. data \in Seq({until, after, signed})
      OBVIOUS
    <2>3. QED
      BY <1>2, <2>1, <2>2 DEF DataIsSequence
  <1> HIDE DEF up, data
  <1>5. PaymasterHash(Pack(uo), until, after)
          = PaymasterHash(Pack(up), until, after)
    BY <1>1, <1>4, PaymasterHashStable
  <1>6. up.paymasterData =
          <<until, after>> \o
          personalSign(PaymasterHash(Pack(up), until, after), "paymasterSigner")
    BY <1>2, <1>5 DEF data, personalSign
  <1>7. QED
    BY <1>3, <1>6 DEF PaymasterSigned

\* The owner's signature is over the operation it is put into, and leaves what the
\* paymaster signed alone.
LEMMA SigningSigns ==
    ASSUME NEW uo, OpFields \subseteq DOMAIN uo, PaymasterSigned(uo),
           NEW up, up = [uo EXCEPT !.signature =
                           personalSign(UserOpHash(Pack(uo)), "owner")]
    PROVE  OwnerSigned(up) /\ PaymasterSigned(up)
  <1>1. /\ \A f \in OpFields \ {"signature"} : uo[f] = up[f]
        /\ up.signature = personalSign(UserOpHash(Pack(uo)), "owner")
    BY DEF OpFields
  <1>2. PICK until, after :
          uo.paymasterData =
            <<until, after>> \o
            personalSign(PaymasterHash(Pack(uo), until, after), "paymasterSigner")
    BY DEF PaymasterSigned
  <1>3. up.paymasterData = uo.paymasterData
    BY <1>1 DEF OpFields
  <1>4. DataIsSequence(uo) /\ DataIsSequence(up)
    <2> DEFINE signed == [signer |-> "paymasterSigner",
                          over |-> PaymasterHash(Pack(uo), until, after)]
    <2>1. uo.paymasterData = <<until, after>> \o <<signed>>
      BY <1>2 DEF personalSign
    <2> HIDE DEF signed
    <2>2. uo.paymasterData \in Seq({until, after, signed})
      BY <2>1
    <2>3. QED
      BY <1>3, <2>2 DEF DataIsSequence
  <1>5. PaymasterHash(Pack(uo), until, after)
          = PaymasterHash(Pack(up), until, after)
    <2>1. AgreeButSignatures(uo, up)
      BY <1>1 DEF AgreeButSignatures
    <2>2. QED
      BY <1>4, <2>1, PaymasterHashStable
  <1>6. PaymasterSigned(up)
    BY <1>2, <1>3, <1>5 DEF PaymasterSigned
  <1>7. Pack(uo).paymasterAndData = Pack(up).paymasterAndData
    <2>1. /\ uo.paymaster = up.paymaster
          /\ uo.paymasterVerificationGasLimit = up.paymasterVerificationGasLimit
          /\ uo.paymasterPostOpGasLimit = up.paymasterPostOpGasLimit
      BY <1>1 DEF OpFields
    <2>2. QED
      BY <1>3, <2>1, PackFields
  <1>8. \A f \in PackedFields \ {"signature"} : Pack(uo)[f] = Pack(up)[f]
    BY <1>1, <1>7, PackAgrees
  <1>9. UserOpHash(Pack(uo)) = UserOpHash(Pack(up))
    BY <1>8, PackFields, HashesCover
  <1>10. QED
    BY <1>1, <1>6, <1>9 DEF OwnerSigned

\* What is signed, in range and sent verifies.
LEMMA RequestVerifies ==
    ASSUME NEW uo, InRange(uo), OwnerSigned(uo), PaymasterSigned(uo),
           uo.verificationGasLimit \in Int, uo.callGasLimit \in Int,
           uo.maxPriorityFeePerGas \in Int, uo.maxFeePerGas \in Int
    PROVE  /\ OwnerSignatureValid(SendRequest(uo))
           /\ PaymasterSignatureValid(SendRequest(uo))
  <1> DEFINE p == Pack(uo)
  <1>1. SendRequest(uo) = p
    BY RequestIsPacked
  <1>2. OwnerSignatureValid(p)
    BY PackFields DEF OwnerSigned, OwnerSignatureValid
  <1>3. PaymasterSignatureValid(p)
    <2>1. PICK until, after :
            uo.paymasterData =
              <<until, after>> \o
              personalSign(PaymasterHash(p, until, after), "paymasterSigner")
      BY DEF PaymasterSigned
    <2> DEFINE signed == [signer |-> "paymasterSigner",
                          over |-> PaymasterHash(p, until, after)]
    <2>2. personalSign(PaymasterHash(p, until, after), "paymasterSigner") = <<signed>>
      BY DEF personalSign
    <2>3. p.paymasterAndData =
            <<uo.paymaster, uo.paymasterVerificationGasLimit,
              uo.paymasterPostOpGasLimit>> \o (<<until, after>> \o <<signed>>)
      BY <2>1, <2>2, PackFields
    <2> HIDE DEF p, signed
    <2>4. /\ Len(p.paymasterAndData) = 6
          /\ p.paymasterAndData[4] = until
          /\ p.paymasterAndData[5] = after
          /\ p.paymasterAndData[6] = signed
      BY <2>3
    <2>5. QED
      BY <2>2, <2>4 DEF PaymasterSignatureValid
  <1>4. QED
    BY <1>1, <1>2, <1>3

------------------------------------------------------------------------------
(***************************************************************************)
(* What a step of a request's pipeline leaves alone: the salt, the sender, *)
(* the call data and, but for GetNonce, the nonce of its operation.        *)
(***************************************************************************)
LEMMA OpStepFrame ==
    ASSUME OpTypeOK, NEW r \in Requests, OpStep(r)
    PROVE  /\ UNCHANGED walletSalt
           /\ opPc' \in [Requests -> OpPcs]
           /\ \A q \in Requests \ {r} : opPc'[q] = opPc[q]
           /\ DOMAIN op' = Requests
           /\ \A q \in Requests \ {r} : op'[q] = op[q]
           /\ DOMAIN op'[r] = DOMAIN op[r]
           /\ op'[r].sender = op[r].sender
           /\ op'[r].callData = op[r].callData
           /\ GetNonce(r) \/ op'[r].nonce = op[r].nonce
  <1> USE DEF OpTypeOK, OpGoto, OpOnly, SetOp, OpPcs, OpInFlight
  <1>1. CASE CodeAtDeployed(r)
    BY <1>1 DEF CodeAtDeployed
  <1>2. CASE CodeAtUndeployed(r)
    BY <1>2 DEF CodeAtUndeployed
  <1>3. CASE CodeAtPanic(r)
    BY <1>3 DEF CodeAtPanic
  <1>4. CASE MintReturned(r)
    BY <1>4 DEF MintReturned
  <1>5. CASE GetNonce(r)
    BY <1>5 DEF GetNonce
  <1>6. CASE EstimateUserOpGas(r)
    BY <1>6 DEF EstimateUserOpGas
  <1>7. CASE GetMaxPriorityFeePerGas(r)
    BY <1>7 DEF GetMaxPriorityFeePerGas
  <1>8. CASE SuggestGasPrice(r)
    BY <1>8 DEF SuggestGasPrice
  <1>9. CASE SignPaymaster(r)
    BY <1>9 DEF SignPaymaster, EncodePaymasterData
  <1>10. CASE SignUserOp(r)
    BY <1>10 DEF SignUserOp
  <1>11. CASE OpRpcError(r)
    BY <1>11 DEF OpRpcError
  <1>12. CASE SendOp(r)
    BY <1>12 DEF SendOp
  <1>13. CASE SendOpLost(r)
    BY <1>13 DEF SendOpLost
  <1>14. CASE MintStep(r) /\ UNCHANGED <<chainVars, opVars>>
    BY <1>14 DEF opVars
  <1>15. QED
    BY <1>1, <1>2, <1>3, <1>4, <1>5, <1>6, <1>7, <1>8, <1>9, <1>10, <1>11,
       <1>12, <1>13, <1>14 DEF OpStep

\* Only the submission of the request's operation touches the bundler's side.
LEMMA OpStepChain ==
    ASSUME OpTypeOK, NEW r \in Requests, OpStep(r)
    PROVE  \/ UNCHANGED chainVars
           \/ /\ opPc[r] = "send" /\ opPc'[r] \in {"sent", "err"}
              /\ AcceptOp(SendRequest(op[r]))
  <1>1. CASE SendOp(r) \/ SendOpLost(r)
    BY <1>1 DEF SendOp, SendOpLost, OpGoto, OpTypeOK
  <1>2. CASE ~(SendOp(r) \/ SendOpLost(r))
    BY <1>2 DEF OpStep, CodeAtDeployed, CodeAtUndeployed, CodeAtPanic,
       MintReturned, GetNonce, EstimateUserOpGas, GetMaxPriorityFeePerGas,
       SuggestGasPrice, SignPaymaster, SignUserOp, OpRpcError, OpOnly
  <1>3. QED
    BY <1>1, <1>2

\* What the bundler does of its own leaves the requests alone.
LEMMA ChainStepFrame ==
    ASSUME ChainStep
    PROVE  /\ UNCHANGED opVars
           /\ \/ UNCHANGED chainVars
              \/ IncludeOp
              \/ EvictOp
  BY DEF ChainStep

\* The bundler keeps its types when it includes or evicts ...
LEMMA ChainStepType ==
    ASSUME ChainTypeOK, ChainStep
    PROVE  ChainTypeOK'
  <1>1. CASE UNCHANGED chainVars
    BY <1>1 DEF ChainTypeOK, chainVars
  <1>2. CASE IncludeOp
    BY <1>2 DEF ChainTypeOK, IncludeOp
  <1>3. CASE EvictOp
    BY <1>3 DEF ChainTypeOK, EvictOp
  <1>4. QED
    BY <1>1, <1>2, <1>3, ChainStepFrame

------------------------------------------------------------------------------
(***************************************************************************)
(* The sender.  Once a request is in the pipeline, its sender is the       *)
(* account of its salt if it has one.  This is what makes the addresses    *)
(* minted for the accounts of MintSpec, as only such a request mints.      *)
(***************************************************************************)
SenderDerived(r) ==
    walletSalt[r] # NoSalt => op[r].sender = GetSenderAddres(walletSalt[r])

SendInv ==
    /\ ChainTypeOK
    /\ OpTypeOK
    /\ \A r \in Requests : IF opPc[r] = "idle" THEN walletSalt[r] = NoSalt
                                                ELSE SenderDerived(r)

LEMMA SaltsAreNotNoSalt == NoSalt \notin Salts
  BY SaltAssumption DEF Salts, NoSalt

\* A call starts at the look-up of the code, and leaves other requests alone.
LEMMA CallOpFrame ==
    ASSUME SendInv, NEW r \in Requests, CallOp(r)
    PROVE  /\ OpTypeOK'
           /\ \A q \in Requests \ {r} : /\ op'[q] = op[q]
                                        /\ opPc'[q] = opPc[q]
                                        /\ walletSalt'[q] = walletSalt[q]
           /\ opPc'[r] = "codeAt"
           /\ SenderDerived(r)'
  <1> USE DEF SendInv, OpTypeOK, OpGoto, SetOp, CallSend, OpPcs, OpInFlight
  <1>1. PICK s \in Salts \cup {NoSalt}, a \in Addresses, callData \in CallDatas :
               CallSend(r, s, a, callData)
    BY AddressAssumption DEF CallOp, CallDatas
  <1> DEFINE sender == IF s = NoSalt THEN a ELSE GetSenderAddres(s)
             new == NewUserOp(sender, 0, ZeroAddress, <<>>, callData)
  <1>2. sender \in Addresses
    BY <1>1, SenderIsAddress
  <1>3. /\ new.sender = sender /\ new.nonce = 0
        /\ {"sender", "nonce", "callData"} \subseteq DOMAIN new
    BY DEF NewUserOp
  <1>4. op' = [op EXCEPT ![r] = new]
    BY <1>1
  <1> HIDE DEF new
  <1>5. op'[r] = new /\ walletSalt'[r] = s
    BY <1>1, <1>4
  <1>6. SenderDerived(r)'
    BY <1>3, <1>5 DEF SenderDerived
  <1>7. OpTypeOK'
    BY <1>1, <1>2, <1>3, <1>4
  <1>8. QED
    BY <1>1, <1>4, <1>6, <1>7

\* ... and when it takes an operation.
LEMMA AcceptOpType ==
    ASSUME ChainTypeOK, OpTypeOK, NEW r \in Requests,
           AcceptOp(SendRequest(op[r]))
    PROVE  ChainTypeOK'
  <1> DEFINE p == SendRequest(op[r])
  <1>1. p.sender \in Addresses /\ p.nonce \in Nat
    BY DEF OpTypeOK, SendRequest
  <1> HIDE DEF p
  <1>2. AcceptOp(p)
    BY DEF p
  <1>3. QED
    BY <1>1, <1>2 DEF ChainTypeOK, AcceptOp

LEMMA SendInvInit == SendInit => SendInv
  BY AddressAssumption DEF SendInit, ChainInit, OpInit, SendInv, ChainTypeOK,
     OpTypeOK, OpPcs, NewUserOp

LEMMA SendInvStep ==
    ASSUME SendInv, [SendNext]_sendVars
    PROVE  SendInv'
  <1>1. ASSUME NEW r \in Requests, CallOp(r), UNCHANGED <<mintVars, chainVars>>
        PROVE  SendInv'
    <2>1. ChainTypeOK'
      BY <1>1 DEF SendInv, ChainTypeOK, chainVars
    <2>2. QED
      BY <1>1, <2>1, CallOpFrame DEF SendInv, SenderDerived, GetSenderAddres
  <1>2. ASSUME NEW r \in Requests, OpStep(r)
        PROVE  SendInv'
    <2>1. ChainTypeOK'
      <3>1. CASE UNCHANGED chainVars
        BY <3>1 DEF SendInv, ChainTypeOK, chainVars
      <3>2. QED
        BY <1>2, <3>1, OpStepChain, AcceptOpType DEF SendInv
    <2>2. op'[r].nonce \in Nat
      <3>1. CASE GetNonce(r)
        BY <3>1 DEF GetNonce, SetOp, SendInv, OpTypeOK, ChainTypeOK
      <3>2. QED
        BY <1>2, <3>1, OpStepFrame DEF SendInv, OpTypeOK
    <2>3. OpTypeOK'
      BY <1>2, <2>2, OpStepFrame DEF SendInv, OpTypeOK
    <2>4. (opPc[r] # "idle" /\ opPc'[r] # "idle") \/ UNCHANGED opVars
      BY <1>2 DEF OpStep, CodeAtDeployed, CodeAtUndeployed, CodeAtPanic,
         MintReturned, GetNonce, EstimateUserOpGas, GetMaxPriorityFeePerGas,
         SuggestGasPrice, SignPaymaster, SignUserOp, OpRpcError, SendOp,
         SendOpLost, OpGoto, OpInFlight, SendInv, OpTypeOK
    <2>5. QED
      BY <1>2, <2>1, <2>3, <2>4, OpStepFrame
         DEF SendInv, opVars, SenderDerived, GetSenderAddres
  <1>3. CASE ChainStep
    <2>1. ChainTypeOK'
      BY <1>3, ChainStepType DEF SendInv
    <2>2. QED
      BY <1>3, <2>1, ChainStepFrame DEF SendInv, OpTypeOK, opVars,
         SenderDerived, GetSenderAddres
  <1>4. CASE SendRestart
    BY <1>4 DEF SendRestart, SendInv, ChainTypeOK, chainVars, OpTypeOK, OpPcs,
       OpInFlight, SenderDerived, GetSenderAddres
  <1>5. CASE UNCHANGED sendVars
    BY <1>5 DEF sendVars, opVars, SendInv, ChainTypeOK, chainVars, OpTypeOK,
       SenderDerived, GetSenderAddres
  <1>6. QED
    BY <1>1, <1>2, <1>3, <1>4, <1>5 DEF SendNext

\* SendInv: the sender of a call by salt is the account of the salt.
THEOREM SendInvariant == SendSpec => []SendInv
  BY SendInvInit, SendInvStep, PTL DEF SendSpec

------------------------------------------------------------------------------
(***************************************************************************)
(* To MintToken, a step of the pipeline is a call on behalf of an account, *)
(* a step of the call, or nothing.                                         *)
(***************************************************************************)
LEMMA OpStepMints ==
    ASSUME SendInv, NEW r \in Requests, OpStep(r)
    PROVE  [MintNext]_mintVars
  <1>1. CASE CodeAtUndeployed(r)
    <2>1. PICK salt \in Salts : op[r].sender = GetSenderAddres(salt)
      BY <1>1 DEF CodeAtUndeployed, OpGoto, SendInv, OpTypeOK, SenderDerived
    <2>2. CallMintToken(r, GetSenderAddres(salt))
      BY <1>1, <2>1 DEF CodeAtUndeployed
    <2>3. QED
      BY <2>2 DEF MintNext
  <1>2. CASE MintStep(r)
    BY <1>2 DEF MintNext
  <1>3. CASE ~CodeAtUndeployed(r) /\ ~MintStep(r)
    BY <1>3 DEF OpStep, CodeAtDeployed, CodeAtPanic, MintReturned, GetNonce,
       EstimateUserOpGas, GetMaxPriorityFeePerGas, SuggestGasPrice,
       SignPaymaster, SignUserOp, OpRpcError, SendOp, SendOpLost, OpOnly
  <1>4. QED
    BY <1>1, <1>2, <1>3

\* So is every other step.
LEMMA SendStepMints ==
    ASSUME SendInv, [SendNext]_sendVars
    PROVE  [MintNext]_mintVars
  <1>1. ASSUME NEW r \in Requests, OpStep(r)
        PROVE  [MintNext]_mintVars
    BY <1>1, OpStepMints
  <1>2. CASE ChainStep
    BY <1>2 DEF ChainStep, MintNext
  <1>3. CASE SendRestart
    BY <1>3 DEF SendRestart, MintNext
  <1>4. QED
    BY <1>1, <1>2, <1>3 DEF SendNext, sendVars

\* MintSpec: inside SendUserOperation, MintToken is used as MintToken.tla has it,
\* so that whatever is proved of MintSpec holds of SendSpec too.
THEOREM SendImplementsMint == SendSpec => MintSpec
<1>1. SendInit => MintInit
  BY DEF SendInit
<1>2. QED
  BY <1>1, SendStepMints, SendInvariant, PTL DEF SendSpec, MintSpec

\* The state of the pipeline, of the mints and of the bundler is well typed.
THEOREM SendTypeCorrect == SendSpec => []SendTypeOK
<1>1. MintTypeOK /\ SendInv => SendTypeOK
  BY DEF SendInv, SendTypeOK
<1>2. QED
  BY <1>1, SendImplementsMint, MintTypeCorrect, SendInvariant, PTL

------------------------------------------------------------------------------
(***************************************************************************)
(* The nonce of an operation in hand is never ahead of its account's, and  *)
(* the bundler takes none that is behind.  So what it takes carries the    *)
(* account's very nonce and replaces the operation that was pooled.        *)
(***************************************************************************)
NonceInHand == {"estimate", "priorityFee", "gasPrice", "paymasterHash",
                "userOpHash", "send"}

MempoolInv ==
    /\ \A r \in Requests :
          opPc[r] \in NonceInHand => op[r].nonce <= entryNonce[op[r].sender]
    /\ MempoolCurrent
    /\ AtMostOneLiveOp

\* What the bundler takes has the next nonce and displaces what is pooled.
LEMMA AcceptOpCurrent ==
    ASSUME SendInv, MempoolInv, NEW r \in Requests, opPc[r] = "send",
           AcceptOp(SendRequest(op[r]))
    PROVE  MempoolCurrent' /\ AtMostOneLiveOp' /\ UNCHANGED entryNonce
  <1> DEFINE p == SendRequest(op[r])
  <1>1. p.nonce = entryNonce[p.sender]
    <2>1. p.sender = op[r].sender /\ p.nonce = op[r].nonce
      BY DEF SendRequest
    <2>2. op[r].nonce <= entryNonce[op[r].sender]
      BY DEF MempoolInv, NonceInHand
    <2>3. op[r].nonce >= entryNonce[op[r].sender]
      BY <2>1 DEF AcceptOp
    <2>4. op[r].nonce \in Nat /\ entryNonce[op[r].sender] \in Nat
      BY DEF SendInv, ChainTypeOK, OpTypeOK
    <2>5. QED
      BY <2>1, <2>2, <2>3, <2>4
  <1> HIDE DEF p
  <1>2. AcceptOp(p)
    BY DEF p
  <1>3. \A q \in mempool' : q = p \/ (q \in mempool /\ q.sender # p.sender)
    BY <1>1, <1>2 DEF AcceptOp, MempoolInv, MempoolCurrent
  <1>4. UNCHANGED entryNonce
    BY <1>2 DEF AcceptOp
  <1>5. QED
    BY <1>1, <1>3, <1>4 DEF MempoolInv, MempoolCurrent, AtMostOneLiveOp

\* Inclusion and eviction keep the pool current, and nonces only grow.
LEMMA ChainStepCurrent ==
    ASSUME SendInv, MempoolInv, ChainStep
    PROVE  /\ MempoolCurrent' /\ AtMostOneLiveOp'
           /\ \A a \in Addresses : entryNonce[a] <= entryNonce'[a]
  <1> USE DEF SendInv, ChainTypeOK, MempoolInv, MempoolCurrent, AtMostOneLiveOp
  <1>1. CASE UNCHANGED chainVars
    BY <1>1 DEF chainVars
  <1>2. CASE IncludeOp
    <2>1. PICK p \in mempool :
             /\ entryNonce' = [entryNonce EXCEPT ![p.sender] = @ + 1]
             /\ mempool' = mempool \ {p}
      BY <1>2 DEF IncludeOp
    <2>2. \A q \in mempool' : q.sender # p.sender /\ q \in mempool
      BY <2>1
    <2>3. QED
      BY <2>1, <2>2
  <1>3. CASE EvictOp
    BY <1>3 DEF EvictOp
  <1>4. QED
    BY <1>1, <1>2, <1>3, ChainStepFrame

\* MempoolInv: no nonce in hand is ahead, and the pool holds each account's next one.
THEOREM MempoolInvariant == SendSpec => []MempoolInv
<1>1. SendInit => MempoolInv
  BY DEF SendInit, ChainInit, OpInit, MempoolInv, NonceInHand, MempoolCurrent,
     AtMostOneLiveOp
<1>2. SendInv /\ SendInv' /\ MempoolInv /\ [SendNext]_sendVars => MempoolInv'
  <2> SUFFICES ASSUME SendInv, SendInv', MempoolInv, [SendNext]_sendVars
               PROVE  MempoolInv'
    OBVIOUS
  <2>0. ASSUME UNCHANGED chainVars
        PROVE  /\ MempoolCurrent' /\ AtMostOneLiveOp'
               /\ UNCHANGED entryNonce
    BY <2>0 DEF chainVars, MempoolInv, MempoolCurrent, AtMostOneLiveOp
  <2>1. ASSUME NEW r \in Requests, CallOp(r), UNCHANGED <<mintVars, chainVars>>
        PROVE  MempoolInv'
    BY <2>1, <2>0, CallOpFrame DEF MempoolInv, NonceInHand
  <2>2. ASSUME NEW r \in Requests, OpStep(r)
        PROVE  MempoolInv'
    <3>1. MempoolCurrent' /\ AtMostOneLiveOp' /\ UNCHANGED entryNonce
      BY <2>0, <2>2, OpStepChain, AcceptOpCurrent DEF SendInv
    <3>2. CASE GetNonce(r)
      <4>1. op'[r].nonce = entryNonce[op[r].sender]
        BY <3>2 DEF GetNonce, SetOp, SendInv, OpTypeOK
      <4>2. op'[r].nonce <= entryNonce'[op'[r].sender]
        BY <2>2, <3>1, <4>1, OpStepFrame DEF SendInv, OpTypeOK, ChainTypeOK
      <4>3. QED
        BY <2>2, <3>1, <4>2, OpStepFrame DEF SendInv, MempoolInv
    <3>3. CASE ~GetNonce(r)
      <4>1. opPc'[r] \in NonceInHand => opPc[r] \in NonceInHand
        BY <2>2, <3>3 DEF OpStep, CodeAtDeployed, CodeAtUndeployed,
           CodeAtPanic, MintReturned, EstimateUserOpGas,
           GetMaxPriorityFeePerGas, SuggestGasPrice, SignPaymaster,
           SignUserOp, OpRpcError, SendOp, SendOpLost, OpGoto, opVars,
           NonceInHand, SendInv, OpTypeOK
      <4>2. QED
        BY <2>2, <3>1, <3>3, <4>1, OpStepFrame DEF SendInv, MempoolInv
    <3>4. QED
      BY <3>2, <3>3
  <2>3. CASE ChainStep
    <3>1. UNCHANGED opVars
      BY <2>3, ChainStepFrame
    <3>2. /\ MempoolCurrent' /\ AtMostOneLiveOp'
          /\ \A a \in Addresses : entryNonce[a] <= entryNonce'[a]
      BY <2>3, ChainStepCurrent
    <3>3. \A r \in Requests : /\ op[r].sender \in Addresses
                              /\ op[r].nonce \in Nat
                              /\ entryNonce[op[r].sender] \in Nat
                              /\ entryNonce'[op[r].sender] \in Nat
      BY DEF SendInv, OpTypeOK, ChainTypeOK
    <3>4. QED
      BY <3>1, <3>2, <3>3 DEF MempoolInv, opVars
  <2>4. CASE SendRestart
    BY <2>4, <2>0 DEF SendRestart, MempoolInv, NonceInHand, OpInFlight,
       SendInv, OpTypeOK
  <2>5. CASE UNCHANGED sendVars
    BY <2>5, <2>0 DEF sendVars, opVars, MempoolInv
  <2>6. QED
    BY <2>1, <2>2, <2>3, <2>4, <2>5 DEF SendNext
<1>3. QED
  BY <1>1, <1>2, SendInvariant, PTL DEF SendSpec

\* MempoolCurrent: a pooled operation carries the nonce its account uses next,
\* although SendUserOperation read it several RPCs before it submitted it.
THEOREM MempoolIsCurrent == SendSpec => []MempoolCurrent
<1>1. MempoolInv => MempoolCurrent
  BY DEF MempoolInv
<1>2. QED
  BY <1>1, MempoolInvariant, PTL

\* AtMostOneLiveOp: of one account, at most one operation is pooled.
THEOREM AtMostOneOpIsLive == SendSpec => []AtMostOneLiveOp
<1>1. MempoolInv => AtMostOneLiveOp
  BY DEF MempoolInv
<1>2. QED
  BY <1>1, MempoolInvariant, PTL

------------------------------------------------------------------------------
(***************************************************************************)
(* The funding.  An operation in hand names the factory only once          *)
(* MintToken has been called for its sender, and gets past "mint" only     *)
(* when that call has returned without an error, hence its transaction has *)
(* been mined.  The zero factory creates nothing.                          *)
(***************************************************************************)
Funded(a) == \E tx \in mined : tx.to = a

FundInv ==
    /\ \A r \in Requests :
          /\ {"factory", "factoryData"} \subseteq DOMAIN op[r]
          /\ op[r].factoryData \in Seq(Salts)
          /\ opPc[r] = "mint" => mintTo[r] = op[r].sender
          /\ op[r].factory = AccountFactory =>
                opPc[r] \in {"mint", "err", "dead"} \/ Funded(op[r].sender)
    /\ CreationFunded

\* What is on chain stays there.
LEMMA MinedGrows ==
    ASSUME [MintNext]_mintVars
    PROVE  mined \subseteq mined'
  BY DEF MintNext, MintStep, CallMintToken, DivLoad, DivStore, GetOwnerNonce,
     MintGasPrice, MintRpcError, SendMintTx, SendMintTxLost, WaitMined,
     MintMine, MineTx, MintRestart, AcceptTx, mintVars, ownerVars

\* Only the branch for an undeployed sender names an account to MintToken.
LEMMA OpStepTarget ==
    ASSUME MintTypeOK, NEW r \in Requests, OpStep(r), NEW q \in Requests,
           q # r \/ ~CodeAtUndeployed(r)
    PROVE  mintTo'[q] = mintTo[q]
  BY DEF MintTypeOK, OpStep, CodeAtDeployed, CodeAtUndeployed, CodeAtPanic,
     MintReturned, GetNonce, EstimateUserOpGas, GetMaxPriorityFeePerGas,
     SuggestGasPrice, SignPaymaster, SignUserOp, OpRpcError, SendOp, SendOpLost,
     OpOnly, mintVars, localVars, CallMintToken, MintStep, DivLoad, DivStore,
     GetOwnerNonce, MintGasPrice, MintRpcError, SendMintTx, SendMintTxLost,
     WaitMined

\* Only the branch for an undeployed sender sets the factory.
LEMMA OpStepFactory ==
    ASSUME OpTypeOK, NEW r \in Requests, OpStep(r), ~CodeAtUndeployed(r),
           {"factory", "factoryData"} \subseteq DOMAIN op[r]
    PROVE  /\ op'[r].factory = op[r].factory
           /\ op'[r].factoryData = op[r].factoryData
  BY DEF OpTypeOK, OpStep, CodeAtDeployed, CodeAtPanic, MintReturned, GetNonce,
     EstimateUserOpGas, GetMaxPriorityFeePerGas, SuggestGasPrice, SignPaymaster,
     EncodePaymasterData, SignUserOp, OpRpcError, SendOp, SendOpLost, SetOp,
     opVars

\* The request's first member of initCode is the operation's factory.
LEMMA RequestFactory ==
    ASSUME FundInv, NEW r \in Requests, CreatesAccount(SendRequest(op[r]))
    PROVE  op[r].factory = AccountFactory
  <1> DEFINE p == SendRequest(op[r])
  <1>1. p.initCode = <<op[r].factory>> \o op[r].factoryData
    BY DEF SendRequest, IsZeroAddress, Pointer
  <1>2. p.initCode[1] = op[r].factory
    BY <1>1 DEF FundInv
  <1>3. QED
    BY <1>2 DEF CreatesAccount

\* An operation is past "mint" only if it was before, or MintToken has returned.
LEMMA OpStepPastMint ==
    ASSUME OpTypeOK, NEW r \in Requests, OpStep(r), ~CodeAtUndeployed(r)
    PROVE  /\ opPc'[r] = "mint" => opPc[r] = "mint"
           /\ opPc[r] \in {"mint", "err", "dead"} =>
                \/ opPc'[r] \in {"mint", "err", "dead"}
                \/ opPc[r] = "mint" /\ mintPc[r] = "ok"
  BY DEF OpTypeOK, OpStep, CodeAtDeployed, CodeAtPanic, MintReturned, GetNonce,
     EstimateUserOpGas, GetMaxPriorityFeePerGas, SuggestGasPrice, SignPaymaster,
     SignUserOp, OpRpcError, SendOp, SendOpLost, OpGoto, OpInFlight, opVars

\* The submission keeps CreationFunded: the request is past "mint".
LEMMA SubmissionFunded ==
    ASSUME FundInv, NEW r \in Requests, opPc[r] = "send",
           AcceptOp(SendRequest(op[r])), mined \subseteq mined'
    PROVE  CreationFunded'
  <1> DEFINE p == SendRequest(op[r])
  <1>1. p.sender = op[r].sender
    BY DEF SendRequest
  <1>2. CreatesAccount(p) => Funded(p.sender)
    BY <1>1, RequestFactory DEF FundInv
  <1>3. submitted' = submitted \cup {p}
    BY DEF AcceptOp
  <1> HIDE DEF p
  <1>4. QED
    BY <1>2, <1>3 DEF FundInv, CreationFunded, Funded, CreatesAccount,
       GetSenderAddres

LEMMA FundInvStep ==
    ASSUME SendInv, MintTypeOK, TargetInv, FundInv, [SendNext]_sendVars
    PROVE  FundInv'
  <1>0. mined \subseteq mined'
    BY SendStepMints, MinedGrows
  <1>1. \A a : Funded(a) => Funded(a)'
    BY <1>0 DEF Funded
  <1>2. ASSUME UNCHANGED submitted
        PROVE  CreationFunded'
    BY <1>0, <1>2 DEF FundInv, CreationFunded, CreatesAccount, GetSenderAddres
  <1>3. ASSUME UNCHANGED <<opVars, mintTo, submitted>>
        PROVE  FundInv'
    BY <1>1, <1>2, <1>3 DEF FundInv, opVars
  <1>4. ASSUME NEW r \in Requests, CallOp(r), UNCHANGED <<mintVars, chainVars>>
        PROVE  FundInv'
    <2>1. PICK sender, callData :
             op'[r] = NewUserOp(sender, 0, ZeroAddress, <<>>, callData)
      BY <1>4 DEF CallOp, CallSend, SetOp, SendInv, OpTypeOK
    <2>2. /\ {"factory", "factoryData"} \subseteq DOMAIN op'[r]
          /\ op'[r].factory = ZeroAddress
          /\ op'[r].factoryData = <<>>
      BY <2>1 DEF NewUserOp
    <2>3. <<>> \in Seq(Salts) /\ ZeroAddress # AccountFactory
      BY AddressAssumption
    <2>4. /\ opPc'[r] = "codeAt"
          /\ \A q \in Requests \ {r} : op'[q] = op[q] /\ opPc'[q] = opPc[q]
      BY <1>4, CallOpFrame
    <2>5. UNCHANGED <<mintTo, submitted>>
      BY <1>4 DEF mintVars, localVars, chainVars
    <2>6. QED
      BY <1>1, <1>2, <2>2, <2>3, <2>4, <2>5 DEF FundInv
  <1>5. ASSUME NEW r \in Requests, OpStep(r)
        PROVE  FundInv'
    <2>1. CreationFunded'
      BY <1>0, <1>2, <1>5, OpStepChain, SubmissionFunded DEF SendInv, chainVars
    <2>2. \A q \in Requests \ {r} :
             /\ op'[q] = op[q] /\ opPc'[q] = opPc[q] /\ mintTo'[q] = mintTo[q]
      BY <1>5, OpStepFrame, OpStepTarget DEF SendInv
    <2>3. CASE CodeAtUndeployed(r)
      <3>1. /\ opPc'[r] = "mint"
            /\ mintTo'[r] = op[r].sender
            /\ op'[r] = [op[r] EXCEPT !.factory = AccountFactory,
                                      !.factoryData = <<walletSalt[r]>>]
            /\ walletSalt[r] \in Salts
        BY <2>3 DEF CodeAtUndeployed, OpGoto, SetOp, CallMintToken, SendInv,
           OpTypeOK, MintTypeOK
      <3>2. /\ {"factory", "factoryData"} \subseteq DOMAIN op'[r]
            /\ op'[r].factoryData \in Seq(Salts)
            /\ op'[r].sender = op[r].sender
        BY <3>1, <1>5, OpStepFrame DEF FundInv, SendInv
      <3>3. QED
        BY <1>1, <2>1, <2>2, <3>1, <3>2 DEF FundInv
    <2>4. CASE ~CodeAtUndeployed(r)
      <3>1. /\ op'[r].factory = op[r].factory
            /\ op'[r].factoryData = op[r].factoryData
        BY <1>5, <2>4, OpStepFactory DEF FundInv, SendInv
      <3>2. op'[r].sender = op[r].sender /\ DOMAIN op'[r] = DOMAIN op[r]
        BY <1>5, OpStepFrame DEF SendInv
      <3>3. mintTo'[r] = mintTo[r]
        BY <1>5, <2>4, OpStepTarget
      <3>4. opPc[r] = "mint" /\ mintPc[r] = "ok" => Funded(op[r].sender)
        BY DEF FundInv, TargetInv, Funded
      <3>5. /\ opPc'[r] = "mint" => opPc[r] = "mint"
            /\ opPc[r] \in {"mint", "err", "dead"} =>
                  opPc'[r] \in {"mint", "err", "dead"} \/ Funded(op[r].sender)
        BY <1>5, <2>4, <3>4, OpStepPastMint DEF SendInv
      <3>6. QED
        BY <1>1, <2>1, <2>2, <3>1, <3>2, <3>3, <3>5 DEF FundInv
    <2>5. QED
      BY <2>3, <2>4
  <1>6. CASE ChainStep
    BY <1>3, <1>6 DEF ChainStep, MintMine, mintVars, localVars, chainVars,
       IncludeOp, EvictOp
  <1>7. CASE SendRestart
    <2>1. UNCHANGED <<op, mintTo, submitted>>
      BY <1>7 DEF SendRestart, MintRestart, localVars, chainVars
    <2>2. \A r \in Requests : opPc'[r] \in {opPc[r], "dead"}
      BY <1>7 DEF SendRestart, SendInv, OpTypeOK
    <2>3. \A r \in Requests : opPc'[r] # "mint"
      BY <1>7 DEF SendRestart, OpInFlight
    <2>4. QED
      BY <1>1, <1>2, <2>1, <2>2, <2>3 DEF FundInv
  <1>8. CASE UNCHANGED sendVars
    BY <1>3, <1>8 DEF sendVars, mintVars, localVars, chainVars
  <1>9. QED
    BY <1>4, <1>5, <1>6, <1>7, <1>8 DEF SendNext

\* FundInv: an operation with a factory is past its mint only with the mint on chain.
THEOREM FundInvariant == SendSpec => []FundInv
<1>1. SendInit => FundInv
  <2> SUFFICES ASSUME SendInit PROVE FundInv
    OBVIOUS
  <2>1. \A r \in Requests :
           /\ opPc[r] = "idle"
           /\ op[r] = NewUserOp(ZeroAddress, 0, ZeroAddress, <<>>, "0x")
    BY DEF SendInit, OpInit
  <2>2. \A r \in Requests : /\ {"factory", "factoryData"} \subseteq DOMAIN op[r]
                            /\ op[r].factory = ZeroAddress
                            /\ op[r].factoryData = <<>>
    BY <2>1 DEF NewUserOp
  <2>3. <<>> \in Seq(Salts) /\ ZeroAddress # AccountFactory
    BY AddressAssumption
  <2>4. CreationFunded
    BY DEF SendInit, ChainInit, CreationFunded
  <2>5. QED
    BY <2>1, <2>2, <2>3, <2>4 DEF FundInv
<1>2. SendSpec => []MintTypeOK
  BY SendImplementsMint, MintTypeCorrect, PTL
<1>3. SendSpec => []TargetInv
  BY SendImplementsMint, TargetInvariant, PTL
<1>4. QED
  BY <1>1, <1>2, <1>3, FundInvStep, SendInvariant, PTL DEF SendSpec

\* CreationFunded: whatever fails or overlaps, an operation that creates an account
\* is submitted only after a mint for that account is on chain.
THEOREM CreationIsFunded == SendSpec => []CreationFunded
<1>1. FundInv => CreationFunded
  BY DEF FundInv
<1>2. QED
  BY <1>1, FundInvariant, PTL

------------------------------------------------------------------------------
(***************************************************************************)
(* The signatures.  Up to GetPaymasterSignature nothing has been signed,   *)
(* from then on only signatures are filled in, and the bundler assembles   *)
(* what Pack packed.                                                       *)
(***************************************************************************)
BeforeSigning == {"idle", "codeAt", "mint", "getNonce", "estimate",
                  "priorityFee", "gasPrice", "paymasterHash"}

Signable(o) ==
    /\ OpFields \subseteq DOMAIN o
    /\ o.verificationGasLimit \in Int /\ o.callGasLimit \in Int
    /\ o.maxPriorityFeePerGas \in Int /\ o.maxFeePerGas \in Int

RequestSigned(r) ==
    /\ Signable(op[r])
    /\ opPc[r] \in BeforeSigning => op[r].paymasterData = <<>>
    /\ opPc[r] \in {"userOpHash", "send"} => PaymasterSigned(op[r])
    /\ opPc[r] = "send" => OwnerSigned(op[r])

SignInv ==
    /\ \A r \in Requests : RequestSigned(r)
    /\ SubmittedVerifies

LEMMA MarkedUpIsInt == \A gas \in Int : markUpGas(gas) \subseteq Int
  BY WidthAssumption DEF markUpGas

\* An operation starts with all its members, and with no paymaster's data.
LEMMA NewIsSignable ==
    ASSUME NEW sender, NEW callData,
           NEW new, new = NewUserOp(sender, 0, ZeroAddress, <<>>, callData)
    PROVE  Signable(new) /\ new.paymasterData = <<>>
  BY DEF NewUserOp, Signable, OpFields

\* The steps that set the operation.
LEMMA OpStepSetsOp ==
    ASSUME NEW r \in Requests, OpStep(r)
    PROVE  \/ UNCHANGED op
           \/ CodeAtUndeployed(r) \/ GetNonce(r)
           \/ EstimateUserOpGas(r) \/ GetMaxPriorityFeePerGas(r)
           \/ SuggestGasPrice(r) \/ SignPaymaster(r) \/ SignUserOp(r)
  BY DEF OpStep, CodeAtDeployed, CodeAtPanic, MintReturned, OpRpcError, SendOp,
     SendOpLost, opVars

\* A step of the pipeline keeps an operation signable ...
LEMMA OpStepSignable ==
    ASSUME OpTypeOK, NEW r \in Requests, OpStep(r), Signable(op[r])
    PROVE  Signable(op'[r])
  <1> USE DEF OpTypeOK, SetOp
  <1>1. OpFields \subseteq DOMAIN op'[r]
    BY OpStepFrame DEF Signable
  <1>2. CASE EstimateUserOpGas(r)
    <2> DEFINE Marked(pre, call, verification) ==
          [op[r] EXCEPT !.preVerificationGas = pre, !.callGasLimit = call,
                        !.verificationGasLimit = verification]
    <2>1. PICK e \in Estimates :
             \E pre \in markUpGas(e.preVerificationGas),
                call \in markUpGas(e.callGasLimit),
                verification \in markUpGas(e.verificationGasLimit) :
                   op' = [op EXCEPT ![r] = Marked(pre, call, verification)]
      BY <1>2 DEF EstimateUserOpGas
    <2> HIDE DEF Marked
    <2>2. PICK pre \in markUpGas(e.preVerificationGas),
               call \in markUpGas(e.callGasLimit),
               verification \in markUpGas(e.verificationGasLimit) :
             op' = [op EXCEPT ![r] = Marked(pre, call, verification)]
      BY <2>1
    <2>3. call \in Int /\ verification \in Int
      BY AnswerAssumption, MarkedUpIsInt
    <2>4. QED
      BY <1>1, <2>2, <2>3 DEF Marked, Signable, OpFields
  <1>3. CASE GetMaxPriorityFeePerGas(r)
    <2>1. PICK fee \in Int :
             op'[r] = [op[r] EXCEPT !.maxPriorityFeePerGas = fee]
      BY <1>3, AnswerAssumption DEF GetMaxPriorityFeePerGas
    <2>2. QED
      BY <1>1, <2>1 DEF Signable, OpFields
  <1>4. CASE SuggestGasPrice(r)
    <2>1. PICK baseFee \in Fees :
             SetOp(r, [op[r] EXCEPT
                         !.maxFeePerGas = baseFee + op[r].maxPriorityFeePerGas])
      BY <1>4 DEF SuggestGasPrice
    <2>2. baseFee + op[r].maxPriorityFeePerGas \in Int
      BY AnswerAssumption DEF Signable
    <2>3. QED
      BY <1>1, <2>1, <2>2 DEF Signable, OpFields
  <1>5. CASE CodeAtUndeployed(r)
    BY <1>1, <1>5 DEF CodeAtUndeployed, Signable, OpFields
  <1>6. CASE GetNonce(r)
    BY <1>1, <1>6 DEF GetNonce, Signable, OpFields
  <1>7. CASE SignPaymaster(r)
    BY <1>1, <1>7 DEF SignPaymaster, EncodePaymasterData, Signable, OpFields
  <1>8. CASE SignUserOp(r)
    BY <1>1, <1>8 DEF SignUserOp, Signable, OpFields
  <1>9. CASE UNCHANGED op
    BY <1>9
  <1>10. QED
    BY <1>2, <1>3, <1>4, <1>5, <1>6, <1>7, <1>8, <1>9, OpStepSetsOp

\* ... and fills in the paymaster's data only in GetPaymasterSignature.
LEMMA OpStepUnsigned ==
    ASSUME OpTypeOK, NEW r \in Requests, OpStep(r), Signable(op[r]),
           ~SignPaymaster(r), ~SignUserOp(r)
    PROVE  /\ op'[r].paymasterData = op[r].paymasterData
           /\ opPc'[r] \in BeforeSigning => opPc[r] \in BeforeSigning
           /\ opPc'[r] \in {"userOpHash", "send"} => UNCHANGED opVars
  <1> USE DEF OpTypeOK, SetOp
  <1>1. op'[r].paymasterData = op[r].paymasterData
    <2>1. CASE CodeAtUndeployed(r) \/ GetNonce(r)
      BY <2>1 DEF CodeAtUndeployed, GetNonce, Signable, OpFields
    <2>2. CASE EstimateUserOpGas(r)
      BY <2>2 DEF EstimateUserOpGas, Signable, OpFields
    <2>3. CASE GetMaxPriorityFeePerGas(r) \/ SuggestGasPrice(r)
      BY <2>3 DEF GetMaxPriorityFeePerGas, SuggestGasPrice, Signable, OpFields
    <2>4. CASE UNCHANGED op
      BY <2>4
    <2>5. QED
      BY <2>1, <2>2, <2>3, <2>4, OpStepSetsOp
  <1>2. /\ opPc'[r] \in BeforeSigning => opPc[r] \in BeforeSigning
        /\ opPc'[r] \in {"userOpHash", "send"} => UNCHANGED opVars
    BY DEF OpTypeOK, OpGoto, OpStep, CodeAtDeployed, CodeAtUndeployed,
       CodeAtPanic, MintReturned, GetNonce, EstimateUserOpGas,
       GetMaxPriorityFeePerGas, SuggestGasPrice, OpRpcError, SendOp, SendOpLost,
       opVars, BeforeSigning, OpInFlight
  <1>3. QED
    BY <1>1, <1>2

\* SignPaymaster and SignUserOp do what they are named for.
LEMMA SignPaymasterSigns ==
    ASSUME OpTypeOK, SignInv, NEW r \in Requests, SignPaymaster(r)
    PROVE  PaymasterSigned(op'[r]) /\ opPc'[r] = "userOpHash"
  <1>1. ~IsZeroAddress(Pointer(op[r].paymaster))
    BY DEF IsZeroAddress, Pointer
  <1>2. PICK now \in Times :
           op'[r] = EncodePaymasterData(op[r], now + Hour, now,
                      personalSign(PaymasterHash(Pack(op[r]), now + Hour, now),
                                   "paymasterSigner"))
    BY <1>1 DEF SignPaymaster, SetOp, OpTypeOK
  <1>3. OpFields \subseteq DOMAIN op[r] /\ op[r].paymasterData = <<>>
    BY DEF SignPaymaster, OpGoto, SignInv, RequestSigned, Signable, BeforeSigning
  <1>4. PaymasterSigned(op'[r])
    BY <1>2, <1>3, EncodedIsSigned
  <1>5. QED
    BY <1>4 DEF SignPaymaster, OpGoto, OpTypeOK

LEMMA SignUserOpSigns ==
    ASSUME OpTypeOK, SignInv, NEW r \in Requests, SignUserOp(r)
    PROVE  /\ PaymasterSigned(op'[r]) /\ OwnerSigned(op'[r])
           /\ opPc'[r] = "send"
  <1>1. op'[r] = [op[r] EXCEPT !.signature =
                    personalSign(UserOpHash(Pack(op[r])), "owner")]
    BY DEF SignUserOp, SetOp, OpTypeOK
  <1>2. OpFields \subseteq DOMAIN op[r] /\ PaymasterSigned(op[r])
    BY DEF SignUserOp, OpGoto, SignInv, RequestSigned, Signable
  <1>3. PaymasterSigned(op'[r]) /\ OwnerSigned(op'[r])
    BY <1>1, <1>2, SigningSigns
  <1>4. QED
    BY <1>3 DEF SignUserOp, OpGoto, OpTypeOK

\* Only a signed operation gets to the bundler.
LEMMA SubmissionVerifies ==
    ASSUME OpTypeOK, SignInv, NEW r \in Requests, OpStep(r)
    PROVE  SubmittedVerifies'
  <1>1. CASE UNCHANGED chainVars
    BY <1>1 DEF chainVars, SignInv, SubmittedVerifies
  <1>2. CASE SendOp(r) \/ SendOpLost(r)
    <2>1. opPc[r] = "send" /\ InRange(op[r]) /\ AcceptOp(SendRequest(op[r]))
      BY <1>2 DEF SendOp, SendOpLost, OpGoto
    <2>2. /\ OwnerSignatureValid(SendRequest(op[r]))
          /\ PaymasterSignatureValid(SendRequest(op[r]))
      BY <2>1, RequestVerifies DEF SignInv, RequestSigned, Signable
    <2>3. QED
      BY <2>1, <2>2 DEF AcceptOp, SignInv, SubmittedVerifies
  <1>3. QED
    BY <1>1, <1>2 DEF OpStep, CodeAtDeployed, CodeAtUndeployed, CodeAtPanic,
       MintReturned, GetNonce, EstimateUserOpGas, GetMaxPriorityFeePerGas,
       SuggestGasPrice, SignPaymaster, SignUserOp, OpRpcError, OpOnly

LEMMA SignInvStep ==
    ASSUME SendInv, SignInv, [SendNext]_sendVars
    PROVE  SignInv'
  <1> USE DEF SendInv
  <1>1. ASSUME UNCHANGED submitted
        PROVE  SubmittedVerifies'
    BY <1>1 DEF SignInv, SubmittedVerifies
  <1>2. ASSUME UNCHANGED <<opVars, submitted>>
        PROVE  SignInv'
    BY <1>1, <1>2 DEF SignInv, RequestSigned, opVars
  <1>3. ASSUME NEW r \in Requests, CallOp(r), UNCHANGED <<mintVars, chainVars>>
        PROVE  SignInv'
    <2>1. PICK sender, callData :
             op'[r] = NewUserOp(sender, 0, ZeroAddress, <<>>, callData)
      BY <1>3 DEF CallOp, CallSend, SetOp, OpTypeOK
    <2>2. Signable(op'[r]) /\ op'[r].paymasterData = <<>>
      BY <2>1, NewIsSignable
    <2>3. /\ opPc'[r] = "codeAt"
          /\ \A q \in Requests \ {r} : op'[q] = op[q] /\ opPc'[q] = opPc[q]
      BY <1>3, CallOpFrame
    <2>4. \A q \in Requests : RequestSigned(q)'
      BY <2>2, <2>3 DEF SignInv, RequestSigned
    <2>5. QED
      BY <1>1, <1>3, <2>4 DEF SignInv, chainVars
  <1>4. ASSUME NEW r \in Requests, OpStep(r)
        PROVE  SignInv'
    <2>1. SubmittedVerifies'
      BY <1>4, SubmissionVerifies
    <2>2. \A q \in Requests \ {r} : RequestSigned(q)'
      BY <1>4, OpStepFrame DEF SignInv, RequestSigned
    <2>3. Signable(op'[r])
      BY <1>4, OpStepSignable DEF SignInv, RequestSigned
    <2>4. RequestSigned(r)'
      <3>1. CASE SignPaymaster(r)
        BY <2>3, <3>1, SignPaymasterSigns DEF RequestSigned, BeforeSigning
      <3>2. CASE SignUserOp(r)
        BY <2>3, <3>2, SignUserOpSigns DEF RequestSigned, BeforeSigning
      <3>3. CASE ~SignPaymaster(r) /\ ~SignUserOp(r)
        BY <1>4, <2>3, <3>3, OpStepUnsigned DEF SignInv, RequestSigned, opVars
      <3>4. QED
        BY <3>1, <3>2, <3>3
    <2>5. QED
      BY <2>1, <2>2, <2>4 DEF SignInv
  <1>5. CASE ChainStep
    BY <1>2, <1>5 DEF ChainStep, chainVars, IncludeOp, EvictOp
  <1>6. CASE SendRestart
    <2>1. UNCHANGED <<op, submitted>>
      BY <1>6 DEF SendRestart, chainVars
    <2>2. \A r \in Requests : opPc'[r] \in {opPc[r], "dead"}
      BY <1>6 DEF SendRestart, OpTypeOK
    <2>3. \A r \in Requests : RequestSigned(r)'
      BY <2>1, <2>2 DEF SignInv, RequestSigned, BeforeSigning
    <2>4. QED
      BY <1>1, <2>1, <2>3 DEF SignInv
  <1>7. CASE UNCHANGED sendVars
    BY <1>2, <1>7 DEF sendVars, chainVars
  <1>8. QED
    BY <1>3, <1>4, <1>5, <1>6, <1>7 DEF SendNext

\* SubmittedVerifies: for any width of words, any answer and any clock, the
\* signatures of a submitted operation are over what the bundler assembles from
\* the request, although Pack truncates to 32 bytes and fields are set in between.
THEOREM SubmittedOpsVerify == SendSpec => []SubmittedVerifies
<1>1. SendInit => SignInv
  <2> SUFFICES ASSUME SendInit PROVE SignInv
    OBVIOUS
  <2>1. \A r \in Requests :
           /\ opPc[r] = "idle"
           /\ op[r] = NewUserOp(ZeroAddress, 0, ZeroAddress, <<>>, "0x")
    BY DEF SendInit, OpInit
  <2>2. \A r \in Requests : Signable(op[r]) /\ op[r].paymasterData = <<>>
    BY <2>1, NewIsSignable
  <2>3. SubmittedVerifies
    BY DEF SendInit, ChainInit, SubmittedVerifies
  <2>4. QED
    BY <2>1, <2>2, <2>3 DEF SignInv, RequestSigned
<1>2. SignInv => SubmittedVerifies
  BY DEF SignInv
<1>3. QED
  BY <1>1, <1>2, SignInvStep, SendInvariant, PTL DEF SendSpec

------------------------------------------------------------------------------
(***************************************************************************)
(* The receipts.  An operation is included with its account's nonce, which *)
(* moves on; so the receipts of an account carry the nonces before its own *)
(* one, each of them once, and what is pooled is none of these.  The first *)
(* one brought the account's code.                                         *)
(***************************************************************************)
ReceiptInv ==
    /\ \A x \in receipts : x.op.nonce < entryNonce[x.op.sender]
    /\ \A x, y \in receipts :
          x.op.sender = y.op.sender /\ x.op.nonce = y.op.nonce => x.op = y.op
    /\ \A a \in Addresses, n \in Nat :
          n < entryNonce[a] =>
            \E x \in receipts : x.op.sender = a /\ x.op.nonce = n
    /\ \A a \in Addresses : a \in code <=> entryNonce[a] > 0

\* Code, nonces and receipts change in an inclusion only.
LEMMA OnlyInclusionLeavesReceipts ==
    ASSUME SendInv, [SendNext]_sendVars
    PROVE  UNCHANGED <<code, entryNonce, receipts>> \/ IncludeOp
  <1>1. CASE UNCHANGED chainVars
    BY <1>1 DEF chainVars
  <1>2. ASSUME NEW r \in Requests, OpStep(r)
        PROVE  UNCHANGED <<code, entryNonce, receipts>>
    BY <1>2, OpStepChain DEF SendInv, chainVars, AcceptOp
  <1>3. CASE ChainStep
    BY <1>1, <1>3, ChainStepFrame DEF EvictOp
  <1>4. QED
    BY <1>1, <1>2, <1>3 DEF SendNext, SendRestart, sendVars

\* An inclusion adds the receipt of its account's nonce.
LEMMA InclusionReceipts ==
    ASSUME SendInv, ReceiptInv, IncludeOp
    PROVE  ReceiptInv' /\ receipts \subseteq receipts'
  <1> USE DEF SendInv, ChainTypeOK
  <1>1. PICK p \in mempool, success \in BOOLEAN :
           /\ p.nonce = entryNonce[p.sender]
           /\ code' = code \cup {p.sender}
           /\ entryNonce' = [entryNonce EXCEPT ![p.sender] = @ + 1]
           /\ receipts' = receipts \cup {[op |-> p, success |-> success]}
    BY DEF IncludeOp
  <1> DEFINE z == [op |-> p, success |-> success]
  <1>2. p.sender \in Addresses /\ p.nonce \in Nat /\ z.op = p
    OBVIOUS
  <1>3. receipts' = receipts \cup {z}
    BY <1>1
  <1> HIDE DEF z
  <1>4. \A x \in receipts : /\ x.op.sender \in Addresses /\ x.op.nonce \in Nat
                            /\ entryNonce[x.op.sender] \in Nat
    OBVIOUS
  <1>5. \A a \in Addresses :
           /\ entryNonce[a] \in Nat
           /\ entryNonce'[a] = IF a = p.sender THEN entryNonce[a] + 1
                                               ELSE entryNonce[a]
    BY <1>1
  <1>6. \A x \in receipts : x.op.nonce < entryNonce'[x.op.sender]
    BY <1>4, <1>5 DEF ReceiptInv
  <1>7. \A x \in receipts : x.op.sender = p.sender => x.op.nonce # p.nonce
    BY <1>1, <1>4 DEF ReceiptInv
  <1>8. z.op.nonce < entryNonce'[z.op.sender]
    BY <1>1, <1>2, <1>5
  <1>9. \A x \in receipts' : x.op.nonce < entryNonce'[x.op.sender]
    BY <1>3, <1>6, <1>8
  <1>10. \A x, y \in receipts' :
            x.op.sender = y.op.sender /\ x.op.nonce = y.op.nonce => x.op = y.op
    BY <1>2, <1>3, <1>7 DEF ReceiptInv
  <1>11. ASSUME NEW a \in Addresses, NEW n \in Nat, n < entryNonce'[a]
         PROVE  \E x \in receipts' : x.op.sender = a /\ x.op.nonce = n
    <2>1. CASE n < entryNonce[a]
      BY <1>3, <2>1 DEF ReceiptInv
    <2>2. CASE ~(n < entryNonce[a])
      <3>1. a = p.sender /\ n = p.nonce
        BY <1>1, <1>5, <1>11, <2>2
      <3> QED BY <1>2, <1>3, <3>1
    <2> QED BY <2>1, <2>2
  <1>12. \A a \in Addresses : a \in code' <=> entryNonce'[a] > 0
    BY <1>1, <1>5 DEF ReceiptInv
  <1>13. QED
    BY <1>3, <1>9, <1>10, <1>11, <1>12 DEF ReceiptInv

LEMMA ReceiptInvStep ==
    ASSUME SendInv, ReceiptInv, [SendNext]_sendVars
    PROVE  ReceiptInv' /\ receipts \subseteq receipts'
  <1>1. CASE UNCHANGED <<code, entryNonce, receipts>>
    BY <1>1 DEF ReceiptInv
  <1>2. QED
    BY <1>1, OnlyInclusionLeavesReceipts, InclusionReceipts

\* ReceiptInv: an account's receipts carry its nonces from 0 to the last, each once.
THEOREM ReceiptInvariant == SendSpec => []ReceiptInv
<1>1. SendInit => ReceiptInv
  BY DEF SendInit, ChainInit, ReceiptInv
<1>2. QED
  BY <1>1, ReceiptInvStep, SendInvariant, PTL DEF SendSpec

------------------------------------------------------------------------------
(***************************************************************************)
(* The creation.  An operation that is not to create its account was put   *)
(* together when the account had code, hence had executed an operation, so *)
(* that the nonce it reads afterwards is not the first.  (A contract that  *)
(* is no account has code, too, but its operation is not accepted.)        *)
(***************************************************************************)
Creating(r) ==
    /\ op[r].factory = AccountFactory
    /\ op[r].factoryData = <<walletSalt[r]>>
    /\ GetSenderAddres(walletSalt[r]) = op[r].sender

CreationInv ==
    \A r \in Requests :
        /\ opPc[r] \in {"mint", "getNonce"} \cup NonceInHand =>
              Creating(r) \/ HasCode(op[r].sender)
        /\ opPc[r] \in NonceInHand =>
              Creating(r) \/ op[r].nonce > 0 \/ op[r].sender \in ConfiguredContracts
        /\ op[r].factory = AccountFactory => Creating(r) /\ walletSalt[r] # NoSalt

\* Code stays where it is.
LEMMA CodeGrows ==
    ASSUME SendInv, [SendNext]_sendVars
    PROVE  code \subseteq code'
  BY OnlyInclusionLeavesReceipts DEF IncludeOp

LEMMA CreationInvStep ==
    ASSUME SendInv, FundInv, ReceiptInv, CreationInv, [SendNext]_sendVars
    PROVE  CreationInv'
  <1>0. code \subseteq code'
    BY CodeGrows
  <1>1. ASSUME UNCHANGED <<op, walletSalt>>,
               \A r \in Requests : opPc'[r] = opPc[r] \/ opPc'[r] = "dead"
        PROVE  CreationInv'
    BY <1>0, <1>1 DEF CreationInv, Creating, GetSenderAddres, NonceInHand, HasCode,
       ConfiguredContracts
  <1>2. ASSUME NEW r \in Requests, CallOp(r), UNCHANGED <<mintVars, chainVars>>
        PROVE  CreationInv'
    <2>1. op'[r].factory = ZeroAddress /\ ZeroAddress # AccountFactory
      BY <1>2, AddressAssumption
         DEF CallOp, CallSend, SetOp, NewUserOp, SendInv, OpTypeOK
    <2> QED
      BY <1>0, <1>2, <2>1, CallOpFrame DEF CreationInv, Creating, GetSenderAddres,
         NonceInHand, HasCode, ConfiguredContracts
  <1>3. ASSUME NEW r \in Requests, OpStep(r)
        PROVE  CreationInv'
    <2>1. /\ UNCHANGED walletSalt
          /\ \A q \in Requests \ {r} : opPc'[q] = opPc[q] /\ op'[q] = op[q]
          /\ op'[r].sender = op[r].sender
          /\ GetNonce(r) \/ op'[r].nonce = op[r].nonce
      BY <1>3, OpStepFrame DEF SendInv
    <2>0. ASSUME CodeAtUndeployed(r)
          PROVE  Creating(r)' /\ walletSalt[r] # NoSalt
      <3>1. /\ op'[r] = [op[r] EXCEPT !.factory = AccountFactory,
                                      !.factoryData = <<walletSalt[r]>>]
            /\ walletSalt[r] # NoSalt /\ opPc[r] = "codeAt"
        BY <2>0 DEF CodeAtUndeployed, SetOp, OpGoto, SendInv, OpTypeOK
      <3>2. GetSenderAddres(walletSalt[r]) = op[r].sender
        BY <3>1 DEF SendInv, SenderDerived
      <3>3. /\ op'[r].factory = AccountFactory
            /\ op'[r].factoryData = <<walletSalt[r]>>
        BY <3>1 DEF FundInv
      <3> QED BY <2>1, <3>1, <3>2, <3>3 DEF Creating, GetSenderAddres
    <2>2. ASSUME opPc'[r] \in {"mint", "getNonce"} \cup NonceInHand
          PROVE  Creating(r)' \/ HasCode(op[r].sender)'
      <3>1. CASE CodeAtUndeployed(r)
        BY <2>0, <3>1
      <3>2. CASE ~CodeAtUndeployed(r)
        <4>1. /\ op'[r].factory = op[r].factory
              /\ op'[r].factoryData = op[r].factoryData
          BY <1>3, <3>2, OpStepFactory DEF SendInv, FundInv
        <4>2. \/ opPc[r] \in {"mint", "getNonce"} \cup NonceInHand
              \/ HasCode(op[r].sender)
          BY <1>3, <2>2, <3>2 DEF OpStep, CodeAtDeployed, CodeAtPanic, MintReturned,
             GetNonce, EstimateUserOpGas, GetMaxPriorityFeePerGas, SuggestGasPrice,
             SignPaymaster, SignUserOp, OpRpcError, SendOp, SendOpLost, OpGoto,
             OpInFlight, NonceInHand, opVars, SendInv, OpTypeOK
        <4>3. Creating(r) => Creating(r)'
          BY <2>1, <4>1 DEF Creating, GetSenderAddres
        <4> QED BY <1>0, <2>1, <4>2, <4>3 DEF CreationInv, HasCode
      <3> QED BY <3>1, <3>2
    <2>3. ASSUME opPc'[r] \in NonceInHand
          PROVE  \/ Creating(r)' \/ op'[r].nonce > 0
                 \/ op'[r].sender \in ConfiguredContracts
      <3>1. ~CodeAtUndeployed(r)
        BY <2>3 DEF CodeAtUndeployed, OpGoto, NonceInHand, SendInv, OpTypeOK
      <3>2. Creating(r) => Creating(r)'
        BY <1>3, <2>1, <3>1, OpStepFactory
           DEF Creating, GetSenderAddres, SendInv, FundInv
      <3>3. CASE GetNonce(r)
        <4>1. opPc[r] = "getNonce" /\ op'[r].nonce = entryNonce[op[r].sender]
          BY <3>3 DEF GetNonce, OpGoto, SetOp, SendInv, OpTypeOK
        <4>2. op[r].sender \in Addresses
          BY DEF SendInv, OpTypeOK
        <4> QED BY <2>1, <3>2, <4>1, <4>2 DEF CreationInv, ReceiptInv, HasCode
      <3>4. CASE ~GetNonce(r)
        <4>1. opPc[r] \in NonceInHand
          BY <1>3, <2>3, <3>4 DEF OpStep, CodeAtDeployed, CodeAtUndeployed,
             CodeAtPanic, MintReturned, EstimateUserOpGas, GetMaxPriorityFeePerGas,
             SuggestGasPrice, SignPaymaster, SignUserOp, OpRpcError, SendOp,
             SendOpLost, OpGoto, OpInFlight, NonceInHand, opVars, SendInv, OpTypeOK
        <4> QED BY <2>1, <3>2, <3>4, <4>1 DEF CreationInv
      <3> QED BY <3>3, <3>4
    <2>4. ASSUME NEW q \in Requests \ {r}
          PROVE  /\ opPc'[q] = opPc[q] /\ op'[q] = op[q]
                 /\ Creating(q) => Creating(q)'
      BY <2>1 DEF Creating, GetSenderAddres
    <2>5. op'[r].factory = AccountFactory => Creating(r)' /\ walletSalt[r] # NoSalt
      <3>1. CASE CodeAtUndeployed(r)
        BY <2>0, <3>1
      <3>2. CASE ~CodeAtUndeployed(r)
        BY <1>3, <2>1, <3>2, OpStepFactory
           DEF CreationInv, Creating, GetSenderAddres, SendInv, FundInv
      <3> QED BY <3>1, <3>2
    <2>6. ASSUME NEW q \in Requests
          PROVE  /\ opPc'[q] \in {"mint", "getNonce"} \cup NonceInHand =>
                      Creating(q)' \/ HasCode(op[q].sender)'
                 /\ opPc'[q] \in NonceInHand =>
                      \/ Creating(q)' \/ op'[q].nonce > 0
                      \/ op'[q].sender \in ConfiguredContracts
                 /\ op'[q].factory = AccountFactory =>
                      Creating(q)' /\ walletSalt'[q] # NoSalt
      BY <1>0, <2>1, <2>2, <2>3, <2>4, <2>5 DEF CreationInv, HasCode
    <2> QED BY <2>6 DEF CreationInv, NonceInHand, ConfiguredContracts
  <1>4. CASE ChainStep
    BY <1>1, <1>4, ChainStepFrame DEF opVars
  <1>5. CASE SendRestart
    BY <1>1, <1>5 DEF SendRestart, SendInv, OpTypeOK
  <1>6. CASE UNCHANGED sendVars
    BY <1>1, <1>6 DEF sendVars, opVars
  <1>7. QED
    BY <1>2, <1>3, <1>4, <1>5, <1>6 DEF SendNext

\* An operation made to create its account asks the bundler to.
LEMMA CreatingCreates ==
    ASSUME NEW r \in Requests, Creating(r)
    PROVE  CreatesAccount(SendRequest(op[r]))
  <1> DEFINE p == SendRequest(op[r])
  <1>1. p.initCode = <<op[r].factory>> \o op[r].factoryData /\ p.sender = op[r].sender
    BY DEF SendRequest, IsZeroAddress, Pointer
  <1>2. /\ Len(p.initCode) = 2 /\ p.initCode[1] = AccountFactory
        /\ p.initCode[2] = walletSalt[r]
    <2>1. p.initCode = <<AccountFactory>> \o <<walletSalt[r]>>
      BY <1>1 DEF Creating
    <2> HIDE DEF p
    <2> QED BY <2>1
  <1> QED BY <1>1, <1>2 DEF CreatesAccount, Creating

\* What a request submits creates its account, unless it is not the account's first.
LEMMA FirstCreates ==
    ASSUME CreationInv, NEW r \in Requests, opPc[r] = "send", op[r].nonce = 0,
           op[r].sender \notin ConfiguredContracts
    PROVE  CreatesAccount(SendRequest(op[r]))
  BY CreatingCreates DEF CreationInv, NonceInHand

\* CreationInv: who creates an account has its salt; all others found it created.
THEOREM CreationInvariant == SendSpec => []CreationInv
<1>1. SendInit => CreationInv
  BY AddressAssumption DEF SendInit, OpInit, NewUserOp, CreationInv, NonceInHand
<1>2. QED
  BY <1>1, CreationInvStep, SendInvariant, FundInvariant, ReceiptInvariant, PTL
     DEF SendSpec

------------------------------------------------------------------------------
(***************************************************************************)
(* The life of an account.  The executions of an account are its receipts  *)
(* in the order of their nonces.                                           *)
(***************************************************************************)
\* The receipt of a nonce is the execution at its place.
ExecutedInPlace ==
    \A x \in receipts : Executions(x.op.sender)[x.op.nonce + 1] = x.op

\* The nonce tells the place: Executions chooses among equal operations.
LEMMA ReceiptsInPlace == SendInv /\ ReceiptInv => ExecutedInPlace
  <1> SUFFICES ASSUME SendInv, ReceiptInv, NEW x \in receipts
               PROVE  Executions(x.op.sender)[x.op.nonce + 1] = x.op
    BY DEF ExecutedInPlace
  <1> DEFINE a == x.op.sender
             k == x.op.nonce + 1
             IsAt(y) == y.op.sender = a /\ y.op.nonce = k - 1
             chosen == CHOOSE y \in receipts : IsAt(y)
  <1>1. k \in 1..entryNonce[a] /\ k - 1 = x.op.nonce
    BY DEF SendInv, ChainTypeOK, ReceiptInv
  <1>2. Executions(a)[k] = chosen.op
    BY <1>1 DEF Executions
  <1>3. IsAt(x)
    BY <1>1
  <1>4. chosen \in receipts /\ IsAt(chosen)
    <2> HIDE DEF IsAt, k
    <2> QED BY <1>3
  <1>5. chosen.op.sender = x.op.sender /\ chosen.op.nonce = x.op.nonce
    BY <1>1, <1>4
  <1>6. chosen.op = x.op
    <2> HIDE DEF chosen
    <2> QED BY <1>4, <1>5 DEF ReceiptInv
  <1> QED BY <1>2, <1>6

\* Executions is a sequence, as long as the account's nonce is high.
LEMMA ExecutionsType ==
    ASSUME NEW a \in Addresses, entryNonce[a] \in Nat
    PROVE  /\ Executions(a) \in Seq({Executions(a)[k] : k \in 1..entryNonce[a]})
           /\ Len(Executions(a)) = entryNonce[a]
           /\ Executions(a) = <<>> <=> entryNonce[a] = 0
  <1> DEFINE E == Executions(a)
             n == entryNonce[a]
  <1>1. DOMAIN E = 1..n /\ E = [k \in 1..n |-> E[k]]
    BY DEF Executions
  <1> HIDE DEF E, n
  <1>2. n \in Nat
    BY DEF n
  <1>3. E \in Seq({E[k] : k \in 1..n}) /\ Len(E) = n
    BY <1>1, <1>2
  <1>4. E = <<>> <=> Len(E) = 0
    BY <1>3
  <1> QED BY <1>3, <1>4 DEF E, n

\* An inclusion appends the operation to the executions of its account.
LEMMA InclusionExecutes ==
    ASSUME SendInv, ReceiptInv, ExecutedInPlace, ExecutedInPlace',
           NEW p \in mempool, NEW success,
           p.nonce = entryNonce[p.sender],
           entryNonce' = [entryNonce EXCEPT ![p.sender] = @ + 1],
           receipts' = receipts \cup {[op |-> p, success |-> success]},
           NEW a \in Addresses
    PROVE  Executions(a)' = IF a = p.sender THEN Append(Executions(a), p)
                                            ELSE Executions(a)
  <1> DEFINE E == Executions(a)
             F == Executions(a)'
             n == entryNonce[a]
             m == entryNonce'[a]
  <1>1. /\ p.sender \in Addresses /\ p.nonce \in Nat
        /\ n \in Nat /\ m \in Nat
        /\ m = IF a = p.sender THEN n + 1 ELSE n
    BY DEF SendInv, ChainTypeOK
  <1>2. /\ E \in Seq({E[k] : k \in 1..n}) /\ Len(E) = n
    BY <1>1, ExecutionsType
  <1>3. DOMAIN F = 1..m /\ F = [k \in 1..m |-> F[k]]
    BY DEF Executions
  <1>4. ASSUME NEW k \in 1..n PROVE F[k] = E[k]
    <2>1. PICK x \in receipts : x.op.sender = a /\ x.op.nonce = k - 1
      BY <1>1, <1>4 DEF ReceiptInv
    <2>2. E[x.op.nonce + 1] = x.op
      BY <2>1 DEF ExecutedInPlace
    <2>3. F[x.op.nonce + 1] = x.op
      BY <2>1 DEF ExecutedInPlace
    <2> QED BY <2>1, <2>2, <2>3
  <1>5. CASE a = p.sender
    <2>1. F[n + 1] = p
      <3> DEFINE z == [op |-> p, success |-> success]
      <3>1. z \in receipts' /\ z.op = p
        OBVIOUS
      <3> HIDE DEF z
      <3> QED BY <1>5, <3>1 DEF ExecutedInPlace
    <2> DEFINE S == {E[k] : k \in 1..n} \cup {p}
               G == Append(E, p)
    <2> HIDE DEF E, F, n
    <2>2. /\ G \in Seq(S) /\ Len(G) = n + 1
          /\ \A k \in 1..n : G[k] = E[k]
          /\ G[n + 1] = p
      <3>1. E \in Seq(S) /\ p \in S
        BY <1>2
      <3> HIDE DEF S
      <3> QED BY <1>2, <3>1, AppendProperties
    <2> HIDE DEF G
    <2>3. \A k \in 1..(n + 1) : F[k] = G[k] /\ G[k] \in S
      BY <1>1, <1>4, <2>1, <2>2
    <2>4. F \in Seq(S) /\ Len(F) = n + 1
      <3> HIDE DEF m, S
      <3>1. n \in Nat /\ m = n + 1
        BY <1>1, <1>5
      <3>2. DOMAIN F = 1..(n + 1) /\ F = [k \in 1..(n + 1) |-> F[k]]
        BY <1>3, <3>1
      <3>3. \A k \in 1..(n + 1) : F[k] \in S
        BY <2>3
      <3> QED BY <3>1, <3>2, <3>3
    <2>5. F = Append(E, p)
      BY <2>2, <2>3, <2>4, SeqEqual DEF G
    <2> QED BY <1>5, <2>5 DEF E, F
  <1>6. CASE a # p.sender
    <2>1. DOMAIN E = 1..n /\ E = [k \in 1..n |-> E[k]]
      BY DEF Executions
    <2>2. F = [k \in 1..n |-> F[k]]
      BY <1>1, <1>3, <1>6
    <2> HIDE DEF E, F, n
    <2>3. F = E
      BY <1>4, <2>1, <2>2
    <2> QED BY <1>6, <2>3 DEF E, F
  <1> QED BY <1>5, <1>6

\* While no operation is included, the executions stay.
LEMMA ExecutionsStay ==
    ASSUME UNCHANGED <<entryNonce, receipts>>, NEW a
    PROVE  Executions(a)' = Executions(a)
  BY DEF Executions

\* Only a block brings grants, and it brings nothing else.
LEMMA OnlyBlocksFund ==
    ASSUME SendInv, [SendNext]_sendVars
    PROVE  \/ UNCHANGED mined
           \/ UNCHANGED chainVars /\ \E tx \in txPool : mined' = mined \cup {tx}
  <1>1. ASSUME NEW r \in Requests, OpStep(r)
        PROVE  UNCHANGED mined
    BY <1>1 DEF OpStep, CodeAtDeployed, CodeAtUndeployed, CodeAtPanic, MintReturned,
       GetNonce, EstimateUserOpGas, GetMaxPriorityFeePerGas, SuggestGasPrice,
       SignPaymaster, SignUserOp, OpRpcError, SendOp, SendOpLost, OpOnly, mintVars,
       ownerVars, CallMintToken, MintStep, DivLoad, DivStore, GetOwnerNonce,
       MintGasPrice, MintRpcError, SendMintTx, SendMintTxLost, WaitMined, AcceptTx
  <1>2. CASE ChainStep
    BY <1>2 DEF ChainStep, MintMine, MineTx, mintVars, ownerVars
  <1>3. QED
    BY <1>1, <1>2 DEF SendNext, SendRestart, MintRestart, sendVars, mintVars, ownerVars

\* A mint that is mined funds its account.
LEMMA FundRefines ==
    ASSUME MintTypeOK, UNCHANGED chainVars,
           NEW tx \in txPool, mined' = mined \cup {tx}
    PROVE  Life!Fund(tx.to) /\ tx.to \in Addresses
  <1>1. tx.to \in Addresses
    BY DEF MintTypeOK, Tx
  <1>2. {t.to : t \in mined'} = {t.to : t \in mined} \cup {tx.to}
    OBVIOUS
  <1>3. \A a : Executions(a)' = Executions(a)
    BY ExecutionsStay DEF chainVars
  <1> QED BY <1>1, <1>2, <1>3 DEF Life!Fund, chainVars

\* A submission takes the place of the operation under way, and the next nonce.
LEMMA AcceptRefines ==
    ASSUME SendInv, FundInv, MempoolInv, MempoolInv', CreationInv,
           NEW r \in Requests, opPc[r] = "send",
           AcceptOp(SendRequest(op[r])), UNCHANGED mined
    PROVE  \E a \in Addresses : Life!Submit(a)
  <1>0. PICK a : a = op[r].sender
    OBVIOUS
  <1> DEFINE p == SendRequest(op[r])
             live(b) == {q \in mempool : q.sender = b}
  <1>1. p.sender = a /\ p.nonce = op[r].nonce /\ a \in Addresses /\ entryNonce[a] \in Nat
    BY <1>0 DEF SendRequest, SendInv, OpTypeOK, ChainTypeOK
  <1>2. CreatesAccount(p) => a \in {tx.to : tx \in mined}
    <2>1. CreatesAccount(p) => Funded(a)
      BY <1>0, RequestFactory DEF FundInv
    <2> HIDE DEF p
    <2> QED BY <2>1 DEF Funded
  <1>3. op[r].nonce = 0 => CreatesAccount(p)
    <2>1. op[r].sender \notin ConfiguredContracts
      BY DEF AcceptOp, SendRequest
    <2> QED BY <2>1, FirstCreates
  <1> HIDE DEF p
  <1>4. /\ p \in mempool' /\ UNCHANGED <<code, entryNonce, receipts>>
        /\ \A q \in mempool' : q = p \/ q \in mempool
        /\ \A q \in mempool : q.sender # p.sender => q \in mempool'
    BY DEF AcceptOp, p
  <1>5. p.nonce = entryNonce[a]
    BY <1>1, <1>4 DEF MempoolInv, MempoolCurrent
  <1>6. {q \in mempool' : q.sender = a} = {p}
    BY <1>1, <1>4 DEF MempoolInv, AtMostOneLiveOp
  <1>7. \A b \in Addresses : b # a => live(b)' = live(b)
    BY <1>1, <1>4
  <1>8. [b \in Addresses |-> live(b)]' = [[b \in Addresses |-> live(b)] EXCEPT ![a] = {p}]
    BY <1>1, <1>6, <1>7
  <1>9. \A b : Executions(b)' = Executions(b)
    BY <1>4, ExecutionsStay
  <1>10. /\ Len(Executions(a)) = entryNonce[a]
         /\ Executions(a) = <<>> <=> entryNonce[a] = 0
    BY <1>1, ExecutionsType
  <1> QED
    BY <1>1, <1>2, <1>3, <1>5, <1>6, <1>8, <1>9, <1>10 DEF Life!Submit

\* An inclusion executes the operation under way.
LEMMA IncludeRefines ==
    ASSUME SendInv, MempoolInv, ReceiptInv, ExecutedInPlace, ExecutedInPlace',
           IncludeOp, UNCHANGED mined
    PROVE  \E a \in Addresses : Life!Execute(a)
  <1>1. PICK p \in mempool, success \in BOOLEAN :
           /\ p.nonce = entryNonce[p.sender]
           /\ CreatesAccount(p) <=> p.sender \notin code
           /\ entryNonce' = [entryNonce EXCEPT ![p.sender] = @ + 1]
           /\ mempool' = mempool \ {p}
           /\ receipts' = receipts \cup {[op |-> p, success |-> success]}
    BY DEF IncludeOp
  <1> DEFINE a == p.sender
             live(b) == {q \in mempool : q.sender = b}
             liveOps == [b \in Addresses |-> live(b)]
             executed == [b \in Addresses |-> Executions(b)]
  <1>2. a \in Addresses /\ entryNonce[a] \in Nat
    BY DEF SendInv, ChainTypeOK
  <1>3. live(a) = {p} /\ live(a)' = {}
    BY <1>1 DEF MempoolInv, AtMostOneLiveOp
  <1>4. \A b \in Addresses : b # a => live(b)' = live(b)
    BY <1>1
  <1>5. liveOps' = [liveOps EXCEPT ![a] = {}]
    BY <1>2, <1>3, <1>4
  <1>6. \A b \in Addresses :
           Executions(b)' = IF b = a THEN Append(Executions(b), p) ELSE Executions(b)
    BY <1>1, InclusionExecutes
  <1>7. executed' = [executed EXCEPT ![a] = Append(@, p)]
    BY <1>2, <1>6
  <1>8. CreatesAccount(p) <=> Executions(a) = <<>>
    <2>1. a \notin code <=> entryNonce[a] = 0
      BY <1>2 DEF ReceiptInv
    <2>2. Executions(a) = <<>> <=> entryNonce[a] = 0
      BY <1>2, ExecutionsType
    <2> QED BY <1>1, <2>1, <2>2
  <1> QED BY <1>2, <1>3, <1>5, <1>7, <1>8 DEF Life!Execute

\* An eviction drops the operation under way.
LEMMA EvictRefines ==
    ASSUME SendInv, MempoolInv, EvictOp, UNCHANGED mined
    PROVE  \E a \in Addresses : Life!Drop(a)
  <1>1. PICK p \in mempool : mempool' = mempool \ {p}
    BY DEF EvictOp
  <1> DEFINE a == p.sender
             live(b) == {q \in mempool : q.sender = b}
             liveOps == [b \in Addresses |-> live(b)]
  <1>2. a \in Addresses
    BY DEF SendInv, ChainTypeOK
  <1>3. live(a)' = {} /\ \A b \in Addresses : b # a => live(b)' = live(b)
    BY <1>1 DEF MempoolInv, AtMostOneLiveOp
  <1>4. liveOps' = [liveOps EXCEPT ![a] = {}]
    BY <1>2, <1>3
  <1>5. \A b : Executions(b)' = Executions(b)
    BY ExecutionsStay DEF EvictOp
  <1> QED BY <1>2, <1>4, <1>5 DEF Life!Drop

LifeInv == /\ SendInv /\ MintTypeOK /\ FundInv /\ MempoolInv
           /\ ReceiptInv /\ CreationInv /\ ExecutedInPlace

\* Every step is one of AccountLife or changes nothing it sees.
LEMMA SendStepLives ==
    ASSUME LifeInv, LifeInv', [SendNext]_sendVars
    PROVE  [Life!LifeNext]_(Life!lifeVars)
  <1> USE DEF LifeInv
  <1>1. CASE \E tx \in txPool : mined' = mined \cup {tx} /\ UNCHANGED chainVars
    BY <1>1, FundRefines DEF Life!LifeNext
  <1>2. CASE UNCHANGED mined /\ UNCHANGED chainVars
    <2>1. \A a : Executions(a)' = Executions(a)
      BY <1>2, ExecutionsStay DEF chainVars
    <2> QED BY <1>2, <2>1 DEF Life!lifeVars, chainVars
  <1>3. ASSUME UNCHANGED mined, NEW r \in Requests, OpStep(r), ~UNCHANGED chainVars
        PROVE  Life!LifeNext
    <2>1. opPc[r] = "send" /\ AcceptOp(SendRequest(op[r]))
      BY <1>3, OpStepChain DEF SendInv
    <2> QED BY <1>3, <2>1, AcceptRefines DEF Life!LifeNext
  <1>4. CASE UNCHANGED mined /\ ChainStep /\ ~UNCHANGED chainVars
    BY <1>4, ChainStepFrame, IncludeRefines, EvictRefines DEF Life!LifeNext
  <1>5. QED
    BY <1>1, <1>2, <1>3, <1>4, OnlyBlocksFund DEF SendNext, SendRestart, sendVars

\* ImplementsLife: whichever requests are made and however they overlap, an account
\* is paid for, created by its first operation, and then served one operation after
\* the other, in the order of the nonces.
THEOREM SendImplementsLife == SendSpec => ImplementsLife
<1>1. SendInit => Life!LifeInit
  <2> SUFFICES ASSUME SendInit PROVE Life!LifeInit
    OBVIOUS
  <2>1. mined = {} /\ mempool = {} /\ entryNonce = [a \in Addresses |-> 0]
    BY DEF SendInit, MintInit, OwnerInit, ChainInit
  <2>2. \A a \in Addresses : Executions(a) = <<>>
    BY <2>1, ExecutionsType
  <2> QED BY <2>1, <2>2 DEF Life!LifeInit
<1>2. SendSpec => []MintTypeOK
  BY SendImplementsMint, MintTypeCorrect, PTL
<1>3. SendSpec => []LifeInv
  BY <1>2, ReceiptsInPlace, SendInvariant, FundInvariant, MempoolInvariant,
     ReceiptInvariant, CreationInvariant, PTL DEF LifeInv
<1>4. QED
  BY <1>1, <1>3, SendStepLives, PTL DEF SendSpec, ImplementsLife, Life!LifeSpec

------------------------------------------------------------------------------
(***************************************************************************)
(* Stranded creations.  What was submitted to create an account is what a  *)
(* request with the account's salt ended with, and what was not to create  *)
(* one found it in place.  A pooled creation of an account in place is     *)
(* therefore not the one that created it: its nonce is another.            *)
(***************************************************************************)
Submits(r, p) ==
    /\ opPc[r] \in {"sent", "err"}
    /\ Creating(r)
    /\ walletSalt[r] # NoSalt
    /\ p = SendRequest(op[r])

OriginInv ==
    \A p \in submitted :
        /\ CreatesAccount(p) => \E r \in Requests : Submits(r, p)
        /\ ~CreatesAccount(p) => p.nonce > 0 /\ p.sender \in code

\* A request that has ended does not change.
LEMMA OpStepEnded ==
    ASSUME SendInv, NEW r \in Requests, OpStep(r), opPc[r] \in {"sent", "err"}
    PROVE  UNCHANGED <<op, opPc>>
  BY DEF OpStep, CodeAtDeployed, CodeAtUndeployed, CodeAtPanic, MintReturned, GetNonce,
     EstimateUserOpGas, GetMaxPriorityFeePerGas, SuggestGasPrice, SignPaymaster,
     SignUserOp, OpRpcError, SendOp, SendOpLost, OpGoto, OpInFlight, opVars

\* Only SendOp and SendOpLost submit, and the request ends with them.
LEMMA OpStepSubmits ==
    ASSUME SendInv, NEW r \in Requests, OpStep(r), ~UNCHANGED chainVars
    PROVE  /\ opPc[r] = "send" /\ opPc'[r] \in {"sent", "err"}
           /\ AcceptOp(SendRequest(op[r]))
           /\ UNCHANGED <<op, walletSalt>>
  BY DEF OpStep, CodeAtDeployed, CodeAtUndeployed, CodeAtPanic, MintReturned, GetNonce,
     EstimateUserOpGas, GetMaxPriorityFeePerGas, SuggestGasPrice, SignPaymaster,
     SignUserOp, OpRpcError, OpOnly, SendOp, SendOpLost, OpGoto, opVars, SendInv,
     OpTypeOK

LEMMA SubmitsStays ==
    ASSUME SendInv, [SendNext]_sendVars, NEW r \in Requests, NEW p, Submits(r, p)
    PROVE  Submits(r, p)'
  <1>1. SUFFICES op'[r] = op[r] /\ opPc'[r] = opPc[r] /\ walletSalt'[r] = walletSalt[r]
    BY DEF Submits, Creating, GetSenderAddres
  <1>2. opPc[r] \in {"sent", "err"}
    BY DEF Submits
  <1>3. ASSUME NEW q \in Requests, OpStep(q)
        PROVE  op'[r] = op[r] /\ opPc'[r] = opPc[r] /\ walletSalt'[r] = walletSalt[r]
    <2>1. CASE q = r
      BY <1>2, <1>3, <2>1, OpStepEnded, OpStepFrame DEF SendInv
    <2> QED BY <1>3, <2>1, OpStepFrame DEF SendInv
  <1>4. ASSUME NEW q \in Requests, CallOp(q)
        PROVE  op'[r] = op[r] /\ opPc'[r] = opPc[r] /\ walletSalt'[r] = walletSalt[r]
    <2>1. q # r
      BY <1>2, <1>4 DEF CallOp, CallSend, OpGoto
    <2> QED BY <1>4, <2>1, CallOpFrame
  <1> QED
    BY <1>2, <1>3, <1>4, ChainStepFrame DEF SendNext, SendRestart, sendVars, opVars,
       OpInFlight, SendInv, OpTypeOK

LEMMA OriginInvStep ==
    ASSUME SendInv, FundInv, ReceiptInv, CreationInv, OriginInv, [SendNext]_sendVars
    PROVE  OriginInv'
  <1>1. code \subseteq code'
    BY CodeGrows
  <1>2. \A p \in submitted :
           /\ CreatesAccount(p) => \E r \in Requests : Submits(r, p)'
           /\ ~CreatesAccount(p) => p.nonce > 0 /\ p.sender \in code'
    BY <1>1, SubmitsStays DEF OriginInv
  <1>3. CASE UNCHANGED submitted
    BY <1>2, <1>3 DEF OriginInv, CreatesAccount, GetSenderAddres
  <1>4. ASSUME NEW r \in Requests, OpStep(r), ~UNCHANGED chainVars
        PROVE  OriginInv'
    <2>1. /\ opPc[r] = "send" /\ opPc'[r] \in {"sent", "err"}
          /\ AcceptOp(SendRequest(op[r]))
          /\ UNCHANGED <<op, walletSalt>>
      BY <1>4, OpStepSubmits
    <2>0. PICK p : p = SendRequest(op[r])
      OBVIOUS
    <2>2. p.sender = op[r].sender /\ p.nonce = op[r].nonce
      BY <2>0 DEF SendRequest
    <2>3. CreatesAccount(p) => Submits(r, p)'
      BY <2>0, <2>1, RequestFactory DEF CreationInv, Submits, Creating, GetSenderAddres
    <2>4. ~CreatesAccount(p) => p.nonce > 0 /\ p.sender \in code'
      <3>1. op[r].sender \notin ConfiguredContracts
        BY <2>0, <2>1, <2>2 DEF AcceptOp
      <3>2. ~CreatesAccount(p) => op[r].nonce > 0 /\ op[r].sender \in code
        BY <2>0, <2>1, <3>1, CreatingCreates DEF CreationInv, NonceInHand, HasCode
      <3> QED BY <1>1, <2>2, <3>2
    <2>5. submitted' = submitted \cup {p}
      BY <2>0, <2>1 DEF AcceptOp
    <2>6. \A q \in submitted' :
             /\ CreatesAccount(q) => \E i \in Requests : Submits(i, q)'
             /\ ~CreatesAccount(q) => q.nonce > 0 /\ q.sender \in code'
      BY <1>2, <2>3, <2>4, <2>5
    <2> QED BY <2>6 DEF OriginInv
  <1>5. QED
    BY <1>3, <1>4, ChainStepFrame DEF SendNext, SendRestart, sendVars, chainVars,
       ChainStep, IncludeOp, EvictOp

THEOREM OriginInvariant == SendSpec => []OriginInv
<1>1. SendInit => OriginInv
  BY DEF SendInit, ChainInit, OriginInv
<1>2. QED
  BY <1>1, OriginInvStep, SendInvariant, FundInvariant, ReceiptInvariant,
     CreationInvariant, PTL DEF SendSpec

\* Two requests with the salt of one account are behind every stranded creation.
LEMMA StrandedIsSecond ==
    ASSUME SendInv, MempoolInv, ReceiptInv, OriginInv
    PROVE  StrandedByCreations
  <1> SUFFICES ASSUME NEW p \in mempool, CreatesAccount(p), p.sender \in code
               PROVE  CreatedTwice(p.sender)
    BY DEF StrandedByCreations, OriginInv, SendInv, ChainTypeOK
  <1> DEFINE a == p.sender
  <1>1. /\ p \in submitted /\ a \in Addresses /\ entryNonce[a] \in Nat
        /\ entryNonce[a] > 0 /\ p.nonce = entryNonce[a]
    BY DEF SendInv, ChainTypeOK, ReceiptInv, MempoolInv, MempoolCurrent
  <1>2. PICK x \in receipts : x.op.sender = a /\ x.op.nonce = 0
    BY <1>1 DEF ReceiptInv
  <1>3. x.op \in submitted
    BY DEF SendInv, ChainTypeOK
  <1>4. CreatesAccount(x.op)
    BY <1>2, <1>3 DEF OriginInv
  <1>5. PICK q \in Requests : Submits(q, x.op)
    BY <1>3, <1>4 DEF OriginInv
  <1>6. PICK r \in Requests : Submits(r, p)
    BY <1>1 DEF OriginInv
  <1>7. x.op # p
    BY <1>1, <1>2
  <1>8. q # r
    BY <1>5, <1>6, <1>7 DEF Submits
  <1>9. op[q].sender = a /\ op[r].sender = a
    BY <1>2, <1>5, <1>6 DEF Submits, SendRequest
  <1> QED BY <1>5, <1>6, <1>8, <1>9 DEF CreatedTwice, Submits, Creating

\* StrandedByCreations: whatever was submitted for an account, and however the
\* submissions overlap, get lost, replaced and evicted, only a second request that was
\* made with the account's salt leaves a creation in the mempool that came too late.
THEOREM StrandedTakesTwoCreations == SendSpec => []StrandedByCreations
  BY StrandedIsSecond, SendInvariant, MempoolInvariant, ReceiptInvariant,
     OriginInvariant, PTL
==============================================================================
