--------------------------- MODULE MintTokenProofs ---------------------------
(***************************************************************************)
(* Proofs of the invariants of MintToken, for any number of requests.      *)
(***************************************************************************)
EXTENDS MintToken, FiniteSetTheorems, WellFoundedInduction, TLAPS

\* The wallet of a salt has an address.
LEMMA SenderIsAddress ==
    \A salt \in Salts : GetSenderAddres(salt) \in Addresses
  BY AddressAssumption DEF GetSenderAddres

\* The records MintToken submits are transactions, and what the node keeps of
\* them is what it held before, plus the new one.
LEMMA AcceptTxType ==
    ASSUME MintTypeOK, NEW r \in Requests, AcceptTx(MintTx(r))
    PROVE  /\ MintTx(r) \in Tx
           /\ txPool' \subseteq Tx
           /\ mined' \subseteq Tx
           /\ pendingNonce' \in Nat
           /\ ownerNonce' \in Nat
  BY DEF MintTypeOK, AcceptTx, MintTx, Tx, localVars

\* However calls of MintToken interleave, crash and fail, its state is well typed.
THEOREM MintTypeCorrect == MintSpec => []MintTypeOK
<1>1. MintInit => MintTypeOK
  BY GrantAssumption, RestartAssumption, AddressAssumption
     DEF MintInit, OwnerInit, MintTypeOK, MintPcs, MintInFlight
<1>2. MintTypeOK /\ [MintNext]_mintVars => MintTypeOK'
  <2> SUFFICES ASSUME MintTypeOK, [MintNext]_mintVars
               PROVE  MintTypeOK'
    OBVIOUS
  <2> USE DEF MintTypeOK, MintPcs, MintInFlight, localVars, ownerVars, MintGoto
  <2>1. ASSUME NEW r \in Requests, NEW salt \in Salts,
               CallMintToken(r, GetSenderAddres(salt))
        PROVE  MintTypeOK'
    BY <2>1, SenderIsAddress DEF CallMintToken
  <2>2. ASSUME NEW r \in Requests, DivLoad(r)
        PROVE  MintTypeOK'
    <3>1. initialETH \div 100 \in Nat
      OBVIOUS
    <3>2. QED BY <2>2, <3>1 DEF DivLoad
  <2>3. ASSUME NEW r \in Requests, DivStore(r)
        PROVE  MintTypeOK'
    BY <2>3 DEF DivStore
  <2>4. ASSUME NEW r \in Requests, GetOwnerNonce(r)
        PROVE  MintTypeOK'
    BY <2>4 DEF GetOwnerNonce
  <2>5. ASSUME NEW r \in Requests, MintGasPrice(r)
        PROVE  MintTypeOK'
    BY <2>5 DEF MintGasPrice
  <2>6. ASSUME NEW r \in Requests, MintRpcError(r)
        PROVE  MintTypeOK'
    BY <2>6 DEF MintRpcError
  <2>7. ASSUME NEW r \in Requests, SendMintTx(r)
        PROVE  MintTypeOK'
    BY <2>7, AcceptTxType DEF SendMintTx
  <2>8. ASSUME NEW r \in Requests, SendMintTxLost(r)
        PROVE  MintTypeOK'
    BY <2>8, AcceptTxType DEF SendMintTxLost
  <2>9. ASSUME NEW r \in Requests, WaitMined(r)
        PROVE  MintTypeOK'
    BY <2>9 DEF WaitMined
  <2>10. CASE MintMine
    BY <2>10 DEF MintMine, MineTx
  <2>11. CASE MintRestart
    BY <2>11, GrantAssumption, RestartAssumption DEF MintRestart
  <2>12. CASE UNCHANGED mintVars
    BY <2>12 DEF mintVars
  <2>13. QED
    BY <2>1, <2>2, <2>3, <2>4, <2>5, <2>6, <2>7, <2>8, <2>9, <2>10, <2>11,
       <2>12 DEF MintNext, MintStep
<1>3. QED
  BY <1>1, <1>2, PTL DEF MintSpec

------------------------------------------------------------------------------
(***************************************************************************)
(* The grant.  The shared cell holds at most InitialETH, and a hundredth   *)
(* of it from a call's own division until the call has built its           *)
(* transaction: another call in between can only divide again, by a        *)
(* quotient that is no larger, and a restart, which puts InitialETH back,  *)
(* ends every call.                                                        *)
(***************************************************************************)
Dividing(r) == mintPc[r] = "divStore"
Building(r) == mintPc[r] \in {"getNonce", "gasPrice", "send"}

GrantInv ==
    /\ MintTypeOK
    /\ initialETH <= InitialETH
    /\ \A r \in Requests : Dividing(r) => quotient[r] <= InitialETH \div 100
    /\ \A r \in Requests : Building(r) => initialETH <= InitialETH \div 100
    /\ GrantBounded

\* A hundredth, as big.Int divides, is monotonic and no larger than the whole.
LEMMA Hundredth ==
    /\ \A m, n \in Nat : m <= n => m \div 100 <= n \div 100
    /\ \A n \in Nat : n \div 100 \in Nat /\ n \div 100 <= n
  OBVIOUS

\* What SendMintTx submits is within the bound, so all accepted transactions stay so.
LEMMA AcceptTxBounded ==
    ASSUME GrantInv, NEW r \in Requests, mintPc[r] = "send", AcceptTx(MintTx(r))
    PROVE  GrantBounded'
  <1>1. MintTx(r).amount <= InitialETH \div 100
    BY DEF GrantInv, Building, MintTx
  <1>2. Accepted' \subseteq Accepted \cup {MintTx(r)}
    BY DEF AcceptTx, Accepted
  <1>3. QED
    BY <1>1, <1>2 DEF GrantInv, GrantBounded

\* GrantBounded: no accepted mint exceeds a hundredth of "1 ether", whatever the
\* interleaving of the in-place divisions of getValueInToken, and across restarts.
THEOREM GrantIsBounded == MintSpec => []GrantBounded
<1>1. MintInit => GrantInv
  <2> SUFFICES ASSUME MintInit PROVE GrantInv
    OBVIOUS
  <2>1. MintTypeOK
    BY GrantAssumption, RestartAssumption, AddressAssumption
       DEF MintInit, OwnerInit, MintTypeOK, MintPcs, MintInFlight
  <2>2. QED
    BY <2>1, GrantAssumption DEF MintInit, OwnerInit, GrantInv, Dividing,
       Building, GrantBounded, Accepted
<1>2. GrantInv /\ MintTypeOK' /\ [MintNext]_mintVars => GrantInv'
  <2> SUFFICES ASSUME GrantInv, MintTypeOK', [MintNext]_mintVars
               PROVE  GrantInv'
    OBVIOUS
  <2> USE GrantAssumption DEF GrantInv, Dividing, Building, MintTypeOK,
          MintGoto, localVars, ownerVars
  <2>0. ASSUME UNCHANGED ownerVars
        PROVE  GrantBounded'
    BY <2>0 DEF GrantBounded, Accepted
  <2>1. ASSUME NEW r \in Requests, NEW salt \in Salts,
               CallMintToken(r, GetSenderAddres(salt))
        PROVE  GrantInv'
    BY <2>1, <2>0 DEF CallMintToken
  <2>2. ASSUME NEW r \in Requests, DivLoad(r)
        PROVE  GrantInv'
    <3>1. initialETH \div 100 <= InitialETH \div 100
      BY Hundredth
    <3>2. QED BY <2>2, <2>0, <3>1 DEF DivLoad
  <2>3. ASSUME NEW r \in Requests, DivStore(r)
        PROVE  GrantInv'
    <3>1. initialETH' <= InitialETH \div 100
      BY <2>3 DEF DivStore
    <3>2. initialETH' <= InitialETH
      BY <3>1, Hundredth
    <3>3. QED BY <2>3, <2>0, <3>1, <3>2 DEF DivStore
  <2>4. ASSUME NEW r \in Requests, GetOwnerNonce(r)
        PROVE  GrantInv'
    BY <2>4, <2>0 DEF GetOwnerNonce
  <2>5. ASSUME NEW r \in Requests, MintGasPrice(r)
        PROVE  GrantInv'
    BY <2>5, <2>0 DEF MintGasPrice
  <2>6. ASSUME NEW r \in Requests, MintRpcError(r)
        PROVE  GrantInv'
    BY <2>6, <2>0 DEF MintRpcError
  <2>7. ASSUME NEW r \in Requests, SendMintTx(r)
        PROVE  GrantInv'
    BY <2>7, AcceptTxBounded DEF SendMintTx
  <2>8. ASSUME NEW r \in Requests, SendMintTxLost(r)
        PROVE  GrantInv'
    BY <2>8, AcceptTxBounded DEF SendMintTxLost
  <2>9. ASSUME NEW r \in Requests, WaitMined(r)
        PROVE  GrantInv'
    BY <2>9, <2>0 DEF WaitMined
  <2>10. CASE MintMine
    <3>1. GrantBounded'
      BY <2>10 DEF MintMine, MineTx, GrantBounded, Accepted
    <3>2. QED BY <2>10, <3>1 DEF MintMine
  <2>11. CASE MintRestart
    BY <2>11, <2>0 DEF MintRestart, MintInFlight
  <2>12. CASE UNCHANGED mintVars
    BY <2>12, <2>0 DEF mintVars
  <2>13. QED
    BY <2>1, <2>2, <2>3, <2>4, <2>5, <2>6, <2>7, <2>8, <2>9, <2>10, <2>11,
       <2>12 DEF MintNext, MintStep
<1>3. GrantInv => GrantBounded
  BY DEF GrantInv
<1>4. QED
  BY <1>1, <1>2, <1>3, MintTypeCorrect, PTL DEF MintSpec

------------------------------------------------------------------------------
(***************************************************************************)
(* The nonces.  A nonce in hand never exceeds the node's, which only grows *)
(* and only by one for the very nonce it gave out; replacing a pooled      *)
(* transaction keeps its nonce in use.  The nonce of a call that waits is  *)
(* in use already.                                                         *)
(***************************************************************************)
NonceInv ==
    /\ NoncesContiguous
    /\ \A r \in Requests :
          mintPc[r] \in {"gasPrice", "send"} => authNonce[r] <= pendingNonce
    /\ \A r \in Requests : mintPc[r] = "wait" => authNonce[r] < pendingNonce

UsedNonces == {tx.nonce : tx \in Accepted}

\* Accepting a transaction keeps the owner's nonces in order.
LEMMA AcceptTxNonces ==
    ASSUME MintTypeOK, NonceInv, NEW r \in Requests, mintPc[r] = "send",
           AcceptTx(MintTx(r))
    PROVE  /\ NoncesContiguous'
           /\ authNonce[r] < pendingNonce'
           /\ pendingNonce <= pendingNonce'
  <1> DEFINE n == authNonce[r]
  <1>1. MintTx(r).nonce = n /\ n \in 0..pendingNonce /\ pendingNonce \in Nat
    BY DEF MintTypeOK, NonceInv, MintTx
  <1>2. pendingNonce' = IF n = pendingNonce THEN pendingNonce + 1
                                            ELSE pendingNonce
    BY <1>1 DEF AcceptTx
  <1>3. UsedNonces' = UsedNonces \cup {n}
    BY <1>1 DEF AcceptTx, Accepted, UsedNonces
  <1>4. UsedNonces = 0..(pendingNonce - 1)
    BY DEF NonceInv, NoncesContiguous, UsedNonces
  <1>5. UsedNonces' = 0..(pendingNonce' - 1)
    BY <1>1, <1>2, <1>3, <1>4
  <1>6. QED
    BY <1>1, <1>2, <1>5 DEF NoncesContiguous, UsedNonces

\* NonceInv: the node has the owner's nonces without a gap, none in hand is ahead of them.
THEOREM NonceInvariant == MintSpec => []NonceInv
<1>1. MintInit => NonceInv
  BY DEF MintInit, OwnerInit, NonceInv, NoncesContiguous, Accepted
<1>2. MintTypeOK /\ NonceInv /\ [MintNext]_mintVars => NonceInv'
  <2> SUFFICES ASSUME MintTypeOK, NonceInv, [MintNext]_mintVars
               PROVE  NonceInv'
    OBVIOUS
  <2> USE DEF NonceInv, MintTypeOK, MintGoto, localVars, ownerVars
  <2>0. ASSUME UNCHANGED ownerVars
        PROVE  NoncesContiguous'
    BY <2>0 DEF NoncesContiguous, Accepted
  <2>1. ASSUME NEW r \in Requests, NEW salt \in Salts,
               CallMintToken(r, GetSenderAddres(salt))
        PROVE  NonceInv'
    BY <2>1, <2>0 DEF CallMintToken
  <2>2. ASSUME NEW r \in Requests, DivLoad(r) \/ DivStore(r)
        PROVE  NonceInv'
    BY <2>2, <2>0 DEF DivLoad, DivStore
  <2>3. ASSUME NEW r \in Requests, GetOwnerNonce(r)
        PROVE  NonceInv'
    BY <2>3, <2>0 DEF GetOwnerNonce
  <2>4. ASSUME NEW r \in Requests, MintGasPrice(r) \/ MintRpcError(r)
        PROVE  NonceInv'
    BY <2>4, <2>0 DEF MintGasPrice, MintRpcError
  <2>5. ASSUME NEW r \in Requests, SendMintTx(r) \/ SendMintTxLost(r)
        PROVE  NonceInv'
    <3>1. mintPc[r] = "send" /\ AcceptTx(MintTx(r)) /\ UNCHANGED authNonce
      BY <2>5 DEF SendMintTx, SendMintTxLost
    <3>2. /\ NoncesContiguous'
          /\ authNonce[r] < pendingNonce'
          /\ pendingNonce <= pendingNonce'
      BY <3>1, AcceptTxNonces
    <3>3. pendingNonce' \in Nat
      BY <3>1, AcceptTxType
    <3>4. QED
      BY <2>5, <3>2, <3>3 DEF SendMintTx, SendMintTxLost
  <2>6. ASSUME NEW r \in Requests, WaitMined(r)
        PROVE  NonceInv'
    BY <2>6, <2>0 DEF WaitMined
  <2>7. CASE MintMine
    <3>1. Accepted' = Accepted
      BY <2>7 DEF MintMine, MineTx, Accepted
    <3>2. QED BY <2>7, <3>1 DEF MintMine, MineTx, NoncesContiguous
  <2>8. CASE MintRestart
    BY <2>8, <2>0 DEF MintRestart, MintInFlight
  <2>9. CASE UNCHANGED mintVars
    BY <2>9, <2>0 DEF mintVars
  <2>10. QED
    BY <2>1, <2>2, <2>3, <2>4, <2>5, <2>6, <2>7, <2>8, <2>9
       DEF MintNext, MintStep
<1>3. QED
  BY <1>1, <1>2, MintTypeCorrect, PTL DEF MintSpec

\* NoncesContiguous: the nonces of the owner's accepted transactions have no gap,
\* although MintToken uses nonces it read two RPCs earlier.
THEOREM NoncesAreContiguous == MintSpec => []NoncesContiguous
<1>1. NonceInv => NoncesContiguous
  BY DEF NonceInv
<1>2. QED
  BY <1>1, NonceInvariant, PTL

\* WaiterAccountedFor: the transaction a call waits for in WaitMined is pooled or
\* mined, or its nonce has been taken by another.
THEOREM WaitersAreAccountedFor == MintSpec => []WaiterAccountedFor
<1>1. MintTypeOK /\ NonceInv => WaiterAccountedFor
  <2> SUFFICES ASSUME MintTypeOK, NonceInv,
                      NEW r \in Requests, mintPc[r] = "wait"
               PROVE  \/ \E tx \in Accepted : tx.by = r
                      \/ Superseded(r)
    BY DEF WaiterAccountedFor
  <2>1. authNonce[r] \in 0..(pendingNonce - 1)
    BY DEF MintTypeOK, NonceInv
  <2>2. \E tx \in Accepted : tx.nonce = authNonce[r]
    BY <2>1 DEF NonceInv, NoncesContiguous
  <2>3. QED
    BY <2>2 DEF Superseded
<1>2. QED
  BY <1>1, MintTypeCorrect, NonceInvariant, PTL

------------------------------------------------------------------------------
(***************************************************************************)
(* The account minted for.  A call submits at most one transaction, with   *)
(* its own argument, and returns without an error when that one is mined.  *)
(***************************************************************************)
TargetInv ==
    /\ \A tx \in Accepted : /\ tx.to = mintTo[tx.by]
                            /\ mintPc[tx.by] \in {"wait", "ok", "err", "dead"}
    /\ \A r \in Requests :
          mintPc[r] = "ok" => \E tx \in mined : tx.to = mintTo[r]

\* Accepting a transaction keeps the targets.
LEMMA AcceptTxTarget ==
    ASSUME MintTypeOK, TargetInv, NEW r \in Requests, mintPc[r] = "send",
           AcceptTx(MintTx(r)), UNCHANGED mintTo,
           NEW to \in {"wait", "err"}, mintPc' = [mintPc EXCEPT ![r] = to]
    PROVE  TargetInv'
  <1>1. MintTx(r).to = mintTo[r] /\ MintTx(r).by = r
    BY DEF MintTx
  <1>2. Accepted' \subseteq Accepted \cup {MintTx(r)} /\ UNCHANGED mined
    BY DEF AcceptTx, Accepted
  <1>3. \A tx \in Accepted : tx.by \in Requests
    BY DEF MintTypeOK, Accepted, Tx
  <1>4. mintPc'[r] = to /\ \A q \in Requests \ {r} : mintPc'[q] = mintPc[q]
    BY DEF MintTypeOK
  <1>5. \A tx \in Accepted' : /\ tx.to = mintTo'[tx.by]
                              /\ mintPc'[tx.by] \in {"wait", "ok", "err", "dead"}
    BY <1>1, <1>2, <1>3, <1>4 DEF TargetInv
  <1>6. QED
    BY <1>2, <1>4, <1>5 DEF TargetInv

\* A transaction mints to the argument of the call of MintToken that sent it.
THEOREM TargetInvariant == MintSpec => []TargetInv
<1>1. MintInit => TargetInv
  BY DEF MintInit, OwnerInit, TargetInv, Accepted
<1>2. MintTypeOK /\ TargetInv /\ [MintNext]_mintVars => TargetInv'
  <2> SUFFICES ASSUME MintTypeOK, TargetInv, [MintNext]_mintVars
               PROVE  TargetInv'
    OBVIOUS
  <2> USE DEF TargetInv, MintTypeOK, MintGoto, localVars, ownerVars
  <2>0. \A tx \in Accepted : tx.by \in Requests
    BY DEF Accepted, Tx
  <2>1. ASSUME NEW r \in Requests, NEW salt \in Salts,
               CallMintToken(r, GetSenderAddres(salt))
        PROVE  TargetInv'
    BY <2>0, <2>1 DEF CallMintToken, Accepted
  <2>2. ASSUME NEW r \in Requests,
               DivLoad(r) \/ DivStore(r) \/ GetOwnerNonce(r) \/ MintGasPrice(r)
        PROVE  TargetInv'
    BY <2>0, <2>2 DEF DivLoad, DivStore, GetOwnerNonce, MintGasPrice, Accepted
  <2>3. ASSUME NEW r \in Requests, MintRpcError(r)
        PROVE  TargetInv'
    BY <2>0, <2>3 DEF MintRpcError, Accepted
  <2>4. ASSUME NEW r \in Requests, SendMintTx(r) \/ SendMintTxLost(r)
        PROVE  TargetInv'
    BY <2>4, AcceptTxTarget DEF SendMintTx, SendMintTxLost
  <2>5. ASSUME NEW r \in Requests, WaitMined(r)
        PROVE  TargetInv'
    <3>1. PICK tx \in mined : tx.by = r
      BY <2>5 DEF WaitMined
    <3>2. tx.to = mintTo[r]
      BY <3>1 DEF Accepted
    <3>3. QED
      BY <2>0, <2>5, <3>2 DEF WaitMined, Accepted
  <2>6. CASE MintMine
    BY <2>6 DEF MintMine, MineTx, Accepted
  <2>7. CASE MintRestart
    BY <2>0, <2>7 DEF MintRestart, Accepted
  <2>8. CASE UNCHANGED mintVars
    BY <2>8 DEF mintVars, Accepted
  <2>9. QED
    BY <2>1, <2>2, <2>3, <2>4, <2>5, <2>6, <2>7, <2>8 DEF MintNext, MintStep
<1>3. QED
  BY <1>1, <1>2, MintTypeCorrect, PTL DEF MintSpec

------------------------------------------------------------------------------
(***************************************************************************)
(* How often "1 ether" has been divided.  Hundredths is recursive: that it *)
(* satisfies its equation is shown first, from the naturals being well     *)
(* founded.                                                                *)
(***************************************************************************)
\* A set of naturals with 0 and the successor of each member has them all.
LEMMA NaturalsByStep ==
    ASSUME NEW S \in SUBSET Nat, 0 \in S, \A n \in S : n + 1 \in S
    PROVE  S = Nat
<1> DEFINE R == OpToRel(<, Nat)
<1> SUFFICES ASSUME Nat \ S # {} PROVE FALSE
  OBVIOUS
<1>1. IsWellFoundedOn(R, Nat)
  BY NatLessThanWellFounded
<1>2. \A m, n \in Nat : m < n => <<m, n>> \in R
  BY DEF OpToRel
<1> HIDE DEF R
<1>3. PICK n \in Nat \ S : \A m \in Nat \ S : ~ (<<m, n>> \in R)
  <2>1. Nat \ S \subseteq Nat
    OBVIOUS
  <2>2. QED BY <1>1, <2>1, WFMin
<1>4. n # 0 /\ n - 1 \in Nat
  OBVIOUS
<1>5. n - 1 \in S
  <2>1. n - 1 < n /\ n \in Nat
    BY <1>4
  <2>2. <<n - 1, n>> \in R
    BY <1>2, <1>4, <2>1
  <2>3. QED BY <1>3, <1>4, <2>2
<1>6. (n - 1) + 1 \in S
  BY <1>5
<1>7. QED BY <1>4, <1>6

\* The first values of Hundredths.
Prefixes(n) == {g \in [0..n -> Nat] : /\ g[0] = InitialETH
                                      /\ \A k \in 1..n : g[k] = g[k - 1] \div 100}

\* There is a prefix of every length, ...
LEMMA PrefixExists == \A n \in Nat : Prefixes(n) # {}
<1> DEFINE S == {n \in Nat : Prefixes(n) # {}}
<1>1. 0 \in S
  <2>1. [k \in 0..0 |-> InitialETH] \in Prefixes(0)
    BY GrantAssumption DEF Prefixes
  <2>2. QED BY <2>1
<1>2. ASSUME NEW n \in S PROVE n + 1 \in S
  <2>1. PICK g : g \in Prefixes(n)
    OBVIOUS
  <2> DEFINE h == [k \in 0..(n + 1) |-> IF k = n + 1 THEN g[n] \div 100 ELSE g[k]]
  <2>2. \A k \in 0..n : g[k] \in Nat
    BY <2>1 DEF Prefixes
  <2>3. h \in [0..(n + 1) -> Nat]
    BY <2>2
  <2>4. h[0] = InitialETH
    BY <2>1 DEF Prefixes
  <2>5. \A k \in 1..(n + 1) : h[k] = h[k - 1] \div 100
    BY <2>1 DEF Prefixes
  <2>6. h \in Prefixes(n + 1)
    BY <2>3, <2>4, <2>5 DEF Prefixes
  <2>7. QED BY <2>6
<1> HIDE DEF S
<1>3. S = Nat
  <2>1. S \in SUBSET Nat
    BY DEF S
  <2>2. QED BY <1>1, <1>2, <2>1, NaturalsByStep
<1>4. QED BY <1>3 DEF S

\* ... any two of them agree, ...
LEMMA PrefixUnique ==
  ASSUME NEW m \in Nat, NEW n \in Nat, NEW g \in Prefixes(m), NEW h \in Prefixes(n), m <= n
  PROVE  \A k \in 0..m : g[k] = h[k]
<1> DEFINE S == {k \in Nat : k <= m => g[k] = h[k]}
<1>1. 0 \in S
  BY DEF Prefixes
<1>2. ASSUME NEW k \in S PROVE k + 1 \in S
  <2> SUFFICES ASSUME k + 1 <= m PROVE g[k + 1] = h[k + 1]
    OBVIOUS
  <2>1. k \in Nat /\ g[k] = h[k]
    OBVIOUS
  <2>2. g[k + 1] = g[(k + 1) - 1] \div 100 /\ h[k + 1] = h[(k + 1) - 1] \div 100
    BY <2>1 DEF Prefixes
  <2>3. QED BY <2>1, <2>2
<1> HIDE DEF S
<1>3. S = Nat
  <2>1. S \in SUBSET Nat
    BY DEF S
  <2>2. QED BY <1>1, <1>2, <2>1, NaturalsByStep
<1>4. QED BY <1>3 DEF S

\* ... and together they are the function that Hundredths is defined to be.
LEMMA HundredthsUnfold ==
  /\ \A n \in Nat : Hundredths[n] \in Nat
  /\ Hundredths[0] = InitialETH
  /\ \A n \in Nat : Hundredths[n + 1] = Hundredths[n] \div 100
<1> DEFINE p(n) == CHOOSE g : g \in Prefixes(n)
           F == [n \in Nat |-> p(n)[n]]
<1>1. \A n \in Nat : p(n) \in Prefixes(n)
  BY PrefixExists
<1> HIDE DEF p
<1>2. \A n \in Nat : p(n)[n] \in Nat
  BY <1>1 DEF Prefixes
<1>3. F[0] = InitialETH
  BY <1>1 DEF Prefixes
<1>4. ASSUME NEW n \in Nat PROVE F[n + 1] = F[n] \div 100
  <2>1. p(n)[n] = p(n + 1)[n]
    BY <1>1, PrefixUnique
  <2>2. p(n + 1)[n + 1] = p(n + 1)[(n + 1) - 1] \div 100
    BY <1>1 DEF Prefixes
  <2>3. QED BY <2>1, <2>2
<1> HIDE DEF F
<1>5. F = [n \in Nat |-> IF n = 0 THEN InitialETH ELSE F[n - 1] \div 100]
  <2>1. F = [n \in Nat |-> F[n]]
    BY DEF F
  <2>2. ASSUME NEW n \in Nat, n # 0 PROVE F[n] = F[n - 1] \div 100
    <3>1. n - 1 \in Nat /\ (n - 1) + 1 = n
      BY <2>2
    <3>2. QED BY <1>4, <3>1
  <2>3. QED BY <1>3, <2>1, <2>2
<1>6. Hundredths = [n \in Nat |-> IF n = 0 THEN InitialETH ELSE Hundredths[n - 1] \div 100]
  BY <1>5 DEF Hundredths
<1>7. Hundredths[0] = InitialETH
  BY <1>6
<1>8. ASSUME NEW n \in Nat PROVE Hundredths[n + 1] = Hundredths[n] \div 100
  <2>1. n + 1 \in Nat /\ n + 1 # 0 /\ (n + 1) - 1 = n
    OBVIOUS
  <2>2. QED BY <1>6, <2>1
<1> DEFINE S == {n \in Nat : Hundredths[n] \in Nat}
<1>9. 0 \in S
  BY <1>7, GrantAssumption
<1>10. ASSUME NEW n \in S PROVE n + 1 \in S
  <2>1. Hundredths[n] \div 100 \in Nat
    OBVIOUS
  <2>2. QED BY <1>8, <2>1
<1> HIDE DEF S
<1>11. S = Nat
  <2>1. S \in SUBSET Nat
    BY DEF S
  <2>2. QED BY <1>9, <1>10, <2>1, NaturalsByStep
<1>12. \A n \in Nat : Hundredths[n] \in Nat
  BY <1>11 DEF S
<1>13. QED
  BY <1>7, <1>8, <1>12

\* More divisions leave no more.
LEMMA HundredthsFall ==
  ASSUME NEW m \in Nat, NEW n \in Nat, m <= n
  PROVE  Hundredths[n] <= Hundredths[m]
<1> DEFINE S == {k \in Nat : m <= k => Hundredths[k] <= Hundredths[m]}
<1>1. 0 \in S
  BY HundredthsUnfold
<1>2. ASSUME NEW k \in S PROVE k + 1 \in S
  <2>1. CASE m <= k
    <3>1. Hundredths[k + 1] = Hundredths[k] \div 100 /\ Hundredths[k] \in Nat
      BY HundredthsUnfold
    <3>2. Hundredths[k + 1] <= Hundredths[k]
      BY <3>1
    <3>3. Hundredths[k] <= Hundredths[m] /\ Hundredths[k + 1] \in Nat /\ Hundredths[m] \in Nat
      BY <2>1, HundredthsUnfold
    <3> QED BY <3>1, <3>2, <3>3
  <2>2. CASE ~ (m <= k)
    <3>1. m <= k + 1 => m = k + 1
      BY <2>2
    <3>2. Hundredths[m] <= Hundredths[m]
      BY HundredthsUnfold
    <3> QED BY <3>1, <3>2
  <2> QED BY <2>1, <2>2
<1> HIDE DEF S
<1>3. S = Nat
  <2>1. S \in SUBSET Nat
    BY DEF S
  <2>2. QED BY <1>1, <1>2, <2>1, NaturalsByStep
<1>4. QED BY <1>3 DEF S

(***************************************************************************)
(* The cell has been divided at most once for each call that has stored a  *)
(* quotient, and a quotient in hand once more: it was computed from a cell *)
(* that had been divided no more often.  A restart only puts more into the *)
(* cell.                                                                   *)
(***************************************************************************)
Called == {r \in Requests : mintPc[r] # "idle"}

DivInv ==
    /\ IsFiniteSet(Called)
    /\ initialETH >= Hundredths[Cardinality(Stored)]
    /\ \A r \in Requests :
          Dividing(r) => quotient[r] >= Hundredths[Cardinality(Stored) + 1]
    /\ DividedOncePerCall

\* Stored quotients are counted by naturals, and the count does not fall.
LEMMA StoredCount ==
    ASSUME IsFiniteSet(Called), IsFiniteSet(Called'), Stored \subseteq Stored'
    PROVE  /\ Cardinality(Stored) \in Nat
           /\ Cardinality(Stored') \in Nat
           /\ Cardinality(Stored) <= Cardinality(Stored')
  <1>1. Stored \subseteq Called /\ Stored' \subseteq Called'
    BY DEF Stored, Called
  <1>2. IsFiniteSet(Stored) /\ IsFiniteSet(Stored')
    BY <1>1, FS_Subset
  <1>3. QED BY <1>2, FS_CardinalityType, FS_Subset

\* A call that begins is one more call, and finitely many stay so.
LEMMA CalledIsFinite ==
    ASSUME MintTypeOK, IsFiniteSet(Called), [MintNext]_mintVars
    PROVE  IsFiniteSet(Called')
  <1> USE DEF MintTypeOK, MintGoto, localVars, ownerVars
  <1>1. ASSUME NEW r \in Requests, NEW salt \in Salts,
               CallMintToken(r, GetSenderAddres(salt))
        PROVE  IsFiniteSet(Called')
    <2>1. Called' = Called \cup {r}
      BY <1>1 DEF CallMintToken, Called
    <2>2. QED BY <2>1, FS_AddElement
  <1>2. ASSUME NEW r \in Requests, MintStep(r)
        PROVE  Called' = Called
    <2>1. PICK to \in MintPcs \ {"idle"} : /\ mintPc[r] # "idle"
                                          /\ mintPc' = [mintPc EXCEPT ![r] = to]
      BY <1>2 DEF MintStep, DivLoad, DivStore, GetOwnerNonce, MintGasPrice,
         MintRpcError, SendMintTx, SendMintTxLost, WaitMined, MintPcs, MintInFlight
    <2>2. QED BY <2>1 DEF Called
  <1>3. ASSUME MintMine \/ MintRestart \/ UNCHANGED mintVars
        PROVE  Called' = Called
    BY <1>3 DEF MintMine, MintRestart, mintVars, Called, MintInFlight
  <1>4. QED
    BY <1>1, <1>2, <1>3 DEF MintNext

\* DivInv is kept by every step.
LEMMA DivInvStep ==
    ASSUME MintTypeOK, MintTypeOK', DivInv, [MintNext]_mintVars
    PROVE  DivInv'
  <1>0. IsFiniteSet(Called')
    BY CalledIsFinite DEF DivInv
  <1> DEFINE m == Cardinality(Stored)
             n == Cardinality(Stored')
  \* What has been accepted stays above a bound that falls.
  <1>1. ASSUME Stored \subseteq Stored', Accepted' \subseteq Accepted
        PROVE  DividedOncePerCall'
    <2>1. m \in Nat /\ n \in Nat /\ m <= n
      BY <1>0, <1>1, StoredCount DEF DivInv
    <2>2. Hundredths[n] <= Hundredths[m] /\ Hundredths[n] \in Nat /\ Hundredths[m] \in Nat
      BY <2>1, HundredthsFall, HundredthsUnfold
    <2>3. \A tx \in Accepted : tx.amount \in Nat /\ tx.amount >= Hundredths[m]
      BY DEF DivInv, DividedOncePerCall, MintTypeOK, Accepted, Tx
    <2>4. \A tx \in Accepted' : tx.amount >= Hundredths[n]
      BY <1>1, <2>2, <2>3
    <2>5. QED BY <2>4 DEF DividedOncePerCall
  <1>2. ASSUME Stored' = Stored, Accepted' \subseteq Accepted, UNCHANGED initialETH,
               \A r \in Requests : Dividing(r)' =>
                   Dividing(r) /\ quotient'[r] = quotient[r]
        PROVE  DivInv'
    BY <1>0, <1>1, <1>2 DEF DivInv
  <1>3. ASSUME NEW r \in Requests, NEW salt \in Salts,
               CallMintToken(r, GetSenderAddres(salt))
        PROVE  DivInv'
    <2>1. Stored' = Stored
      BY <1>3 DEF CallMintToken, MintGoto, MintTypeOK, Stored
    <2>2. \A q \in Requests : Dividing(q)' => Dividing(q)
      BY <1>3 DEF CallMintToken, MintGoto, MintTypeOK, Dividing
    <2>3. QED
      BY <1>2, <1>3, <2>1, <2>2 DEF CallMintToken, ownerVars, Accepted
  <1>4. ASSUME NEW r \in Requests, DivLoad(r)
        PROVE  DivInv'
    <2>1. Stored' = Stored
      BY <1>4 DEF DivLoad, MintGoto, MintTypeOK, Stored
    <2>2. m \in Nat
      BY <1>0, <2>1, StoredCount DEF DivInv
    <2>3. /\ initialETH \in Nat /\ Hundredths[m] \in Nat /\ Hundredths[m] <= initialETH
          /\ Hundredths[m + 1] = Hundredths[m] \div 100
      BY <2>2, HundredthsUnfold DEF DivInv, MintTypeOK
    <2>4. Hundredths[m + 1] <= initialETH \div 100
      BY <2>3, Hundredth
    <2>5. initialETH \div 100 >= Hundredths[m + 1]
      <3>1. Hundredths[m + 1] \in Nat /\ initialETH \div 100 \in Nat
        BY <2>3, Hundredth
      <3>2. QED BY <2>4, <3>1
    <2>6. \A q \in Requests : Dividing(q)' => quotient'[q] >= Hundredths[m + 1]
      BY <1>4, <2>5 DEF DivLoad, DivInv, Dividing, MintGoto, MintTypeOK
    <2>7. QED
      BY <1>0, <1>1, <1>4, <2>1, <2>6 DEF DivLoad, DivInv, ownerVars, Accepted
  <1>5. ASSUME NEW r \in Requests, DivStore(r)
        PROVE  DivInv'
    <2>1. Stored' = Stored \cup {r} /\ r \notin Stored
      BY <1>5 DEF DivStore, MintGoto, MintTypeOK, Stored
    <2>2. IsFiniteSet(Stored)
      <3>1. Stored \subseteq Called
        BY DEF Stored, Called
      <3>2. QED BY <3>1, FS_Subset DEF DivInv
    <2>3. m \in Nat /\ n = m + 1
      BY <2>1, <2>2, FS_AddElement, FS_CardinalityType
    <2>4. /\ Hundredths[n + 1] <= Hundredths[n]
          /\ Hundredths[n] \in Nat /\ Hundredths[n + 1] \in Nat
      BY <2>3, HundredthsFall, HundredthsUnfold
    <2>5. initialETH' >= Hundredths[n]
      BY <1>5, <2>3 DEF DivStore, MintGoto, DivInv, Dividing
    <2>6. \A q \in Requests : Dividing(q)' => Dividing(q) /\ quotient'[q] = quotient[q]
      BY <1>5 DEF DivStore, MintGoto, MintTypeOK, Dividing, localVars
    <2>7. ASSUME NEW q \in Requests, Dividing(q)'
          PROVE  quotient'[q] >= Hundredths[n + 1]
      <3>1. quotient'[q] \in Nat /\ quotient'[q] >= Hundredths[n]
        BY <2>3, <2>6, <2>7 DEF DivInv, MintTypeOK
      <3>2. QED BY <2>4, <3>1
    <2>8. QED
      BY <1>0, <1>1, <1>5, <2>1, <2>5, <2>7 DEF DivStore, DivInv, ownerVars, Accepted
  <1>6. ASSUME NEW r \in Requests,
               GetOwnerNonce(r) \/ MintGasPrice(r) \/ MintRpcError(r) \/ WaitMined(r)
        PROVE  DivInv'
    <2>1. Stored' = Stored
      BY <1>6 DEF GetOwnerNonce, MintGasPrice, MintRpcError, WaitMined, MintGoto,
         MintTypeOK, Stored
    <2>2. \A q \in Requests : Dividing(q)' => Dividing(q) /\ quotient'[q] = quotient[q]
      BY <1>6 DEF GetOwnerNonce, MintGasPrice, MintRpcError, WaitMined, MintGoto,
         MintTypeOK, Dividing, localVars
    <2>3. QED
      BY <1>2, <1>6, <2>1, <2>2 DEF GetOwnerNonce, MintGasPrice, MintRpcError,
         WaitMined, ownerVars, Accepted
  <1>7. ASSUME NEW r \in Requests, SendMintTx(r) \/ SendMintTxLost(r)
        PROVE  DivInv'
    <2>1. Stored' = Stored
      BY <1>7 DEF SendMintTx, SendMintTxLost, MintGoto, MintTypeOK, Stored
    <2>2. \A q \in Requests : Dividing(q)' => Dividing(q) /\ quotient'[q] = quotient[q]
      BY <1>7 DEF SendMintTx, SendMintTxLost, MintGoto, MintTypeOK, Dividing, localVars
    <2>3. Accepted' \subseteq Accepted \cup {MintTx(r)} /\ UNCHANGED initialETH
      BY <1>7 DEF SendMintTx, SendMintTxLost, AcceptTx, Accepted
    <2>4. MintTx(r).amount >= Hundredths[m]
      BY DEF MintTx, DivInv
    <2>5. DividedOncePerCall'
      BY <2>1, <2>3, <2>4 DEF DivInv, DividedOncePerCall
    <2>6. QED
      BY <1>0, <2>1, <2>2, <2>3, <2>5 DEF DivInv
  <1>8. CASE MintMine
    <2>1. Accepted' = Accepted
      BY <1>8 DEF MintMine, MineTx, Accepted
    <2>2. QED
      BY <1>2, <1>8, <2>1 DEF MintMine, localVars, Stored, Dividing
  <1>9. CASE MintRestart
    <2>1. Stored \subseteq Stored'
      BY <1>9 DEF MintRestart, MintInFlight, MintTypeOK, Stored
    <2>2. n \in Nat
      BY <1>0, <2>1, StoredCount DEF DivInv
    <2>3. Hundredths[n] <= InitialETH /\ Hundredths[n] \in Nat
      BY <2>2, HundredthsFall, HundredthsUnfold
    <2>4. initialETH' >= Hundredths[n]
      BY <1>9, <2>3, GrantAssumption DEF MintRestart
    <2>5. \A q \in Requests : ~Dividing(q)'
      BY <1>9 DEF MintRestart, MintInFlight, MintTypeOK, Dividing
    <2>6. QED
      BY <1>0, <1>1, <1>9, <2>1, <2>4, <2>5 DEF MintRestart, DivInv, ownerVars, Accepted
  <1>10. CASE UNCHANGED mintVars
    BY <1>2, <1>10 DEF mintVars, localVars, ownerVars, Stored, Dividing, Accepted
  <1>11. QED
    BY <1>3, <1>4, <1>5, <1>6, <1>7, <1>8, <1>9, <1>10 DEF MintNext, MintStep

\* DividedOncePerCall: no mint is less than what as many divisions leave of "1 ether"
\* as calls have stored their quotient, however they read and write the shared cell.
THEOREM DividedAtMostOncePerCall == MintSpec => []DividedOncePerCall
<1>1. MintInit => DivInv
  <2> SUFFICES ASSUME MintInit PROVE DivInv
    OBVIOUS
  <2>1. Called = {} /\ Stored = {} /\ Accepted = {}
    BY DEF MintInit, OwnerInit, Called, Stored, Accepted
  <2>2. \A r \in Requests : ~Dividing(r)
    BY DEF MintInit, Dividing
  <2>3. IsFiniteSet(Called) /\ Cardinality(Stored) = 0
    BY <2>1, FS_EmptySet
  <2>4. initialETH >= Hundredths[0]
    BY GrantAssumption, HundredthsUnfold DEF MintInit
  <2>5. QED
    BY <2>1, <2>2, <2>3, <2>4 DEF DivInv, DividedOncePerCall
<1>2. MintTypeOK /\ MintTypeOK' /\ DivInv /\ [MintNext]_mintVars => DivInv'
  BY DivInvStep
<1>3. DivInv => DividedOncePerCall
  BY DEF DivInv
<1>4. QED
  BY <1>1, <1>2, <1>3, MintTypeCorrect, PTL DEF MintSpec
==============================================================================
