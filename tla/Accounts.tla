------------------------------ MODULE Accounts ------------------------------
(***************************************************************************)
(* The addresses the service handles.  An account's address is the CREATE2 *)
(* address of its salt; owner, entry point, factory and creation code are  *)
(* the same for all of them (Contracts.GetSenderAddres).                   *)
(***************************************************************************)
EXTENDS Integers

CONSTANTS
    Addresses,         \* 20-byte addresses
    ZeroAddress,       \* common.HexToAddress("0x")
    AccountFactory,    \* Contracts.AccountFactoryAddress
    PaymasterAddress,  \* Contracts.PaymasterAddress
    MaxSalt,           \* bound on the salts the service gets to use
    Create2            \* the address of each salt

Salts == 1..MaxSalt

ASSUME SaltAssumption == MaxSalt \in Nat

\* The configured contracts exist, and the hash behind CREATE2 has no collisions.
ASSUME AddressAssumption ==
    /\ {ZeroAddress, AccountFactory, PaymasterAddress} \subseteq Addresses
    /\ AccountFactory # ZeroAddress
    /\ Create2 \in [Salts -> Addresses \ {ZeroAddress}]
    /\ \A s, t \in Salts : Create2[s] = Create2[t] => s = t

GetSenderAddres(salt) == Create2[salt]
=============================================================================
