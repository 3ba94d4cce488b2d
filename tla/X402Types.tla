----------------------------- MODULE X402Types ------------------------------
(***************************************************************************)
(* The domain of the x402 protocol (fth-x402-core/src/types.ts) that the   *)
(* modules of the facilitator share: who pays, how much, for what, and     *)
(* with which kind of proof.                                               *)
(*                                                                         *)
(* Amounts (decimal strings in the code, NUMERIC in the database) are      *)
(* natural numbers.  The routes reject only a missing amount; that it is   *)
(* positive is the duty of the services that call them, and an assumption  *)
(* here.                                                                   *)
(***************************************************************************)
EXTENDS Integers

CONSTANTS
    Wallets,    \* wallet addresses
    Amounts,    \* amounts of money a caller passes
    Invoices,   \* invoice ids; each is drawn with its nonce, and stands for it
    Channels,   \* payment channel ids
    Sequences,  \* sequence numbers a channel proof may carry
    Keys        \* Ed25519 public keys

\* Whatever has no value: a NULL column, an absent field of a proof.
None == "none"

ASSUME AmountsArePositive == Amounts \subseteq Nat \ {0}
ASSUME SequencesAreNat == Sequences \subseteq Nat
ASSUME NoneIsNoValue == None \notin Wallets \cup Invoices \cup Channels \cup Keys

\* PaymentProof is a union of five proof types, told apart here by how they
\* settle: prepaid_credit and signed_auth charge the payer's account,
\* channel_spend spends from a channel, tx_hash and xrpl_payment name a
\* transfer that was already made on a chain.
ChargeTypes  == {"prepaid_credit", "signed_auth"}
OnChainTypes == {"tx_hash", "xrpl_payment"}
ProofTypes   == ChargeTypes \cup OnChainTypes \cup {"channel_spend"}

=============================================================================
