----------------------------- MODULE MCPayments -----------------------------
(***************************************************************************)
(* Small instances of Payments.  Each set of bodies brings out one way in  *)
(* which requests can meet: on one invoice, on one account, on one channel.*)
(***************************************************************************)
EXTENDS Payments, TLC

CONSTANTS w1, w2, i1, i2, c1, k1

MCSymmetry == Permutations(Requests)

Prepaid(inv, key) ==
    [proof_type |-> "prepaid_credit", payer |-> w1, nonce |-> inv, key |-> key,
     channel_id |-> None, sequence |-> 0]

ChannelSpend(inv, seq) ==
    [proof_type |-> "channel_spend", payer |-> w1, nonce |-> inv, key |-> k1,
     channel_id |-> c1, sequence |-> seq]

\* signed_auth has no nonce field, and no signature by a registered key.
SignedAuth(payer) ==
    [proof_type |-> "signed_auth", payer |-> payer, nonce |-> None, key |-> None,
     channel_id |-> None, sequence |-> 0]

TxHash(inv) ==
    [proof_type |-> "tx_hash", payer |-> w1, nonce |-> inv, key |-> None,
     channel_id |-> None, sequence |-> 0]

Request(inv, namespaced, p) ==
    [invoice_id |-> inv, nonce |-> inv, namespaced |-> namespaced, proof |-> p]

\* Two payers and three kinds of proof for one invoice.
MixedBodies ==
    {Request(i1, FALSE, SignedAuth(w2)), Request(i1, FALSE, TxHash(i1)),
     Request(i1, FALSE, Prepaid(i1, k1))}

\* One payer, two invoices: an authorization under a namespace, prepaid proofs
\* (one with the nonce of the other invoice; the signature is the wrong one as
\* long as no key is on file), an on-chain proof, and channel proofs that may
\* arrive in the wrong order.  Both requests may send the same body.
AllBodies ==
    {Request(i1, TRUE, SignedAuth(w1)), Request(i2, FALSE, Prepaid(i2, k1)),
     Request(i2, FALSE, Prepaid(i1, k1)), Request(i1, FALSE, TxHash(i1)),
     Request(i1, FALSE, ChannelSpend(i1, 1)), Request(i2, FALSE, ChannelSpend(i2, 2))}

=============================================================================
