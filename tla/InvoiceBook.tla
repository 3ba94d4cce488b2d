---------------------------- MODULE InvoiceBook -----------------------------
(***************************************************************************)
(* The invoices of the facilitator (services/invoices.ts) and the timer    *)
(* that expires them (index.ts, every 60 s).  An invoice's nonce is drawn  *)
(* with it (nanoid), so the invoice itself stands for its nonce.  Of time  *)
(* only whether expires_at has passed is kept, in the field lapsed.        *)
(***************************************************************************)
EXTENDS X402Types

VARIABLE invoices    \* invoice id -> its row

Invoice == [status     : {"none", "pending", "paid", "expired"},
            amount     : Amounts \cup {0},
            lapsed     : BOOLEAN,
            payer      : Wallets \cup {None},
            proof_type : ProofTypes \cup {None}]

NoInvoiceRow == [status |-> "none", amount |-> 0, lapsed |-> FALSE,
                 payer |-> None, proof_type |-> None]

InvoicesInit == invoices = [i \in Invoices |-> NoInvoiceRow]

-----------------------------------------------------------------------------
CreateInvoice(i, amount) ==
    /\ invoices[i].status = "none"
    /\ invoices' = [invoices EXCEPT ![i].status = "pending", ![i].amount = amount]

\* The clock passes expires_at.
Lapse(i) ==
    /\ invoices[i].status # "none"
    /\ ~invoices[i].lapsed
    /\ invoices' = [invoices EXCEPT ![i].lapsed = TRUE]

\* UPDATE ... WHERE status = 'pending'; the number of rows is not looked at,
\* so on an invoice that is no longer pending the call succeeds and changes
\* nothing.
MarkInvoicePaid(i, payer, type) ==
    invoices' = IF invoices[i].status = "pending"
                THEN [invoices EXCEPT ![i].status     = "paid",
                                      ![i].payer      = payer,
                                      ![i].proof_type = type]
                ELSE invoices

\* Mutant of Overdue: expires_at > now().
NotYetDue == {i \in Invoices : invoices[i].status = "pending" /\ ~invoices[i].lapsed}

\* WHERE status = 'pending' AND expires_at < now()
Overdue == {i \in Invoices : invoices[i].status = "pending" /\ invoices[i].lapsed}

\* One UPDATE over all overdue invoices.
ExpireInvoices ==
    /\ Overdue # {}
    /\ invoices' = [i \in Invoices |-> IF i \in Overdue
                                       THEN [invoices[i] EXCEPT !.status = "expired"]
                                       ELSE invoices[i]]

InvoicesNext ==
    \/ ExpireInvoices
    \/ \E i \in Invoices :
          \/ \E amount \in Amounts : CreateInvoice(i, amount)
          \/ Lapse(i)
          \/ \E payer \in Wallets, type \in ProofTypes : MarkInvoicePaid(i, payer, type)

InvoicesSpec == InvoicesInit /\ [][InvoicesNext]_invoices

-----------------------------------------------------------------------------
(* Properties *)

\* Type invariant of the invoices table.
InvoicesTypeOK == invoices \in [Invoices -> Invoice]

\* A settled outcome is final: once paid or expired an invoice keeps its
\* status, price, payer and proof type, whichever of markInvoicePaid and
\* expireInvoices comes late; and a price never changes once asked.
OutcomeIsFinal ==
    [][\A i \in Invoices :
          /\ invoices[i].status \in {"paid", "expired"} =>
                /\ invoices'[i].status = invoices[i].status
                /\ invoices'[i].payer = invoices[i].payer
                /\ invoices'[i].proof_type = invoices[i].proof_type
          /\ invoices[i].status # "none" => invoices'[i].amount = invoices[i].amount
      ]_invoices

=============================================================================
