--------------------------- MODULE FinCoreProofs ----------------------------
(***************************************************************************)
(* Theorems about fth-financial-core, for any accounts, agents, invoices,  *)
(* calls and policy: whatever sweeps and settlements overlap, fail, lose   *)
(* the answer of a COMMIT, are dropped, or are cut off by a restart, the   *)
(* engine keeps the books of DoubleEntry, and a receipt stands for one     *)
(* payment of one payer.                                                   *)
(*                                                                         *)
(* CoreInv is inductive.  CallsAreSound says what a call works on at each  *)
(* of its steps; CallsHaveMoved that a call past its submit has its entry  *)
(* in the journal, which only grows; IssuersArePaid that the call which    *)
(* has changed the status of an invoice is the only one to issue for it.   *)
(*                                                                         *)
(* On top of it, CacheInv counts the legs that calls have still to apply   *)
(* to the cache, and RefillInv the amounts that calls have still to add to *)
(* a record of a refill.  Both add up over the calls, with Sums.           *)
(***************************************************************************)
EXTENDS FinCore, Sums, SequenceTheorems

CoreTypeOK ==
    /\ balance \in [Accounts -> Int]
    /\ journal \in Seq(Entry)
    /\ agents \in [Agents -> AgentRow]
    /\ invoices \in [Invoices -> InvoiceRow]
    /\ receipts \subseteq Receipt
    /\ call \in [Calls -> Call]

\* What a call works on, where it stands.
Sound(k) ==
    /\ k.at \in {"agent", "history"} => k.subject \in Agents
    /\ k.at \in {"settle", "mark", "issue"} => k.subject \in Invoices /\ k.payer \in Accounts
    /\ k.at = "settle" => k.payer # Payee
    /\ k.at = "posting" =>
          k.subject \in Agents \/ (k.subject \in Invoices /\ k.payer \in Accounts)
CallsAreSound == \A c \in Calls : Sound(call[c])

Moved(i, payer) ==
    \E n \in DOMAIN journal : journal[n].reference = i /\ journal[n].from = payer

\* A call past its submit has moved the money.
CallsHaveMoved ==
    \A c \in Calls :
        (call[c].at \in {"posting", "mark", "issue"} /\ call[c].subject \in Invoices)
            => Moved(call[c].subject, call[c].payer)

\* The call that has marked an invoice is the only one to issue its receipt.
IssuersArePaid ==
    \A c \in Calls : call[c].at = "issue" =>
        /\ invoices[call[c].subject].status = "paid"
        /\ \A r \in receipts : r.invoice # call[c].subject
        /\ \A d \in Calls : call[d].at = "issue" /\ call[d].subject = call[c].subject => d = c

CoreInv == CoreTypeOK /\ CallsAreSound /\ CallsHaveMoved /\ IssuersArePaid /\ ReceiptsAreSettled

-----------------------------------------------------------------------------
(* Helpers *)

\* The journal only grows, so that a move stays in it.
LEMMA EntryAppended ==
    ASSUME journal \in Seq(Entry), NEW e \in Entry, journal' = Append(journal, e)
    PROVE  /\ journal' \in Seq(Entry)
           /\ \A i, p : Moved(i, p) => Moved(i, p)'
           /\ Moved(e.reference, e.from)'
<1>1. /\ journal' \in Seq(Entry) /\ Len(journal') = Len(journal) + 1
      /\ \A n \in DOMAIN journal : n \in DOMAIN journal' /\ journal'[n] = journal[n]
      /\ Len(journal) + 1 \in DOMAIN journal' /\ journal'[Len(journal) + 1] = e
  OBVIOUS
<1>. QED  BY <1>1 DEF Moved

\* A refill is an amount of money.
LEMMA RefillAmountIsNat ==
    ASSUME NEW row \in AgentRow
    PROVE  RefillAmount(row) \in Nat
<1>. DEFINE deficit == Policy.target - row.balance
            left == Policy.max_daily - row.daily
            single == Policy.max_single
            Fits(n) == IF deficit <= 0 \/ left <= 0
                       THEN n = 0
                       ELSE n \in {deficit, single, left}
                            /\ n <= deficit /\ n <= single /\ n <= left
<1>1. deficit \in Int /\ left \in Int /\ single \in Nat
  BY CoreConstants DEF AgentRow
<1>2. RefillAmount(row) = CHOOSE n \in {0, deficit, single, left} : Fits(n)
  BY DEF RefillAmount
<1>. HIDE DEF deficit, left, single
<1>3. \E n \in {0, deficit, single, left} : Fits(n)
  BY <1>1
<1>4. Fits(RefillAmount(row)) /\ RefillAmount(row) \in {0, deficit, single, left}
  <2>. HIDE DEF Fits
  <2>. QED  BY <1>2, <1>3
<1>. QED  BY <1>1, <1>4

\* One call changes, and neither the journal nor an invoice nor a receipt.
LEMMA OneCall ==
    ASSUME CoreInv, NEW c \in Calls, UNCHANGED <<balance, journal, invoices, receipts>>,
           agents' \in [Agents -> AgentRow], call' \in [Calls -> Call],
           \A d \in Calls \ {c} : call'[d] = call[d], Sound(call'[c]),
           call'[c].at # "issue",
           (call'[c].at \in {"posting", "mark"} /\ call'[c].subject \in Invoices)
               => Moved(call'[c].subject, call'[c].payer)
    PROVE  CoreInv'
<1>1. CoreTypeOK' /\ CallsAreSound'
  BY DEF CoreInv, CoreTypeOK, CallsAreSound, Sound
<1>2. CallsHaveMoved'
  BY DEF CoreInv, CallsHaveMoved, Moved
<1>3. IssuersArePaid'
  BY DEF CoreInv, IssuersArePaid
<1>4. ReceiptsAreSettled'
  BY DEF CoreInv, ReceiptsAreSettled
<1>. QED  BY <1>1, <1>2, <1>3, <1>4 DEF CoreInv

\* The same, for a call that goes to another step with what it has.
LEMMA GotoInv ==
    ASSUME CoreInv, NEW c \in Calls, NEW at \in {"next", "agent", "history"},
           Goto(c, at), at \in {"agent", "history"} => call[c].subject \in Agents,
           UNCHANGED <<balance, journal, invoices, receipts>>, agents' \in [Agents -> AgentRow]
    PROVE  CoreInv'
<1>1. call[c] \in Call /\ call \in [Calls -> Call]
  BY DEF CoreInv, CoreTypeOK
<1>2. [call[c] EXCEPT !.at = at] \in Call
  BY <1>1 DEF Call
<1>3. /\ call' \in [Calls -> Call] /\ \A d \in Calls \ {c} : call'[d] = call[d]
      /\ call'[c] = [call[c] EXCEPT !.at = at]
  BY <1>1, <1>2 DEF Goto
<1>4. call'[c].at = at /\ call'[c].subject = call[c].subject
  BY <1>1, <1>3 DEF Call
<1>5. Sound(call'[c])
  BY <1>4 DEF Sound
<1>. QED  BY <1>3, <1>4, <1>5, OneCall

\* The call is over.
LEMMA EndInv ==
    ASSUME CoreInv, NEW c \in Calls, End(c),
           UNCHANGED <<balance, journal, invoices, receipts, agents>>
    PROVE  CoreInv'
<1>1. Idle \in Call /\ Idle.at = "idle"
  BY DEF Idle, Call, NoRow, AgentRow
<1>2. Sound(Idle)
  BY <1>1 DEF Sound
<1>3. /\ call' \in [Calls -> Call] /\ call'[c] = Idle
      /\ \A d \in Calls \ {c} : call'[d] = call[d]
  BY <1>1 DEF End, CoreInv, CoreTypeOK
<1>4. agents' \in [Agents -> AgentRow]
  BY DEF CoreInv, CoreTypeOK
<1>. QED  BY <1>1, <1>2, <1>3, <1>4, OneCall

-----------------------------------------------------------------------------
(* The steps of a call *)

\* The steps of a sweep that post nothing.
LEMMA SweepInv ==
    ASSUME CoreInv, NEW c \in Calls,
           \/ StartSweep(c) \/ (\E a \in Agents : SkipAgent(c, a))
           \/ UpdateAgent(c) \/ RecordRefill(c) \/ RefillFails(c) \/ EndSweep(c)
    PROVE  CoreInv'
<1>. /\ call \in [Calls -> Call] /\ call[c] \in Call /\ agents \in [Agents -> AgentRow]
     /\ NoRow \in AgentRow /\ Sound(call[c])
  BY DEF CoreInv, CoreTypeOK, CallsAreSound, NoRow, AgentRow
<1>1. CASE StartSweep(c)
  <2>. DEFINE todo == [a \in Agents |-> IF agents[a].active THEN agents[a] ELSE NoRow]
              new == [call[c] EXCEPT !.at = "next", !.todo = todo]
  <2>1. todo \in [Agents -> AgentRow]
    OBVIOUS
  <2>2. call' = [call EXCEPT ![c] = new]
    BY <1>1 DEF StartSweep, Call
  <2>. HIDE DEF todo
  <2>3. new \in Call /\ new.at = "next"
    BY <2>1 DEF Call
  <2>. HIDE DEF new
  <2>4. /\ call' \in [Calls -> Call] /\ call'[c].at = "next" /\ Sound(call'[c])
        /\ \A d \in Calls \ {c} : call'[d] = call[d]
    BY <2>2, <2>3 DEF Sound
  <2>. QED  BY <1>1, <2>4, OneCall DEF StartSweep, ledgerVars, coreVars
<1>2. ASSUME NEW a \in Agents, SkipAgent(c, a)
      PROVE  CoreInv'
  <2>. DEFINE todo == [call[c].todo EXCEPT ![a] = NoRow]
              new == [call[c] EXCEPT !.todo = todo]
  <2>1. todo \in [Agents -> AgentRow]
    BY DEF Call
  <2>2. call' = [call EXCEPT ![c] = new]
    BY <1>2 DEF SkipAgent, Call
  <2>. HIDE DEF todo
  <2>3. new \in Call /\ new.at = "next"
    BY <1>2, <2>1 DEF Call, SkipAgent
  <2>. HIDE DEF new
  <2>4. /\ call' \in [Calls -> Call] /\ call'[c].at = "next" /\ Sound(call'[c])
        /\ \A d \in Calls \ {c} : call'[d] = call[d]
    BY <2>2, <2>3 DEF Sound
  <2>. QED  BY <1>2, <2>4, OneCall DEF SkipAgent, ledgerVars, coreVars
<1>3. CASE UpdateAgent(c)
  <2>1. call[c].subject \in Agents /\ call[c].amount \in Nat
    BY <1>3 DEF UpdateAgent, Sound, Call
  <2>2. agents' \in [Agents -> AgentRow]
    BY <1>3, <2>1 DEF UpdateAgent, AgentRow
  <2>. QED  BY <1>3, <2>1, <2>2, GotoInv DEF UpdateAgent, ledgerVars
<1>4. CASE RecordRefill(c)
  BY <1>4, GotoInv DEF RecordRefill, ledgerVars
<1>5. CASE RefillFails(c)
  BY <1>5, GotoInv DEF RefillFails, ledgerVars, coreVars
<1>6. CASE EndSweep(c)
  BY <1>6, EndInv DEF EndSweep, ledgerVars, coreVars
<1>. QED  BY <1>1, <1>2, <1>3, <1>4, <1>5, <1>6

\* submit: the entry, the balances, and a call that waits for the cache.
LEMMA PostInv ==
    ASSUME CoreInv, NEW c \in Calls, NEW e \in Entry, Commit(c, e),
           UNCHANGED coreVars, call' \in [Calls -> Call],
           \A d \in Calls \ {c} : call'[d] = call[d],
           call'[c].at = "posting", call'[c].subject = e.reference,
           e.reference \in Agents \/ (e.reference \in Invoices /\ call'[c].payer = e.from)
    PROVE  CoreInv'
<1>. balance \in [Accounts -> Int] /\ journal \in Seq(Entry)
  BY DEF CoreInv, CoreTypeOK
<1>1. /\ journal' \in Seq(Entry)
      /\ \A i, p : Moved(i, p) => Moved(i, p)'
      /\ Moved(e.reference, e.from)'
  BY EntryAppended DEF Commit
<1>2. balance' \in [Accounts -> Int]
  BY DEF Commit, Entry
<1>3. CoreTypeOK'
  BY <1>1, <1>2 DEF CoreInv, CoreTypeOK, coreVars
<1>4. CallsAreSound'
  <2>1. e.from \in Accounts
    BY DEF Entry
  <2>2. Sound(call'[c])
    BY <2>1 DEF Sound
  <2>. QED  BY <2>2 DEF CoreInv, CallsAreSound, Sound
<1>5. CallsHaveMoved'
  <2>1. ASSUME NEW d \in Calls, call'[d].at \in {"posting", "mark", "issue"},
               call'[d].subject \in Invoices
        PROVE  Moved(call[d].subject, call[d].payer)'
    <3>1. CASE d = c
      BY <1>1, <2>1, <3>1, CoreConstants
    <3>2. CASE d # c
      <4>1. call'[d] = call[d] /\ Moved(call[d].subject, call[d].payer)
        BY <2>1, <3>2 DEF CoreInv, CallsHaveMoved
      <4>. QED  BY <1>1, <4>1
    <3>. QED  BY <3>1, <3>2
  <2>. QED  BY <2>1 DEF CallsHaveMoved, Moved
<1>6. IssuersArePaid'
  BY DEF CoreInv, IssuersArePaid, coreVars
<1>7. ReceiptsAreSettled'
  <2>1. \A r \in receipts : Moved(r.invoice, r.payer)
    BY DEF CoreInv, ReceiptsAreSettled, Moved
  <2>2. \A r \in receipts' : Moved(r.invoice, r.payer)'
    BY <1>1, <2>1 DEF coreVars
  <2>. QED  BY <2>2 DEF CoreInv, ReceiptsAreSettled, Moved, coreVars
<1>. QED  BY <1>3, <1>4, <1>5, <1>6, <1>7 DEF CoreInv

\* What a refill posts: two different accounts, and an amount.
LEMMA RefillEntry ==
    ASSUME CoreInv, NEW c \in Calls, NEW a \in Agents, RefillAgent(c, a)
    PROVE  LET amount == RefillAmount(call[c].todo[a])
               e == Transfer(Master, AccountOf[a], amount, a)
           IN  /\ amount \in Nat /\ e \in Entry /\ e.from # e.to /\ e.reference = a
               /\ Commit(c, e)
<1>1. call[c].todo[a] \in AgentRow
  BY DEF CoreInv, CoreTypeOK, Call
<1>2. RefillAmount(call[c].todo[a]) \in Nat
  BY <1>1, RefillAmountIsNat
<1>. QED  BY <1>2, CoreConstants DEF Transfer, Entry, RefillAgent

\* What a settlement posts.
LEMMA SettleEntry ==
    ASSUME CoreInv, NEW c \in Calls, VerifyAndSettle(c)
    PROVE  LET e == Transfer(call[c].payer, Payee, call[c].amount, call[c].subject)
           IN  /\ e \in Entry /\ e.from # e.to /\ e.from = call[c].payer
               /\ e.reference = call[c].subject /\ e.reference \in Invoices
               /\ Commit(c, e)
<1>1. call[c] \in Call /\ Sound(call[c]) /\ call[c].at = "settle"
  BY DEF CoreInv, CoreTypeOK, CallsAreSound, VerifyAndSettle
<1>2. /\ call[c].subject \in Invoices /\ call[c].payer \in Accounts /\ call[c].payer # Payee
      /\ call[c].amount \in Nat
  BY <1>1 DEF Sound, Call
<1>. QED  BY <1>2, CoreConstants DEF Transfer, Entry, VerifyAndSettle

\* A COMMIT of the ledger keeps the invariant of the core.
LEMMA CommitInv ==
    ASSUME CoreInv, NEW c \in Calls, VerifyAndSettle(c) \/ \E a \in Agents : RefillAgent(c, a)
    PROVE  CoreInv'
<1>. call \in [Calls -> Call] /\ call[c] \in Call
  BY DEF CoreInv, CoreTypeOK
<1>1. CASE VerifyAndSettle(c)
  <2>. DEFINE e == Transfer(call[c].payer, Payee, call[c].amount, call[c].subject)
              new == [call[c] EXCEPT !.at = "posting"]
  <2>1. /\ e \in Entry /\ e.from = call[c].payer
        /\ e.reference = call[c].subject /\ e.reference \in Invoices /\ Commit(c, e)
    BY <1>1, SettleEntry
  <2>2. call' = [call EXCEPT ![c] = new]
    BY <1>1 DEF VerifyAndSettle, Goto
  <2>3. /\ new \in Call /\ new.at = "posting" /\ new.subject = call[c].subject
        /\ new.payer = call[c].payer
    BY DEF Call
  <2>. HIDE DEF e, new
  <2>4. /\ call' \in [Calls -> Call] /\ call'[c] = new
        /\ \A d \in Calls \ {c} : call'[d] = call[d]
    BY <2>2, <2>3
  <2>. QED  BY <1>1, <2>1, <2>3, <2>4, PostInv DEF VerifyAndSettle
<1>2. ASSUME NEW a \in Agents, RefillAgent(c, a)
      PROVE  CoreInv'
  <2>. DEFINE amount == RefillAmount(call[c].todo[a])
              e == Transfer(Master, AccountOf[a], amount, a)
              todo == [call[c].todo EXCEPT ![a] = NoRow]
              new == [call[c] EXCEPT !.at = "posting", !.todo = todo, !.subject = a,
                                     !.amount = amount]
  <2>1. amount \in Nat /\ e \in Entry /\ e.reference = a /\ Commit(c, e)
    BY <1>2, RefillEntry
  <2>2. todo \in [Agents -> AgentRow]
    BY DEF Call, NoRow, AgentRow
  <2>3. call' = [call EXCEPT ![c] = new]
    BY <1>2 DEF RefillAgent, Call
  <2>. HIDE DEF amount, e, todo
  <2>4. new \in Call /\ new.at = "posting" /\ new.subject = a
    BY <2>1, <2>2, CoreConstants DEF Call
  <2>. HIDE DEF new
  <2>5. /\ call' \in [Calls -> Call] /\ call'[c] = new
        /\ \A d \in Calls \ {c} : call'[d] = call[d]
    BY <2>3, <2>4
  <2>6. UNCHANGED coreVars
    BY <1>2 DEF RefillAgent
  <2>. QED  BY <2>1, <2>4, <2>5, <2>6, PostInv
<1>. QED  BY <1>1, <1>2

\* The call changes neither its subject nor its payer.
LEMMA SameWork ==
    ASSUME CoreInv, NEW c \in Calls, NEW at \in {"mark", "issue", "posting"}, Goto(c, at)
    PROVE  /\ call' \in [Calls -> Call] /\ call'[c].at = at
           /\ call'[c].subject = call[c].subject /\ call'[c].payer = call[c].payer
           /\ \A d \in Calls \ {c} : call'[d] = call[d]
<1>. DEFINE new == [call[c] EXCEPT !.at = at]
<1>1. call \in [Calls -> Call] /\ call[c] \in Call
  BY DEF CoreInv, CoreTypeOK
<1>2. /\ new \in Call /\ new.at = at /\ new.subject = call[c].subject
      /\ new.payer = call[c].payer
  BY <1>1 DEF Call
<1>3. call' = [call EXCEPT ![c] = new]
  BY DEF Goto
<1>. HIDE DEF new
<1>. QED  BY <1>1, <1>2, <1>3

\* The invoice is paid, and nobody else is about to issue its receipt.
LEMMA MarkPaidInv ==
    ASSUME CoreInv, NEW c \in Calls, MarkPaid(c)
    PROVE  CoreInv'
<1>. DEFINE i == call[c].subject
<1>1. /\ i \in Invoices /\ call[c].payer \in Accounts /\ call[c].at = "mark"
      /\ invoices[i].status = "pending" /\ Goto(c, "issue")
      /\ invoices' = [invoices EXCEPT ![i].status = "paid"]
      /\ UNCHANGED <<balance, journal, agents, receipts>>
  BY DEF MarkPaid, ledgerVars, CoreInv, CallsAreSound, Sound
<1>2. /\ call' \in [Calls -> Call] /\ call'[c].at = "issue" /\ call'[c].subject = i
      /\ call'[c].payer = call[c].payer /\ \A d \in Calls \ {c} : call'[d] = call[d]
  BY <1>1, SameWork
<1>3. /\ invoices' \in [Invoices -> InvoiceRow] /\ invoices'[i].status = "paid"
      /\ \A x \in Invoices : invoices[x].status = "paid" => invoices'[x].status = "paid"
  BY <1>1 DEF CoreInv, CoreTypeOK, InvoiceRow
<1>. HIDE DEF i
<1>4. CoreTypeOK'
  BY <1>1, <1>2, <1>3 DEF CoreInv, CoreTypeOK
<1>5. CallsAreSound'
  <2>1. Sound(call'[c])
    BY <1>1, <1>2 DEF Sound
  <2>. QED  BY <1>2, <2>1 DEF CoreInv, CallsAreSound, Sound
<1>6. CallsHaveMoved'
  <2>1. Moved(i, call[c].payer)
    BY <1>1 DEF CoreInv, CallsHaveMoved, i
  <2>. QED  BY <1>1, <1>2, <2>1 DEF CoreInv, CallsHaveMoved, Moved
<1>7. IssuersArePaid'
  <2>1. \A r \in receipts : r.invoice # i
    BY <1>1 DEF CoreInv, ReceiptsAreSettled
  <2>2. \A d \in Calls : call[d].at = "issue" => call[d].subject # i
    BY <1>1 DEF CoreInv, IssuersArePaid
  <2>3. \A d \in Calls : call[d].at = "issue" => call[d].subject \in Invoices
    BY DEF CoreInv, CallsAreSound, Sound
  <2>. QED  BY <1>1, <1>2, <1>3, <2>1, <2>2, <2>3 DEF CoreInv, IssuersArePaid
<1>8. ReceiptsAreSettled'
  BY <1>1, <1>3 DEF CoreInv, CoreTypeOK, Receipt, ReceiptsAreSettled
<1>. QED  BY <1>4, <1>5, <1>6, <1>7, <1>8 DEF CoreInv

\* A receipt of an invoice that this call has marked, and that has none yet.
LEMMA IssueInv ==
    ASSUME CoreInv, NEW c \in Calls, Issue(c)
    PROVE  CoreInv'
<1>. DEFINE new == [invoice |-> call[c].subject, payer |-> call[c].payer]
<1>1. /\ call[c].at = "issue" /\ End(c) /\ receipts' = receipts \cup {new}
      /\ UNCHANGED <<balance, journal, agents, invoices>>
  BY DEF Issue, ledgerVars
<1>2. new \in Receipt
  BY <1>1 DEF CoreInv, CallsAreSound, Sound, Receipt
<1>3. Idle \in Call /\ Idle.at = "idle"
  BY DEF Idle, Call, NoRow, AgentRow
<1>4. /\ call' \in [Calls -> Call] /\ call'[c].at = "idle"
      /\ \A d \in Calls \ {c} : call'[d] = call[d]
  BY <1>1, <1>3 DEF End, CoreInv, CoreTypeOK
<1>5. CoreTypeOK'
  BY <1>1, <1>2, <1>4 DEF CoreInv, CoreTypeOK
<1>6. CallsAreSound' /\ CallsHaveMoved'
  BY <1>1, <1>4 DEF CoreInv, CallsAreSound, Sound, CallsHaveMoved, Moved
<1>7. IssuersArePaid'
  <2>1. \A d \in Calls \ {c} : call[d].at = "issue" => call[d].subject # call[c].subject
    BY <1>1 DEF CoreInv, IssuersArePaid
  <2>. QED  BY <1>1, <1>4, <2>1 DEF CoreInv, IssuersArePaid
<1>8. ReceiptsAreSettled'
  <2>1. /\ invoices[new.invoice].status = "paid"
        /\ \A r \in receipts : r.invoice # new.invoice
    BY <1>1 DEF CoreInv, IssuersArePaid
  <2>2. Moved(new.invoice, new.payer)
    BY <1>1 DEF CoreInv, CallsHaveMoved, CallsAreSound, Sound
  <2>. QED  BY <1>1, <2>1, <2>2 DEF CoreInv, ReceiptsAreSettled, Moved
<1>. QED  BY <1>5, <1>6, <1>7, <1>8 DEF CoreInv

\* The cache has a leg, and the call goes on when it has both.
LEMMA AppliedInv ==
    ASSUME CoreInv, NEW c \in Calls, Applied(c)
    PROVE  CoreInv'
<1>1. /\ call[c].at = "posting" /\ UNCHANGED <<balance, journal, invoices, receipts, agents>>
      /\ agents' \in [Agents -> AgentRow]
  BY DEF Applied, ApplyDelta, coreVars, CoreInv, CoreTypeOK
<1>2. call[c].subject \in Agents \/ (call[c].subject \in Invoices /\ call[c].payer \in Accounts)
  BY <1>1 DEF CoreInv, CallsAreSound, Sound
<1>3. call[c].subject \in Invoices => Moved(call[c].subject, call[c].payer)
  BY <1>1 DEF CoreInv, CallsHaveMoved
<1>4. \/ Goto(c, "posting")
      \/ call[c].subject \in Agents /\ Goto(c, "agent")
      \/ call[c].subject \in Invoices /\ Goto(c, "mark")
  <2>. DEFINE at == IF posting'[c] # << >> THEN "posting"
                    ELSE IF call[c].subject \in Agents THEN "agent" ELSE "mark"
  <2>1. Goto(c, at)
    BY DEF Applied
  <2>2. \/ at = "posting"
        \/ call[c].subject \in Agents /\ at = "agent"
        \/ call[c].subject \in Invoices /\ at = "mark"
    BY <1>2
  <2>. HIDE DEF at
  <2>. QED  BY <2>1, <2>2
<1>5. CASE call[c].subject \in Agents /\ Goto(c, "agent")
  BY <1>1, <1>5, GotoInv
<1>6. ASSUME NEW at \in {"posting", "mark"}, Goto(c, at), at = "mark" => call[c].subject \in Invoices
      PROVE  CoreInv'
  <2>1. /\ call' \in [Calls -> Call] /\ call'[c].at = at
        /\ call'[c].subject = call[c].subject /\ call'[c].payer = call[c].payer
        /\ \A d \in Calls \ {c} : call'[d] = call[d]
    BY <1>6, SameWork
  <2>2. Sound(call'[c])
    BY <1>2, <1>6, <2>1, CoreConstants DEF Sound
  <2>. QED  BY <1>1, <1>3, <2>1, <2>2, OneCall
<1>. QED  BY <1>4, <1>5, <1>6

\* What ends a call, and the SELECT that begins a settlement.
LEMMA OtherCallsInv ==
    ASSUME CoreInv, NEW c \in Calls,
           \/ \E i \in Invoices, payer \in Accounts : GetInvoice(c, i, payer)
           \/ SettlementFails(c) \/ CommitFails(c) \/ Dropped(c)
    PROVE  CoreInv'
<1>1. ASSUME NEW i \in Invoices, NEW payer \in Accounts, GetInvoice(c, i, payer)
      PROVE  CoreInv'
  <2>. DEFINE new == [call[c] EXCEPT !.at = "settle", !.subject = i, !.amount = Price[i],
                                     !.payer = payer]
  <2>1. call \in [Calls -> Call] /\ call[c] \in Call
    BY DEF CoreInv, CoreTypeOK
  <2>2. /\ new \in Call /\ new.at = "settle" /\ new.subject = i /\ new.payer = payer
    BY <2>1, CoreConstants DEF Call
  <2>3. call' = [call EXCEPT ![c] = new]
    BY <1>1, <2>1 DEF GetInvoice, Call
  <2>. HIDE DEF new
  <2>4. Sound(new)
    BY <1>1, <2>2 DEF Sound, GetInvoice
  <2>5. /\ call' \in [Calls -> Call] /\ call'[c] = new
        /\ \A d \in Calls \ {c} : call'[d] = call[d]
    BY <2>1, <2>2, <2>3
  <2>6. UNCHANGED <<balance, journal, invoices, receipts>> /\ agents' \in [Agents -> AgentRow]
    BY <1>1 DEF GetInvoice, ledgerVars, coreVars, CoreInv, CoreTypeOK
  <2>. QED  BY <2>2, <2>4, <2>5, <2>6, OneCall
<1>2. CASE SettlementFails(c)
  BY <1>2, EndInv DEF SettlementFails, ledgerVars, coreVars
<1>3. CASE CommitFails(c)
  <2>1. UNCHANGED <<balance, journal, invoices, receipts, agents>>
    BY <1>3 DEF CommitFails, LoseCommit, coreVars
  <2>2. Goto(c, "next") \/ End(c)
    BY <1>3 DEF CommitFails
  <2>. QED  BY <2>1, <2>2, GotoInv, EndInv DEF CoreInv, CoreTypeOK
<1>4. CASE Dropped(c)
  BY <1>4, EndInv DEF Dropped, LoseCommit, ledgerVars, coreVars
<1>. QED  BY <1>1, <1>2, <1>3, <1>4

\* What happens to invoices does not take back that one is paid.
LEMMA InvoiceStepInv ==
    ASSUME CoreInv, InvoiceStep
    PROVE  CoreInv'
<1>1. UNCHANGED <<balance, journal, agents, receipts, call>>
  BY DEF InvoiceStep, CreateInvoice, Lapse, ExpireStale, ledgerVars
<1>2. /\ invoices' \in [Invoices -> InvoiceRow]
      /\ \A i \in Invoices : invoices[i].status = "paid" => invoices'[i].status = "paid"
  <2>. invoices \in [Invoices -> InvoiceRow]
    BY DEF CoreInv, CoreTypeOK
  <2>1. CASE \E i \in Invoices : CreateInvoice(i)
    BY <2>1 DEF CreateInvoice, InvoiceRow
  <2>2. CASE \E i \in Invoices : Lapse(i)
    <3>1. PICK i \in Invoices : invoices' = [invoices EXCEPT ![i].due = TRUE]
      BY <2>2 DEF Lapse
    <3>. DEFINE row == [invoices[i] EXCEPT !.due = TRUE]
    <3>2. row \in InvoiceRow /\ row.status = invoices[i].status
      BY DEF InvoiceRow
    <3>3. invoices' = [invoices EXCEPT ![i] = row]
      BY <3>1
    <3>. HIDE DEF row
    <3>. QED  BY <3>2, <3>3
  <2>3. CASE ExpireStale
    BY <2>3 DEF ExpireStale, Overdue, InvoiceRow
  <2>. QED  BY <2>1, <2>2, <2>3 DEF InvoiceStep
<1>3. CoreTypeOK' /\ CallsAreSound' /\ CallsHaveMoved'
  BY <1>1, <1>2 DEF CoreInv, CoreTypeOK, CallsAreSound, Sound, CallsHaveMoved, Moved
<1>4. IssuersArePaid'
  BY <1>1, <1>2 DEF CoreInv, CallsAreSound, Sound, IssuersArePaid
<1>5. ReceiptsAreSettled'
  BY <1>1, <1>2 DEF CoreInv, CoreTypeOK, Receipt, ReceiptsAreSettled
<1>. QED  BY <1>3, <1>4, <1>5 DEF CoreInv

\* A restart forgets the calls.
LEMMA RestartInv ==
    ASSUME CoreInv, Restart
    PROVE  CoreInv'
<1>1. Idle \in Call /\ Idle.at = "idle"
  BY DEF Idle, Call, NoRow, AgentRow
<1>2. /\ UNCHANGED <<balance, journal, agents, invoices, receipts>>
      /\ call' = [c \in Calls |-> Idle]
  BY DEF Restart, RestartLedger, coreVars
<1>. QED  BY <1>1, <1>2
  DEF CoreInv, CoreTypeOK, CallsAreSound, Sound, CallsHaveMoved, IssuersArePaid, ReceiptsAreSettled

-----------------------------------------------------------------------------
(* The specification *)

\* The invariant of the core holds at the start.
LEMMA CoreInvInit ==
    ASSUME Init
    PROVE  CoreInv
<1>1. Idle \in Call /\ Idle.at = "idle"
  BY DEF Idle, Call, NoRow, AgentRow
<1>2. CoreTypeOK
  BY <1>1, OpeningsAreNat DEF Init, LedgerInit, CoreTypeOK, AgentRow, InvoiceRow
<1>. QED  BY <1>1, <1>2
  DEF Init, CoreInv, CallsAreSound, Sound, CallsHaveMoved, IssuersArePaid, ReceiptsAreSettled

\* Every step keeps the invariant of the core.
LEMMA CoreInvNext ==
    ASSUME CoreInv, [Next]_vars
    PROVE  CoreInv'
<1>1. ASSUME NEW c \in Calls, SweepStep(c)
      PROVE  CoreInv'
  BY <1>1, SweepInv, CommitInv DEF SweepStep
<1>2. ASSUME NEW c \in Calls, SettleStep(c)
      PROVE  CoreInv'
  BY <1>2, CommitInv, MarkPaidInv, IssueInv, OtherCallsInv DEF SettleStep
<1>3. ASSUME NEW c \in Calls, Applied(c) \/ CommitFails(c) \/ Dropped(c)
      PROVE  CoreInv'
  BY <1>3, AppliedInv, OtherCallsInv
<1>4. CASE InvoiceStep
  BY <1>4, InvoiceStepInv
<1>5. CASE Restart
  BY <1>5, RestartInv
<1>6. CASE UNCHANGED vars
  BY <1>6 DEF vars, ledgerVars, coreVars, CoreInv, CoreTypeOK, CallsAreSound, Sound,
              CallsHaveMoved, Moved, IssuersArePaid, ReceiptsAreSettled
<1>. QED  BY <1>1, <1>2, <1>3, <1>4, <1>5, <1>6 DEF Next

\* The invariant of vault and settlement.
THEOREM CoreInvariant == Spec => []CoreInv
<1>1. Init => CoreInv
  BY CoreInvInit
<1>2. CoreInv /\ [Next]_vars => CoreInv'
  BY CoreInvNext
<1>. QED  BY <1>1, <1>2, PTL DEF Spec

\* verify_and_settle, mark_paid and issue are three steps of their own, and
\* other calls may settle or expire the invoice between them: a receipt is
\* nevertheless issued once, for a paid invoice, and its payer has paid.
THEOREM ReceiptsStaySettled == Spec => []ReceiptsAreSettled
<1>1. CoreInv => ReceiptsAreSettled
  BY DEF CoreInv
<1>. QED  BY <1>1, CoreInvariant, PTL

-----------------------------------------------------------------------------
(* The refinement *)

\* A COMMIT of submit is a posting.
LEMMA CommitPosts ==
    ASSUME CoreInv, NEW c \in Calls, NEW e \in Entry, e.from # e.to, Commit(c, e)
    PROVE  Books!Post
<1>1. journal \in Seq(Entry)
  BY DEF CoreInv, CoreTypeOK
<1>2. /\ Len(journal') = Len(journal) + 1 /\ journal'[Len(journal')] = e
      /\ journal' = Append(journal, e)
  BY <1>1 DEF Commit
<1>. QED  BY <1>2 DEF Commit, Books!Post, Books!Latest, Books!Entry, Entry

\* Nothing else touches the table or the journal.
LEMMA StepPosts ==
    ASSUME CoreInv, [Next]_vars
    PROVE  [Books!Post]_<<balance, journal>>
<1>1. ASSUME NEW c \in Calls, VerifyAndSettle(c)
      PROVE  Books!Post
  BY <1>1, SettleEntry, CommitPosts
<1>2. ASSUME NEW c \in Calls, NEW a \in Agents, RefillAgent(c, a)
      PROVE  Books!Post
  BY <1>2, RefillEntry, CommitPosts
<1>3. ASSUME NEW c \in Calls,
             \/ StartSweep(c) \/ (\E a \in Agents : SkipAgent(c, a))
             \/ UpdateAgent(c) \/ RecordRefill(c) \/ RefillFails(c) \/ EndSweep(c)
             \/ (\E i \in Invoices, payer \in Accounts : GetInvoice(c, i, payer))
             \/ MarkPaid(c) \/ Issue(c) \/ SettlementFails(c)
      PROVE  UNCHANGED <<balance, journal>>
  BY <1>3 DEF StartSweep, SkipAgent, UpdateAgent, RecordRefill, RefillFails, EndSweep,
              GetInvoice, MarkPaid, Issue, SettlementFails, ledgerVars
<1>4. ASSUME NEW c \in Calls, Applied(c) \/ CommitFails(c) \/ Dropped(c)
      PROVE  UNCHANGED <<balance, journal>>
  BY <1>4 DEF Applied, ApplyDelta, CommitFails, LoseCommit, Dropped, ledgerVars
<1>5. CASE InvoiceStep \/ Restart \/ UNCHANGED vars
  BY <1>5 DEF InvoiceStep, CreateInvoice, Lapse, ExpireStale, Restart, RestartLedger, vars,
              ledgerVars
<1>. QED  BY <1>1, <1>2, <1>3, <1>4, <1>5 DEF Next, SweepStep, SettleStep

\* "Every financial mutation produces balanced journal entries": the engine under
\* vault and settlement implements the double-entry books.
THEOREM CoreKeepsBooks == Spec => LedgerSpec
<1>1. Init => Books!Open
  BY OpeningsAreNat DEF Init, LedgerInit, Books!Open
<1>2. CoreInv /\ [Next]_vars => [Books!Post]_<<balance, journal>>
  BY StepPosts
<1>. QED  BY <1>1, <1>2, CoreInvariant, PTL DEF Spec, LedgerSpec, Books!LedgerSpec

-----------------------------------------------------------------------------
(* The cache *)

CacheTypeOK ==
    /\ cache \in [Accounts -> Int]
    /\ drifted \subseteq Accounts
    /\ posting \in [Calls -> Seq(Leg)]

\* Legs wait only while their call does, and no two of a call for one account.
TwoAccounts(legs) ==
    /\ Len(legs) <= 2
    /\ Len(legs) = 2 => legs[1].account # legs[2].account
LegsWait ==
    \A c \in Calls :
        TwoAccounts(posting[c]) /\ (call[c].at # "posting" => posting[c] = << >>)

CacheInv == CacheTypeOK /\ LegsWait /\ CacheCoherent

\* What the next leg is about to add, and the rest.
LEMMA InFlightStep ==
    ASSUME NEW legs \in Seq(Leg), TwoAccounts(legs), NEW a
    PROVE  /\ InFlight(legs, a) \in Int
           /\ (\A i \in DOMAIN legs : legs[i].account # a) => InFlight(legs, a) = 0
           /\ legs # << >> =>
                 /\ Head(legs) \in Leg /\ Tail(legs) \in Seq(Leg) /\ TwoAccounts(Tail(legs))
                 /\ InFlight(legs, a) = InFlight(Tail(legs), a)
                      + IF Head(legs).account = a THEN Head(legs).delta ELSE 0
<1>. DEFINE mine(s) == {i \in DOMAIN s : s[i].account = a}
            rest == Tail(legs)
            first == Head(legs)
<1>1. ASSUME NEW s, mine(s) = {} PROVE InFlight(s, a) = 0
  BY <1>1 DEF InFlight
<1>2. ASSUME NEW s, NEW i, mine(s) = {i} PROVE InFlight(s, a) = s[i].delta
  BY <1>2 DEF InFlight
<1>3. ASSUME NEW s \in Seq(Leg), TwoAccounts(s)
      PROVE  \/ mine(s) = {} /\ InFlight(s, a) = 0
             \/ \E i \in 1..Len(s) :
                   mine(s) = {i} /\ InFlight(s, a) = s[i].delta /\ s[i].delta \in Int
  <2>1. /\ Len(s) \in Nat /\ DOMAIN s = 1..Len(s)
        /\ \A i \in 1..Len(s) : s[i] \in Leg
    BY <1>3, LenProperties, ElementOfSeq
  <2>4. \A i \in 1..Len(s) : s[i].delta \in Int
    BY <2>1 DEF Leg
  <2>2. CASE mine(s) = {}
    BY <1>1, <2>2
  <2>3. CASE mine(s) # {}
    <3>1. PICK i \in 1..Len(s) : s[i].account = a
      BY <2>1, <2>3
    <3>2. \A j \in 1..Len(s) : s[j].account = a => j = i
      BY <1>3, <2>1, <3>1 DEF TwoAccounts
    <3>3. mine(s) = {i}
      BY <2>1, <3>1, <3>2
    <3>. QED  BY <1>2, <2>4, <3>1, <3>3
  <2>. QED  BY <2>2, <2>3
<1>4. /\ InFlight(legs, a) \in Int
      /\ (\A i \in DOMAIN legs : legs[i].account # a) => InFlight(legs, a) = 0
  <2>1. CASE mine(legs) = {}
    BY <1>1, <2>1
  <2>2. CASE mine(legs) # {}
    <3>1. InFlight(legs, a) \in Int
      BY <1>3, <2>2
    <3>2. \E i \in DOMAIN legs : legs[i].account = a
      BY <2>2
    <3>. QED  BY <3>1, <3>2
  <2>. QED  BY <2>1, <2>2
<1>5. ASSUME legs # << >>
      PROVE  /\ first \in Leg /\ rest \in Seq(Leg) /\ TwoAccounts(rest)
             /\ InFlight(legs, a)
                  = InFlight(rest, a) + IF first.account = a THEN first.delta ELSE 0
  <2>1. /\ first \in Leg /\ rest \in Seq(Leg) /\ Len(rest) = Len(legs) - 1
        /\ \A i \in 1..Len(rest) : rest[i] = legs[i + 1]
    BY <1>5, HeadTailProperties
  <2>2. first = legs[1] /\ Len(legs) \in {1, 2} /\ DOMAIN legs = 1..Len(legs)
    <3>1. Len(legs) \in Nat \ {0} /\ DOMAIN legs = 1..Len(legs)
      BY <1>5, EmptySeq, LenProperties
    <3>2. Len(legs) \in {1, 2}
      BY <3>1 DEF TwoAccounts
    <3>3. first = legs[1]
      BY <1>5
    <3>. QED  BY <3>1, <3>2, <3>3
  <2>. HIDE DEF rest, first
  <2>3. TwoAccounts(rest) /\ DOMAIN rest = 1..Len(rest)
    BY <2>1, <2>2 DEF TwoAccounts
  <2>4. legs[1].delta \in Int
    BY <2>1, <2>2 DEF Leg
  <2>5. CASE legs[1].account = a
    <3>1. 1 \in mine(legs) /\ mine(rest) = {}
      BY <2>1, <2>2, <2>3, <2>5 DEF TwoAccounts
    <3>2. InFlight(rest, a) = 0
      BY <1>1, <3>1
    <3>3. mine(legs) = {1}
      BY <1>3, <3>1
    <3>4. InFlight(legs, a) = legs[1].delta
      BY <1>2, <3>3
    <3>. QED  BY <2>1, <2>2, <2>3, <2>4, <2>5, <3>2, <3>4
  <2>6. CASE legs[1].account # a
    <3>1. ASSUME NEW i \in mine(rest) PROVE i = 1 /\ 2 \in mine(legs) /\ rest[1] = legs[2]
      BY <2>1, <2>2, <2>3, <3>1
    <3>2. CASE mine(rest) = {}
      <4>1. mine(legs) = {}
        <5>1. ASSUME NEW i \in mine(legs) PROVE FALSE
          <6>1. i = 2 /\ Len(legs) = 2
            BY <2>2, <2>6, <5>1
          <6>2. Len(rest) = 1 /\ rest[1] = legs[2]
            BY <2>1, <6>1
          <6>. QED  BY <2>3, <3>2, <5>1, <6>1, <6>2
        <5>. QED  BY <5>1
      <4>. QED  BY <1>1, <2>1, <2>2, <2>3, <2>6, <3>2, <4>1
    <3>3. CASE mine(rest) # {}
      <4>1. mine(rest) = {1} /\ 2 \in mine(legs) /\ rest[1] = legs[2]
        BY <3>1, <3>3
      <4>2. mine(legs) = {2}
        BY <1>3, <4>1
      <4>3. InFlight(rest, a) = rest[1].delta /\ InFlight(legs, a) = legs[2].delta
        BY <1>2, <4>1, <4>2
      <4>. QED  BY <1>4, <2>1, <2>2, <2>3, <2>6, <4>1, <4>3
    <3>. QED  BY <3>2, <3>3
  <2>. QED  BY <2>5, <2>6
<1>. QED  BY <1>4, <1>5

\* What waits for the cache adds up like any sum.
LEMMA InFlightIsTotal ==
    ASSUME NEW p, NEW a, NEW f, \A c \in Calls : f[c] = InFlight(p[c], a) /\ f[c] \in Int
    PROVE  InFlightSum(p, a) = Total(f, Calls)
<1>. DEFINE P(g) == g = [s \in SUBSET Calls |->
                          IF s = {} THEN 0
                          ELSE InFlight(p[CHOOSE x \in s : TRUE], a)
                                 + g[s \ {CHOOSE x \in s : TRUE}]]
            k == CHOOSE g : P(g)
<1>1. ASSUME NEW g PROVE P(g) <=> AddsUp(g, f, Calls)
  <2>1. \A s \in SUBSET Calls : s # {} => f[First(s)] = InFlight(p[First(s)], a)
    BY FirstIsIn
  <2>2. [s \in SUBSET Calls |->
            IF s = {} THEN 0 ELSE InFlight(p[First(s)], a) + g[s \ {First(s)}]]
        = [s \in SUBSET Calls |-> IF s = {} THEN 0 ELSE f[First(s)] + g[s \ {First(s)}]]
    BY <2>1
  <2>. QED  BY <2>2 DEF AddsUp, First
<1>2. P(k)
  <2>1. PICK g : AddsUp(g, f, Calls)
    BY SumExists, CallsAreFinite
  <2>. HIDE DEF P
  <2>. QED  BY <1>1, <2>1
<1>3. InFlightSum(p, a) = k[Calls]
  BY DEF InFlightSum, MapThenSumSet, MapThenFoldSet
<1>. HIDE DEF k, P
<1>4. SumOf(k, f, Calls)
  BY <1>1, <1>2, CallsAreFinite DEF SumOf
<1>5. PICK g : SumOf(g, f, Calls) /\ Total(f, Calls) = g[Calls]
  BY TotalIsSum, CallsAreFinite
<1>. QED  BY <1>3, <1>4, <1>5, SumAgrees

\* At most the legs of call c differ.
LegsOfOne(p, q, c) ==
    /\ c \in Calls /\ p \in [Calls -> Seq(Leg)] /\ q \in [Calls -> Seq(Leg)]
    /\ \A d \in Calls : TwoAccounts(p[d]) /\ TwoAccounts(q[d])
    /\ \A d \in Calls \ {c} : q[d] = p[d]

\* The legs of one call change.
LEMMA InFlightChange ==
    ASSUME NEW p, NEW q, NEW c, LegsOfOne(p, q, c), NEW a
    PROVE  /\ InFlightSum(p, a) \in Int
           /\ InFlightSum(q, a) = InFlightSum(p, a) - InFlight(p[c], a) + InFlight(q[c], a)
<1>. DEFINE f == [d \in Calls |-> InFlight(p[d], a)]
            e == [d \in Calls |-> InFlight(q[d], a)]
<1>0. /\ c \in Calls /\ p \in [Calls -> Seq(Leg)] /\ q \in [Calls -> Seq(Leg)]
      /\ \A d \in Calls : TwoAccounts(p[d]) /\ TwoAccounts(q[d])
      /\ \A d \in Calls \ {c} : q[d] = p[d]
  BY DEF LegsOfOne
<1>1. \A d \in Calls : InFlight(p[d], a) \in Int /\ InFlight(q[d], a) \in Int
  BY <1>0, InFlightStep
<1>2. /\ \A d \in Calls : f[d] = InFlight(p[d], a) /\ f[d] \in Int
      /\ \A d \in Calls : e[d] = InFlight(q[d], a) /\ e[d] \in Int
      /\ \A d \in Calls \ {c} : e[d] = f[d]
  BY <1>0, <1>1
<1>. HIDE DEF e, f
<1>3. InFlightSum(p, a) = Total(f, Calls)
  BY <1>2, InFlightIsTotal
<1>6. InFlightSum(q, a) = Total(e, Calls)
  BY <1>2, InFlightIsTotal
<1>4. Total(f, Calls) \in Int
  BY <1>2, CallsAreFinite, TotalType
<1>5. Total(e, Calls) = Total(f, Calls) - f[c] + e[c]
  <2>1. DiffersAt(f, e, Calls, c)
    BY <1>0, <1>2 DEF DiffersAt
  <2>2. IsFiniteSet(Calls)
    BY CallsAreFinite
  <2>. QED  BY <2>1, <2>2, TotalChange
<1>. QED  BY <1>0, <1>2, <1>3, <1>4, <1>5, <1>6

\* Without a leg that waits there is nothing to add.
LEMMA NothingInFlight ==
    ASSUME NEW a
    PROVE  InFlightSum([c \in Calls |-> << >>], a) = 0
<1>. DEFINE p == [c \in Calls |-> << >>]
            f == [c \in Calls |-> 0]
<1>1. InFlight(<< >>, a) = 0
  BY DEF InFlight
<1>2. \A c \in Calls : f[c] = InFlight(p[c], a) /\ f[c] = 0 /\ f[c] \in Int
  BY <1>1
<1>. HIDE DEF p, f
<1>3. InFlightSum(p, a) = Total(f, Calls)
  BY <1>2, InFlightIsTotal
<1>4. Total(f, Calls) = 0
  BY <1>2, CallsAreFinite, TotalZero
<1>. QED  BY <1>3, <1>4 DEF p
\* A call that is not posting goes on: the cache does not notice.
LEMMA CacheUntouched ==
    ASSUME CacheInv, UNCHANGED <<balance, cache, drifted, posting>>,
           \A c \in Calls : call[c].at = "posting" => call'[c].at = "posting"
    PROVE  CacheInv'
BY DEF CacheInv, CacheTypeOK, LegsWait, TwoAccounts, CacheCoherent

\* A commit: the balances change by what its legs will add to the cache.
LEMMA CachePost ==
    ASSUME CoreInv, CacheInv, NEW c \in Calls, NEW e \in Entry, e.from # e.to, Commit(c, e),
           call[c].at # "posting", call'[c].at = "posting",
           \A d \in Calls \ {c} : call'[d] = call[d]
    PROVE  CacheInv'
<1>. DEFINE legs == Legs(e)
<1>1. /\ balance \in [Accounts -> Int] /\ cache \in [Accounts -> Int]
      /\ drifted \subseteq Accounts /\ posting \in [Calls -> Seq(Leg)]
      /\ posting[c] = << >> /\ \A d \in Calls : TwoAccounts(posting[d])
  BY DEF CoreInv, CoreTypeOK, CacheInv, CacheTypeOK, LegsWait
<1>2. /\ e.from \in Accounts /\ e.to \in Accounts /\ e.amount \in Int /\ -e.amount \in Int
      /\ balance' = [balance EXCEPT ![e.from] = @ - e.amount, ![e.to] = @ + e.amount]
      /\ posting' = [posting EXCEPT ![c] = legs]
      /\ UNCHANGED <<cache, drifted>>
  BY DEF Commit, Entry
<1>3. /\ legs \in Seq(Leg) /\ TwoAccounts(legs) /\ legs # << >>
      /\ Head(legs).account = e.from /\ Head(legs).delta = -e.amount
      /\ Tail(legs) # << >>
      /\ Head(Tail(legs)).account = e.to /\ Head(Tail(legs)).delta = e.amount
      /\ Tail(Tail(legs)) = << >>
  BY <1>2 DEF Legs, Leg, TwoAccounts
<1>. HIDE DEF legs
<1>4. /\ posting' \in [Calls -> Seq(Leg)] /\ \A d \in Calls : TwoAccounts(posting'[d])
      /\ LegsOfOne(posting, posting', c)
  BY <1>1, <1>2, <1>3 DEF LegsOfOne
<1>5. CacheTypeOK' /\ LegsWait'
  BY <1>1, <1>2, <1>4 DEF CacheInv, CacheTypeOK, LegsWait
<1>6. ASSUME NEW a \in Accounts \ drifted
      PROVE  cache[a] + InFlightSum(posting', a) = balance'[a]
  <2>1. cache[a] + InFlightSum(posting, a) = balance[a]
    BY DEF CacheInv, CacheCoherent
  <2>2. /\ InFlightSum(posting, a) \in Int
        /\ InFlightSum(posting', a) = InFlightSum(posting, a) - InFlight(posting[c], a)
                                        + InFlight(posting'[c], a)
    BY <1>4, InFlightChange
  <2>3. InFlight(posting[c], a) = 0
    BY <1>1 DEF InFlight
  <2>4. InFlight(legs, a) = InFlight(Tail(legs), a)
                              + IF e.from = a THEN -e.amount ELSE 0
    BY <1>3, InFlightStep
  <2>5. InFlight(Tail(legs), a) = InFlight(<< >>, a) + IF e.to = a THEN e.amount ELSE 0
    <3>1. Tail(legs) \in Seq(Leg) /\ TwoAccounts(Tail(legs))
      BY <1>3, InFlightStep
    <3>. QED  BY <1>3, <3>1, InFlightStep
  <2>6. InFlight(<< >>, a) = 0
    BY DEF InFlight
  <2>7. posting'[c] = legs
    BY <1>1, <1>2
  <2>8. balance'[a] = balance[a] + (IF e.from = a THEN -e.amount ELSE 0)
                                 + (IF e.to = a THEN e.amount ELSE 0)
    BY <1>1, <1>2
  <2>9. cache[a] \in Int /\ balance[a] \in Int
    BY <1>1
  <2>10. CASE e.from = a
    <3>1. InFlight(legs, a) = -e.amount /\ e.to # a
      <4>1. e.to # a
        BY <2>10
      <4>2. InFlight(Tail(legs), a) = 0
        BY <2>5, <2>6, <4>1
      <4>. QED  BY <1>2, <2>4, <2>10, <4>1, <4>2
    <3>2. balance'[a] = balance[a] + (-e.amount)
      BY <1>2, <2>8, <2>9, <2>10, <3>1
    <3>. QED  BY <1>2, <2>1, <2>2, <2>3, <2>7, <2>9, <3>1, <3>2
  <2>11. CASE e.to = a
    <3>1. InFlight(legs, a) = e.amount /\ e.from # a
      BY <1>2, <2>4, <2>5, <2>6, <2>11
    <3>2. balance'[a] = balance[a] + e.amount
      BY <1>2, <2>8, <2>9, <2>11, <3>1
    <3>. QED  BY <1>2, <2>1, <2>2, <2>3, <2>7, <2>9, <3>1, <3>2
  <2>12. CASE e.from # a /\ e.to # a
    BY <1>2, <2>1, <2>2, <2>3, <2>4, <2>5, <2>6, <2>7, <2>8, <2>9, <2>12
  <2>. QED  BY <2>10, <2>11, <2>12
<1>7. CacheCoherent'
  <2>1. \A a \in Accounts \ drifted' : cache'[a] + InFlightSum(posting', a) = balance'[a]
    BY <1>2, <1>6
  <2>. QED  BY <2>1 DEF CacheCoherent
<1>. QED  BY <1>5, <1>7 DEF CacheInv

\* A leg reaches the cache, or the cache refuses it and the account has drifted.
LEMMA CacheApplies ==
    ASSUME CoreInv, CacheInv, NEW c \in Calls, Applied(c)
    PROVE  CacheInv'
<1>. DEFINE leg == Head(posting[c])
            sum == cache[leg.account] + leg.delta
<1>1. /\ balance \in [Accounts -> Int] /\ cache \in [Accounts -> Int]
      /\ drifted \subseteq Accounts /\ posting \in [Calls -> Seq(Leg)]
      /\ \A d \in Calls : TwoAccounts(posting[d])
      /\ posting[c] # << >>
  BY DEF CoreInv, CoreTypeOK, CacheInv, CacheTypeOK, LegsWait, Applied, ApplyDelta
<1>2. /\ leg \in Leg /\ Tail(posting[c]) \in Seq(Leg) /\ TwoAccounts(Tail(posting[c]))
      /\ \A a : /\ InFlight(posting[c], a) \in Int /\ InFlight(Tail(posting[c]), a) \in Int
                /\ InFlight(posting[c], a) = InFlight(Tail(posting[c]), a)
                      + IF leg.account = a THEN leg.delta ELSE 0
  BY <1>1, InFlightStep
<1>3. /\ posting' = [posting EXCEPT ![c] = Tail(@)]
      /\ UNCHANGED balance
      /\ IF sum >= 0
         THEN cache' = [cache EXCEPT ![leg.account] = sum] /\ UNCHANGED drifted
         ELSE drifted' = drifted \cup {leg.account} /\ UNCHANGED cache
  BY DEF Applied, ApplyDelta
<1>. HIDE DEF leg
<1>4. leg.account \in Accounts /\ leg.delta \in Int /\ sum \in Int
  BY <1>1, <1>2 DEF Leg
<1>. HIDE DEF sum
<1>5. /\ posting' \in [Calls -> Seq(Leg)] /\ posting'[c] = Tail(posting[c])
      /\ \A d \in Calls : TwoAccounts(posting'[d])
      /\ LegsOfOne(posting, posting', c)
  BY <1>1, <1>2, <1>3 DEF LegsOfOne
<1>6. cache' \in [Accounts -> Int] /\ drifted' \subseteq Accounts
  BY <1>1, <1>3, <1>4
<1>7. LegsWait'
  <2>1. call'[c].at # "posting" => posting'[c] = << >>
    <3>. DEFINE at == IF posting'[c] # << >> THEN "posting"
                      ELSE IF call[c].subject \in Agents THEN "agent" ELSE "mark"
    <3>1. Goto(c, at)
      BY DEF Applied
    <3>2. posting'[c] # << >> => at = "posting"
      OBVIOUS
    <3>. HIDE DEF at
    <3>3. call \in [Calls -> Call] /\ call[c] \in Call
      BY DEF CoreInv, CoreTypeOK
    <3>4. call'[c].at = at
      BY <3>1, <3>3 DEF Goto, Call
    <3>. QED  BY <3>2, <3>4
  <2>2. \A d \in Calls \ {c} : call'[d] = call[d]
    BY DEF Applied, Goto, CoreInv, CoreTypeOK
  <2>. QED  BY <1>5, <2>1, <2>2 DEF CacheInv, LegsWait, LegsOfOne
<1>8. ASSUME NEW a \in Accounts \ drifted'
      PROVE  cache'[a] + InFlightSum(posting', a) = balance'[a]
  <2>1. a \in Accounts \ drifted /\ cache[a] + InFlightSum(posting, a) = balance[a]
    BY <1>3 DEF CacheInv, CacheCoherent
  <2>2. /\ InFlightSum(posting, a) \in Int
        /\ InFlightSum(posting', a) = InFlightSum(posting, a) - InFlight(posting[c], a)
                                        + InFlight(posting'[c], a)
    <3>1. LegsOfOne(posting, posting', c)
      BY <1>5
    <3>. QED  BY <3>1, InFlightChange
  <2>3. cache'[a] = cache[a] + IF leg.account = a THEN leg.delta ELSE 0
    BY <1>1, <1>3, <1>4 DEF sum
  <2>4. cache[a] \in Int /\ balance[a] \in Int
    BY <1>1
  <2>5. CASE leg.account = a
    BY <1>2, <1>3, <1>4, <1>5, <2>1, <2>2, <2>3, <2>4, <2>5
  <2>6. CASE leg.account # a
    BY <1>2, <1>3, <1>4, <1>5, <2>1, <2>2, <2>3, <2>4, <2>6
  <2>. QED  BY <2>5, <2>6
<1>9. CacheCoherent'
  <2>1. \A a \in Accounts \ drifted' : cache'[a] + InFlightSum(posting', a) = balance'[a]
    BY <1>8
  <2>. QED  BY <2>1 DEF CacheCoherent
<1>. QED  BY <1>5, <1>6, <1>7, <1>9 DEF CacheInv, CacheTypeOK

\* The answer of the commit is lost: what the cache lacks is on record.
LEMMA CacheLoses ==
    ASSUME CoreInv, CacheInv, NEW c \in Calls, LoseCommit(c),
           \A d \in Calls \ {c} : call'[d] = call[d]
    PROVE  CacheInv'
<1>1. /\ balance \in [Accounts -> Int] /\ cache \in [Accounts -> Int]
      /\ drifted \subseteq Accounts /\ posting \in [Calls -> Seq(Leg)]
      /\ \A d \in Calls : TwoAccounts(posting[d])
  BY DEF CoreInv, CoreTypeOK, CacheInv, CacheTypeOK, LegsWait
<1>2. /\ drifted' = drifted \cup Unposted(c)
      /\ posting' = [posting EXCEPT ![c] = << >>]
      /\ UNCHANGED <<balance, cache>>
  BY DEF LoseCommit
<1>3. /\ posting' \in [Calls -> Seq(Leg)] /\ posting'[c] = << >>
      /\ \A d \in Calls : TwoAccounts(posting'[d])
      /\ \A d \in Calls \ {c} : posting'[d] = posting[d]
      /\ LegsOfOne(posting, posting', c)
  BY <1>1, <1>2 DEF TwoAccounts, LegsOfOne
<1>4. Unposted(c) \subseteq Accounts
  <2>1. \A i \in DOMAIN posting[c] : posting[c][i] \in Leg
    BY <1>1, LenProperties, ElementOfSeq
  <2>. QED  BY <2>1 DEF Unposted, Leg
<1>5. CacheTypeOK'
  BY <1>1, <1>2, <1>3, <1>4 DEF CacheTypeOK
<1>6. LegsWait'
  BY <1>3 DEF CacheInv, LegsWait
<1>7. ASSUME NEW a \in Accounts \ drifted'
      PROVE  cache'[a] + InFlightSum(posting', a) = balance'[a]
  <2>1. a \in Accounts \ drifted /\ cache[a] + InFlightSum(posting, a) = balance[a]
    BY <1>2 DEF CacheInv, CacheCoherent
  <2>2. /\ InFlightSum(posting, a) \in Int
        /\ InFlightSum(posting', a) = InFlightSum(posting, a) - InFlight(posting[c], a)
                                        + InFlight(posting'[c], a)
    BY <1>3, InFlightChange
  <2>3. InFlight(posting[c], a) = 0
    <3>1. \A i \in DOMAIN posting[c] : posting[c][i].account # a
      BY <1>2 DEF Unposted
    <3>. QED  BY <1>1, <3>1, InFlightStep
  <2>4. InFlight(posting'[c], a) = 0
    BY <1>3 DEF InFlight
  <2>. QED  BY <1>2, <2>1, <2>2, <2>3, <2>4
<1>8. CacheCoherent'
  <2>1. \A a \in Accounts \ drifted' : cache'[a] + InFlightSum(posting', a) = balance'[a]
    BY <1>7
  <2>. QED  BY <2>1 DEF CacheCoherent
<1>. QED  BY <1>5, <1>6, <1>8 DEF CacheInv
\* The process starts again, with what it can read of the table.
LEMMA CacheRestarts ==
    ASSUME CoreInv, CacheInv, Restart
    PROVE  CacheInv'
<1>. DEFINE none == [c \in Calls |-> << >>]
<1>1. /\ posting' = none /\ cache' \in {Warm, Cold} /\ drifted' = Stale(cache')
      /\ UNCHANGED balance
  BY DEF Restart, RestartLedger
<1>2. Warm \in [Accounts -> Int] /\ Cold \in [Accounts -> Int]
  BY DEF Warm, Cold, CoreInv, CoreTypeOK
<1>3. /\ CacheTypeOK' /\ LegsWait'
  BY <1>1, <1>2 DEF CacheTypeOK, LegsWait, TwoAccounts, Stale
<1>4. ASSUME NEW a \in Accounts \ drifted'
      PROVE  cache'[a] + InFlightSum(posting', a) = balance'[a]
  <2>1. cache'[a] = balance[a] /\ balance[a] \in Int
    BY <1>1, <1>4 DEF Stale, CoreInv, CoreTypeOK
  <2>2. InFlightSum(posting', a) = 0
    BY <1>1, NothingInFlight
  <2>. QED  BY <1>1, <2>1, <2>2
<1>5. CacheCoherent'
  <2>1. \A a \in Accounts \ drifted' : cache'[a] + InFlightSum(posting', a) = balance'[a]
    BY <1>4
  <2>. QED  BY <2>1 DEF CacheCoherent
<1>. QED  BY <1>3, <1>5 DEF CacheInv

\* The invariant of the cache holds at the start.
LEMMA CacheInvInit ==
    ASSUME Init
    PROVE  CacheInv
<1>. DEFINE none == [c \in Calls |-> << >>]
<1>1. /\ posting = none /\ cache \in {Warm, Cold} /\ drifted = Stale(cache)
      /\ balance \in [Accounts -> Int]
  BY OpeningsAreNat DEF Init, LedgerInit
<1>2. Warm \in [Accounts -> Int] /\ Cold \in [Accounts -> Int]
  BY <1>1 DEF Warm, Cold
<1>3. /\ CacheTypeOK /\ LegsWait
  BY <1>1, <1>2 DEF CacheTypeOK, LegsWait, TwoAccounts, Stale
<1>4. ASSUME NEW a \in Accounts \ drifted
      PROVE  cache[a] + InFlightSum(posting, a) = balance[a]
  <2>1. cache[a] = balance[a] /\ balance[a] \in Int
    BY <1>1, <1>4 DEF Stale
  <2>2. InFlightSum(posting, a) = 0
    BY <1>1, NothingInFlight
  <2>. QED  BY <2>1, <2>2
<1>. QED  BY <1>3, <1>4 DEF CacheInv, CacheCoherent

\* Any other step of a call leaves the cache alone.
LEMMA CacheOtherSteps ==
    ASSUME CoreInv, CacheInv, NEW c \in Calls,
           \/ StartSweep(c) \/ (\E a \in Agents : SkipAgent(c, a))
           \/ UpdateAgent(c) \/ RecordRefill(c) \/ RefillFails(c) \/ EndSweep(c)
           \/ (\E i \in Invoices, payer \in Accounts : GetInvoice(c, i, payer))
           \/ MarkPaid(c) \/ Issue(c) \/ SettlementFails(c)
           \/ (Dropped(c) /\ call[c].at # "posting")
    PROVE  CacheInv'
<1>1. UNCHANGED <<balance, cache, drifted, posting>> /\ call[c].at # "posting"
  BY DEF StartSweep, SkipAgent, UpdateAgent, RecordRefill, RefillFails, EndSweep, GetInvoice,
         MarkPaid, Issue, SettlementFails, Dropped, ledgerVars
<1>2. \A d \in Calls \ {c} : call'[d] = call[d]
  BY DEF StartSweep, SkipAgent, UpdateAgent, RecordRefill, RefillFails, EndSweep, GetInvoice,
         MarkPaid, Issue, SettlementFails, Dropped, Goto, End, CoreInv, CoreTypeOK
<1>. QED  BY <1>1, <1>2, CacheUntouched

\* Every step keeps the invariant of the cache.
LEMMA CacheInvNext ==
    ASSUME CoreInv, CacheInv, [Next]_vars
    PROVE  CacheInv'
<1>1. ASSUME NEW c \in Calls, VerifyAndSettle(c)
      PROVE  CacheInv'
  <2>1. call[c].at # "posting" /\ Goto(c, "posting") /\ call \in [Calls -> Call] /\ call[c] \in Call
    BY <1>1 DEF VerifyAndSettle, CoreInv, CoreTypeOK
  <2>2. call'[c].at = "posting" /\ \A d \in Calls \ {c} : call'[d] = call[d]
    BY <2>1 DEF Goto, Call
  <2>. QED  BY <1>1, <2>1, <2>2, SettleEntry, CachePost
<1>2. ASSUME NEW c \in Calls, NEW a \in Agents, RefillAgent(c, a)
      PROVE  CacheInv'
  <2>1. call[c].at # "posting" /\ call \in [Calls -> Call] /\ call[c] \in Call
    BY <1>2 DEF RefillAgent, CoreInv, CoreTypeOK
  <2>2. call'[c].at = "posting" /\ \A d \in Calls \ {c} : call'[d] = call[d]
    BY <1>2, <2>1 DEF RefillAgent, Call
  <2>. QED  BY <1>2, <2>1, <2>2, RefillEntry, CachePost
<1>3. ASSUME NEW c \in Calls, CommitFails(c) \/ (Dropped(c) /\ call[c].at = "posting")
      PROVE  CacheInv'
  <2>1. LoseCommit(c) /\ \A d \in Calls \ {c} : call'[d] = call[d]
    BY <1>3 DEF CommitFails, Dropped, Goto, End, CoreInv, CoreTypeOK
  <2>. QED  BY <2>1, CacheLoses
<1>4. CASE InvoiceStep \/ UNCHANGED vars
  BY <1>4, CacheUntouched DEF InvoiceStep, CreateInvoice, Lapse, ExpireStale, vars, ledgerVars
<1>. QED  BY <1>1, <1>2, <1>3, <1>4, CacheOtherSteps, CacheApplies, CacheRestarts
          DEF Next, SweepStep, SettleStep

\* The cache is "kept in sync via the engine's `apply` path", while the commits
\* and the cache updates of concurrent calls interleave in any order: a cached
\* balance is the one of the table less what is still on its way, unless the cache
\* has refused a leg or a call was cut off between its COMMIT and the cache.
THEOREM CacheStaysCoherent == Spec => []CacheCoherent
<1>1. Init => CacheInv
  BY CacheInvInit
<1>2. CoreInv /\ CacheInv /\ [Next]_vars => CacheInv'
  BY CacheInvNext
<1>3. CacheInv => CacheCoherent
  BY DEF CacheInv
<1>. QED  BY <1>1, <1>2, <1>3, CoreInvariant, PTL DEF Spec
-----------------------------------------------------------------------------
(* The records of refills *)

\* What a call at one of some steps has still to add to a record of agent a.
Share(steps, k, a) == IF k.at \in steps /\ k.subject = a THEN k.amount ELSE 0
Shares(steps, calls, a) == Total([c \in Calls |-> Share(steps, calls[c], a)], Calls)

BeforeRow == {"posting", "agent"}
BeforeHistory == {"history"}

\* Each record, with what calls are about to add to it, is covered by the one
\* that is written before it.
RecordsAreCovered ==
    \A a \in Agents :
        /\ refills[a] + Shares(BeforeHistory, call, a) <= agents[a].daily
        /\ agents[a].daily + Shares(BeforeRow, call, a) <= Refilled(journal, a)

RefillInv == refills \in [Agents -> Nat] /\ RecordsAreCovered

\* At most call c differs.
OnlyCall(k, l, c) ==
    /\ k \in [Calls -> Call] /\ l \in [Calls -> Call] /\ c \in Calls
    /\ \A d \in Calls \ {c} : l[d] = k[d]

\* The shares of calls are amounts of money; only the one of call c changes.
LEMMA SharesChange ==
    ASSUME NEW k, NEW l, NEW c, OnlyCall(k, l, c), NEW steps, NEW a
    PROVE  /\ Shares(steps, k, a) \in Nat
           /\ Share(steps, k[c], a) \in Nat /\ Share(steps, l[c], a) \in Nat
           /\ Shares(steps, l, a) = Shares(steps, k, a) - Share(steps, k[c], a)
                                      + Share(steps, l[c], a)
<1>. DEFINE f == [d \in Calls |-> Share(steps, k[d], a)]
            e == [d \in Calls |-> Share(steps, l[d], a)]
<1>0. /\ k \in [Calls -> Call] /\ l \in [Calls -> Call] /\ c \in Calls
      /\ \A d \in Calls \ {c} : l[d] = k[d]
  BY DEF OnlyCall
<1>1. \A d \in Calls : Share(steps, k[d], a) \in Nat /\ Share(steps, l[d], a) \in Nat
  BY <1>0 DEF Share, Call
<1>2. /\ \A d \in Calls : f[d] = Share(steps, k[d], a) /\ f[d] \in Nat
      /\ \A d \in Calls : e[d] = Share(steps, l[d], a) /\ e[d] \in Nat
      /\ \A d \in Calls \ {c} : e[d] = f[d]
  BY <1>0, <1>1
<1>3. Shares(steps, k, a) = Total(f, Calls) /\ Shares(steps, l, a) = Total(e, Calls)
  BY DEF Shares
<1>. HIDE DEF e, f
<1>4. Total(f, Calls) \in Nat
  <2>1. IsFiniteSet(Calls) /\ \A d \in Calls : f[d] \in Nat
    BY <1>2, CallsAreFinite
  <2>. QED  BY <2>1, TotalNat
<1>5. DiffersAt(f, e, Calls, c) /\ IsFiniteSet(Calls)
  BY <1>0, <1>2, CallsAreFinite DEF DiffersAt
<1>6. Total(e, Calls) = Total(f, Calls) - f[c] + e[c]
  BY <1>5, TotalChange
<1>. QED  BY <1>0, <1>2, <1>3, <1>4, <1>6

\* All shares together are an amount of money.
LEMMA SharesNat ==
    ASSUME NEW k \in [Calls -> Call], NEW steps, NEW a
    PROVE  Shares(steps, k, a) \in Nat
<1>. DEFINE f == [d \in Calls |-> Share(steps, k[d], a)]
<1>1. \A d \in Calls : f[d] \in Nat
  BY DEF Share, Call
<1>2. Shares(steps, k, a) = Total(f, Calls)
  BY DEF Shares
<1>. HIDE DEF f
<1>. QED  BY <1>1, <1>2, CallsAreFinite, TotalNat

\* No call has anything to add.
LEMMA NoShares ==
    ASSUME NEW k, \A c \in Calls : k[c].at = "idle", NEW steps \in {BeforeRow, BeforeHistory},
           NEW a
    PROVE  Shares(steps, k, a) = 0
<1>. DEFINE f == [c \in Calls |-> Share(steps, k[c], a)]
<1>1. \A c \in Calls : f[c] = 0
  BY DEF Share, BeforeRow, BeforeHistory
<1>2. Shares(steps, k, a) = Total(f, Calls)
  BY DEF Shares
<1>. HIDE DEF f
<1>. QED  BY <1>1, <1>2, CallsAreFinite, TotalZero

\* What journal entries moved adds up like any sum.
LEMMA RefilledIsTotal ==
    ASSUME NEW r, NEW a, NEW S, S = {n \in 1..Len(r) : r[n].reference = a}, IsFiniteSet(S),
           NEW f, \A n \in S : f[n] = r[n].amount /\ f[n] \in Int
    PROVE  Refilled(r, a) = Total(f, S)
<1>. DEFINE P(g) == g = [s \in SUBSET S |->
                          IF s = {} THEN 0
                          ELSE r[CHOOSE x \in s : TRUE].amount + g[s \ {CHOOSE x \in s : TRUE}]]
            k == CHOOSE g : P(g)
<1>1. ASSUME NEW g PROVE P(g) <=> AddsUp(g, f, S)
  <2>1. \A s \in SUBSET S : s # {} => f[First(s)] = r[First(s)].amount
    BY FirstIsIn
  <2>2. [s \in SUBSET S |-> IF s = {} THEN 0 ELSE r[First(s)].amount + g[s \ {First(s)}]]
        = [s \in SUBSET S |-> IF s = {} THEN 0 ELSE f[First(s)] + g[s \ {First(s)}]]
    BY <2>1
  <2>. QED  BY <2>2 DEF AddsUp, First
<1>2. P(k)
  <2>1. PICK g : AddsUp(g, f, S)
    BY SumExists
  <2>. HIDE DEF P
  <2>. QED  BY <1>1, <2>1
<1>3. Refilled(r, a) = k[S]
  BY DEF Refilled, MapThenSumSet, MapThenFoldSet
<1>. HIDE DEF k, P
<1>4. SumOf(k, f, S)
  BY <1>1, <1>2 DEF SumOf
<1>5. PICK g : SumOf(g, f, S) /\ Total(f, S) = g[S]
  BY TotalIsSum
<1>. QED  BY <1>3, <1>4, <1>5, SumAgrees

\* It is an amount of money.
LEMMA RefilledNat ==
    ASSUME NEW r \in Seq(Entry), NEW a
    PROVE  Refilled(r, a) \in Nat
<1>. DEFINE Mine == {m \in 1..Len(r) : r[m].reference = a}
            f == [m \in 1..Len(r) |-> r[m].amount]
<1>1. Len(r) \in Nat /\ \A m \in 1..Len(r) : r[m] \in Entry
  OBVIOUS
<1>2. \A m \in Mine : f[m] = r[m].amount /\ f[m] \in Nat
  BY <1>1 DEF Entry
<1>3. IsFiniteSet(Mine)
  <2>1. IsFiniteSet(1..Len(r)) /\ Mine \subseteq 1..Len(r)
    BY <1>1, PositionsFinite
  <2>. HIDE DEF Mine
  <2>. QED  BY <2>1, FS_Subset
<1>. HIDE DEF f
<1>4. Refilled(r, a) = Total(f, Mine)
  BY <1>2, <1>3, RefilledIsTotal
<1>. HIDE DEF Mine
<1>. QED  BY <1>2, <1>3, <1>4, TotalNat

\* A new entry adds its amount to what its reference was moved.
LEMMA EntryAdded ==
    ASSUME NEW r \in Seq(Entry), NEW e \in Entry, NEW a
    PROVE  /\ Refilled(r, a) \in Nat
           /\ Refilled(Append(r, e), a)
                = Refilled(r, a) + IF e.reference = a THEN e.amount ELSE 0
<1>. DEFINE q == Append(r, e)
            n == Len(r) + 1
            Mine == {m \in 1..Len(r) : r[m].reference = a}
            More == {m \in 1..Len(q) : q[m].reference = a}
            f == [m \in 1..Len(q) |-> q[m].amount]
<1>1. /\ Len(r) \in Nat /\ Len(q) = n /\ q[n] = e
      /\ \A m \in 1..Len(r) : q[m] = r[m]
  OBVIOUS
<1>2. \A m \in 1..n : q[m] \in Entry /\ q[m].amount \in Nat
  <2>1. \A m \in 1..n : q[m] \in Entry
    BY <1>1
  <2>. HIDE DEF q
  <2>. QED  BY <2>1 DEF Entry
<1>. HIDE DEF q
<1>3. /\ \A m \in More : f[m] = q[m].amount /\ f[m] \in Nat
      /\ \A m \in Mine : f[m] = r[m].amount /\ f[m] \in Nat
      /\ f[n] = e.amount /\ f[n] \in Nat
      /\ n \notin Mine
  BY <1>1, <1>2
<1>4. More = IF e.reference = a THEN Mine \cup {n} ELSE Mine
  BY <1>1
<1>5. IsFiniteSet(Mine) /\ IsFiniteSet(More)
  <2>1. IsFiniteSet(1..Len(r)) /\ IsFiniteSet(1..Len(q)) /\ Mine \subseteq 1..Len(r)
        /\ More \subseteq 1..Len(q)
    BY <1>1, PositionsFinite
  <2>. HIDE DEF Mine, More
  <2>. QED  BY <2>1, FS_Subset
<1>. HIDE DEF f, n
<1>6. Refilled(q, a) = Total(f, More)
  BY <1>3, <1>5, RefilledIsTotal
<1>7. Refilled(r, a) = Total(f, Mine)
  BY <1>3, <1>5, RefilledIsTotal
<1>. HIDE DEF Mine, More
<1>8. Total(f, Mine) \in Nat
  BY <1>3, <1>5, TotalNat
<1>9. Total(f, Mine \cup {n}) = Total(f, Mine) + f[n]
  <2>1. /\ IsFiniteSet(Mine) /\ n \notin Mine /\ f[n] \in Int
        /\ \A m \in Mine : f[m] \in Int
    BY <1>3, <1>5
  <2>. QED  BY <2>1, TotalAdd
<1>. QED  BY <1>3, <1>4, <1>6, <1>7, <1>8, <1>9 DEF q

\* A step of one call that keeps every record covered.
LEMMA RecordsStep ==
    ASSUME CoreInv, CoreInv', RefillInv, NEW c \in Calls,
           \A d \in Calls \ {c} : call'[d] = call[d], refills' \in [Agents -> Nat],
           \A a \in Agents :
              /\ refills'[a] + Share(BeforeHistory, call'[c], a) + agents[a].daily
                   <= refills[a] + Share(BeforeHistory, call[c], a) + agents'[a].daily
              /\ agents'[a].daily + Share(BeforeRow, call'[c], a) + Refilled(journal, a)
                   <= agents[a].daily + Share(BeforeRow, call[c], a) + Refilled(journal', a),
           \A a \in Agents : Refilled(journal, a) \in Nat /\ Refilled(journal', a) \in Nat
    PROVE  RefillInv'
<1>1. /\ call \in [Calls -> Call] /\ call' \in [Calls -> Call]
      /\ agents \in [Agents -> AgentRow] /\ agents' \in [Agents -> AgentRow]
      /\ refills \in [Agents -> Nat]
      /\ OnlyCall(call, call', c)
  BY DEF CoreInv, CoreTypeOK, RefillInv, OnlyCall
<1>2. ASSUME NEW a \in Agents
      PROVE  /\ refills'[a] + Shares(BeforeHistory, call', a) <= agents'[a].daily
             /\ agents'[a].daily + Shares(BeforeRow, call', a) <= Refilled(journal', a)
  <2>. DEFINE h == Shares(BeforeHistory, call, a)
              hh == Shares(BeforeHistory, call', a)
              s == Shares(BeforeRow, call, a)
              ss == Shares(BeforeRow, call', a)
  <2>1. /\ h \in Nat /\ Share(BeforeHistory, call[c], a) \in Nat
        /\ Share(BeforeHistory, call'[c], a) \in Nat
        /\ hh = h - Share(BeforeHistory, call[c], a) + Share(BeforeHistory, call'[c], a)
    BY <1>1, SharesChange
  <2>2. /\ s \in Nat /\ Share(BeforeRow, call[c], a) \in Nat
        /\ Share(BeforeRow, call'[c], a) \in Nat
        /\ ss = s - Share(BeforeRow, call[c], a) + Share(BeforeRow, call'[c], a)
    BY <1>1, SharesChange
  <2>3. refills[a] + h <= agents[a].daily /\ agents[a].daily + s <= Refilled(journal, a)
    BY DEF RefillInv, RecordsAreCovered
  <2>4. /\ refills[a] \in Nat /\ refills'[a] \in Nat /\ agents[a].daily \in Nat
        /\ agents'[a].daily \in Nat /\ Refilled(journal, a) \in Nat
        /\ Refilled(journal', a) \in Nat
    BY <1>1 DEF AgentRow
  <2>5. /\ refills'[a] + Share(BeforeHistory, call'[c], a) + agents[a].daily
             <= refills[a] + Share(BeforeHistory, call[c], a) + agents'[a].daily
        /\ agents'[a].daily + Share(BeforeRow, call'[c], a) + Refilled(journal, a)
             <= agents[a].daily + Share(BeforeRow, call[c], a) + Refilled(journal', a)
    OBVIOUS
  <2>. HIDE DEF h, hh, s, ss
  <2>6. refills'[a] + hh <= agents'[a].daily
    BY <2>1, <2>3, <2>4, <2>5
  <2>7. agents'[a].daily + ss <= Refilled(journal', a)
    BY <2>2, <2>3, <2>4, <2>5
  <2>. QED  BY <2>6, <2>7 DEF hh, ss
<1>3. RecordsAreCovered'
  BY <1>2 DEF RecordsAreCovered
<1>. QED  BY <1>3 DEF RefillInv
\* Records and journal stay, and what the call has still to add does not grow.
LEMMA RecordsStay ==
    ASSUME CoreInv, CoreInv', RefillInv, NEW c \in Calls,
           \A d \in Calls \ {c} : call'[d] = call[d],
           UNCHANGED <<journal, agents, refills>>,
           \/ call'[c].at \notin BeforeRow \cup BeforeHistory
           \/ /\ call[c].at \in BeforeRow /\ call'[c].at \in BeforeRow
              /\ call'[c].subject = call[c].subject /\ call'[c].amount = call[c].amount
    PROVE  RefillInv'
<1>1. /\ call[c] \in Call /\ call'[c] \in Call /\ journal \in Seq(Entry)
      /\ agents \in [Agents -> AgentRow] /\ refills \in [Agents -> Nat]
  BY DEF CoreInv, CoreTypeOK, RefillInv
<1>2. ASSUME NEW a \in Agents
      PROVE  /\ Share(BeforeHistory, call'[c], a) <= Share(BeforeHistory, call[c], a)
             /\ Share(BeforeRow, call'[c], a) <= Share(BeforeRow, call[c], a)
             /\ \A s : Share(s, call'[c], a) \in Nat /\ Share(s, call[c], a) \in Nat
  BY <1>1 DEF Share, Call, BeforeRow, BeforeHistory
<1>3. ASSUME NEW a \in Agents
      PROVE  refills[a] \in Nat /\ agents[a].daily \in Nat /\ Refilled(journal, a) \in Nat
  BY <1>1, RefilledNat DEF AgentRow
<1>4. ASSUME NEW a \in Agents
      PROVE  /\ refills'[a] + Share(BeforeHistory, call'[c], a) + agents[a].daily
                  <= refills[a] + Share(BeforeHistory, call[c], a) + agents'[a].daily
             /\ agents'[a].daily + Share(BeforeRow, call'[c], a) + Refilled(journal, a)
                  <= agents[a].daily + Share(BeforeRow, call[c], a) + Refilled(journal', a)
  BY <1>2, <1>3
<1>. QED  BY <1>1, <1>3, <1>4, RecordsStep

\* A submit: the journal is ahead of the records by the amount of its entry.
LEMMA RecordsPost ==
    ASSUME CoreInv, CoreInv', RefillInv, NEW c \in Calls, NEW e \in Entry, Commit(c, e),
           \A d \in Calls \ {c} : call'[d] = call[d], UNCHANGED <<agents, refills>>,
           call'[c].at = "posting", call'[c].subject = e.reference, call'[c].amount = e.amount
    PROVE  RefillInv'
<1>1. /\ call[c] \in Call /\ call'[c] \in Call /\ journal \in Seq(Entry)
      /\ agents \in [Agents -> AgentRow] /\ refills \in [Agents -> Nat]
      /\ journal' = Append(journal, e) /\ e.amount \in Nat
  BY DEF CoreInv, CoreTypeOK, RefillInv, Commit, Entry
<1>2. ASSUME NEW a \in Agents
      PROVE  /\ refills[a] \in Nat /\ agents[a].daily \in Nat /\ Refilled(journal, a) \in Nat
             /\ Refilled(journal', a)
                  = Refilled(journal, a) + IF e.reference = a THEN e.amount ELSE 0
             /\ Refilled(journal', a) \in Nat
  <2>1. /\ refills[a] \in Nat /\ agents[a].daily \in Nat
    BY <1>1 DEF AgentRow
  <2>2. /\ Refilled(journal, a) \in Nat
        /\ Refilled(Append(journal, e), a)
             = Refilled(journal, a) + IF e.reference = a THEN e.amount ELSE 0
    BY <1>1, EntryAdded
  <2>. QED  BY <1>1, <2>1, <2>2
<1>3. ASSUME NEW a \in Agents
      PROVE  /\ Share(BeforeHistory, call'[c], a) = 0 /\ Share(BeforeHistory, call[c], a) \in Nat
             /\ Share(BeforeRow, call'[c], a) = IF e.reference = a THEN e.amount ELSE 0
             /\ Share(BeforeRow, call[c], a) \in Nat
  BY <1>1 DEF Share, Call, BeforeRow, BeforeHistory
<1>4. ASSUME NEW a \in Agents
      PROVE  /\ refills'[a] + Share(BeforeHistory, call'[c], a) + agents[a].daily
                  <= refills[a] + Share(BeforeHistory, call[c], a) + agents'[a].daily
             /\ agents'[a].daily + Share(BeforeRow, call'[c], a) + Refilled(journal, a)
                  <= agents[a].daily + Share(BeforeRow, call[c], a) + Refilled(journal', a)
  <2>. DEFINE n == IF e.reference = a THEN e.amount ELSE 0
  <2>1. /\ n \in Nat /\ refills'[a] = refills[a] /\ agents'[a].daily = agents[a].daily
        /\ Refilled(journal', a) = Refilled(journal, a) + n
        /\ Share(BeforeRow, call'[c], a) = n
    BY <1>1, <1>2, <1>3
  <2>. HIDE DEF n
  <2>. QED  BY <1>2, <1>3, <2>1
<1>. QED  BY <1>1, <1>2, <1>4, RecordsStep

\* The UPDATE of the agent's row.
LEMMA RowRecorded ==
    ASSUME CoreInv, CoreInv', RefillInv, NEW c \in Calls, UpdateAgent(c)
    PROVE  RefillInv'
<1>. DEFINE a == call[c].subject
            n == call[c].amount
<1>1. /\ call \in [Calls -> Call] /\ call[c] \in Call /\ journal \in Seq(Entry)
      /\ agents \in [Agents -> AgentRow] /\ refills \in [Agents -> Nat]
      /\ call[c].at = "agent" /\ a \in Agents /\ n \in Nat
  BY DEF CoreInv, CoreTypeOK, CallsAreSound, Sound, RefillInv, UpdateAgent, Call
<1>2. /\ agents' = [agents EXCEPT ![a].balance = @ + n, ![a].daily = @ + n]
      /\ UNCHANGED <<journal, refills>> /\ Goto(c, "history")
  BY DEF UpdateAgent, ledgerVars
<1>3. /\ call'[c].at = "history" /\ call'[c].subject = a /\ call'[c].amount = n
      /\ \A d \in Calls \ {c} : call'[d] = call[d]
  BY <1>1, <1>2 DEF Goto, Call
<1>4. \A b \in Agents : agents'[b].daily = agents[b].daily + IF b = a THEN n ELSE 0
  BY <1>1, <1>2 DEF AgentRow
<1>5. ASSUME NEW b \in Agents
      PROVE  refills[b] \in Nat /\ agents[b].daily \in Nat /\ Refilled(journal, b) \in Nat
  BY <1>1, RefilledNat DEF AgentRow
<1>6. ASSUME NEW b \in Agents
      PROVE  /\ Share(BeforeHistory, call'[c], b) = IF b = a THEN n ELSE 0
             /\ Share(BeforeHistory, call[c], b) = 0
             /\ Share(BeforeRow, call'[c], b) = 0
             /\ Share(BeforeRow, call[c], b) = IF b = a THEN n ELSE 0
  BY <1>1, <1>3 DEF Share, BeforeRow, BeforeHistory
<1>. HIDE DEF a, n
<1>7. ASSUME NEW b \in Agents
      PROVE  /\ refills'[b] + Share(BeforeHistory, call'[c], b) + agents[b].daily
                  <= refills[b] + Share(BeforeHistory, call[c], b) + agents'[b].daily
             /\ agents'[b].daily + Share(BeforeRow, call'[c], b) + Refilled(journal, b)
                  <= agents[b].daily + Share(BeforeRow, call[c], b) + Refilled(journal', b)
  BY <1>1, <1>2, <1>4, <1>5, <1>6
<1>. QED  BY <1>1, <1>2, <1>3, <1>5, <1>7, RecordsStep

\* The INSERT into the history.
LEMMA HistoryRecorded ==
    ASSUME CoreInv, CoreInv', RefillInv, NEW c \in Calls, RecordRefill(c)
    PROVE  RefillInv'
<1>. DEFINE a == call[c].subject
            n == call[c].amount
<1>1. /\ call \in [Calls -> Call] /\ call[c] \in Call /\ journal \in Seq(Entry)
      /\ agents \in [Agents -> AgentRow] /\ refills \in [Agents -> Nat]
      /\ call[c].at = "history" /\ a \in Agents /\ n \in Nat
  BY DEF CoreInv, CoreTypeOK, CallsAreSound, Sound, RefillInv, RecordRefill, Call
<1>2. /\ refills' = [refills EXCEPT ![a] = @ + n]
      /\ UNCHANGED <<journal, agents>> /\ Goto(c, "next")
  BY DEF RecordRefill, ledgerVars
<1>3. /\ call'[c].at = "next" /\ \A d \in Calls \ {c} : call'[d] = call[d]
  BY <1>1, <1>2 DEF Goto, Call
<1>4. /\ refills' \in [Agents -> Nat]
      /\ \A b \in Agents : refills'[b] = refills[b] + IF b = a THEN n ELSE 0
  BY <1>1, <1>2
<1>5. ASSUME NEW b \in Agents
      PROVE  refills[b] \in Nat /\ agents[b].daily \in Nat /\ Refilled(journal, b) \in Nat
  BY <1>1, RefilledNat DEF AgentRow
<1>6. ASSUME NEW b \in Agents
      PROVE  /\ Share(BeforeHistory, call'[c], b) = 0
             /\ Share(BeforeHistory, call[c], b) = IF b = a THEN n ELSE 0
             /\ Share(BeforeRow, call'[c], b) = 0 /\ Share(BeforeRow, call[c], b) = 0
  BY <1>1, <1>3 DEF Share, BeforeRow, BeforeHistory
<1>. HIDE DEF a, n
<1>7. ASSUME NEW b \in Agents
      PROVE  /\ refills'[b] + Share(BeforeHistory, call'[c], b) + agents[b].daily
                  <= refills[b] + Share(BeforeHistory, call[c], b) + agents'[b].daily
             /\ agents'[b].daily + Share(BeforeRow, call'[c], b) + Refilled(journal, b)
                  <= agents[b].daily + Share(BeforeRow, call[c], b) + Refilled(journal', b)
  BY <1>1, <1>2, <1>4, <1>5, <1>6
<1>. QED  BY <1>2, <1>3, <1>4, <1>5, <1>7, RecordsStep

\* Any other step of a call.
LEMMA RecordsOtherSteps ==
    ASSUME CoreInv, CoreInv', RefillInv, NEW c \in Calls,
           \/ StartSweep(c) \/ (\E a \in Agents : SkipAgent(c, a))
           \/ RefillFails(c) \/ EndSweep(c)
           \/ (\E i \in Invoices, payer \in Accounts : GetInvoice(c, i, payer))
           \/ MarkPaid(c) \/ Issue(c) \/ SettlementFails(c)
           \/ Applied(c) \/ CommitFails(c) \/ Dropped(c)
    PROVE  RefillInv'
<1>0. call \in [Calls -> Call] /\ call[c] \in Call
  BY DEF CoreInv, CoreTypeOK
<1>1. UNCHANGED <<journal, agents, refills>> /\ \A d \in Calls \ {c} : call'[d] = call[d]
  BY <1>0 DEF StartSweep, SkipAgent, RefillFails, EndSweep, GetInvoice, MarkPaid, Issue,
         SettlementFails, Applied, ApplyDelta, CommitFails, Dropped, LoseCommit, Goto, End,
         ledgerVars, coreVars
<1>2. CASE Applied(c)
  <2>. DEFINE at == IF posting'[c] # << >> THEN "posting"
                    ELSE IF call[c].subject \in Agents THEN "agent" ELSE "mark"
  <2>1. Goto(c, at) /\ at \in {"posting", "agent", "mark"} /\ call[c].at = "posting"
    BY <1>2 DEF Applied
  <2>. HIDE DEF at
  <2>2. /\ call'[c].at = at /\ call'[c].subject = call[c].subject
        /\ call'[c].amount = call[c].amount
    BY <1>0, <2>1 DEF Goto, Call
  <2>3. \/ call'[c].at \notin BeforeRow \cup BeforeHistory
        \/ call[c].at \in BeforeRow /\ call'[c].at \in BeforeRow
    BY <2>1, <2>2 DEF BeforeRow, BeforeHistory
  <2>. QED  BY <1>1, <2>2, <2>3, RecordsStay
<1>3. CASE ~Applied(c)
  <2>1. call'[c].at \in {"next", "idle", "settle", "issue"}
    <3>1. CASE \E a \in Agents : SkipAgent(c, a)
      BY <1>0, <3>1 DEF SkipAgent, Call
    <3>2. CASE \E i \in Invoices, payer \in Accounts : GetInvoice(c, i, payer)
      <4>1. PICK i \in Invoices, payer \in Accounts : GetInvoice(c, i, payer)
        BY <3>2
      <4>. DEFINE new == [call[c] EXCEPT !.at = "settle", !.subject = i, !.amount = Price[i],
                                         !.payer = payer]
      <4>2. call' = [call EXCEPT ![c] = new]
        BY <1>0, <4>1 DEF GetInvoice, Call
      <4>3. new.at = "settle"
        BY <1>0 DEF Call
      <4>. HIDE DEF new
      <4>. QED  BY <1>0, <4>2, <4>3
    <3>3. CASE StartSweep(c) \/ RefillFails(c) \/ MarkPaid(c)
      BY <1>0, <3>3 DEF StartSweep, RefillFails, MarkPaid, Goto, Call
    <3>4. CASE EndSweep(c) \/ Issue(c) \/ SettlementFails(c) \/ CommitFails(c) \/ Dropped(c)
      <4>1. Goto(c, "next") \/ End(c)
        BY <3>4 DEF EndSweep, Issue, SettlementFails, CommitFails, Dropped
      <4>. QED  BY <1>0, <4>1 DEF Goto, End, Idle, Call
    <3>. QED  BY <1>3, <3>1, <3>2, <3>3, <3>4
  <2>2. call'[c].at \notin BeforeRow \cup BeforeHistory
    BY <2>1 DEF BeforeRow, BeforeHistory
  <2>. QED  BY <1>1, <2>2, RecordsStay
<1>. QED  BY <1>2, <1>3

\* The invariant of the refills holds at the start.
LEMMA RefillInvInit ==
    ASSUME Init
    PROVE  RefillInv
<1>1. /\ refills = [a \in Agents |-> 0] /\ journal = << >>
      /\ \A a \in Agents : agents[a].daily = 0
      /\ \A c \in Calls : call[c].at = "idle"
  BY DEF Init, LedgerInit, Idle
<1>2. << >> \in Seq(Entry)
  OBVIOUS
<1>3. ASSUME NEW a \in Agents
      PROVE  /\ Shares(BeforeHistory, call, a) = 0 /\ Shares(BeforeRow, call, a) = 0
             /\ Refilled(journal, a) \in Nat
  BY <1>1, <1>2, NoShares, RefilledNat
<1>. QED  BY <1>1, <1>3 DEF RefillInv, RecordsAreCovered

\* Every step keeps the invariant of the refills.
LEMMA RefillInvNext ==
    ASSUME CoreInv, RefillInv, [Next]_vars
    PROVE  RefillInv'
<1>. USE CoreInvNext
<1>1. ASSUME NEW c \in Calls, VerifyAndSettle(c)
      PROVE  RefillInv'
  <2>. DEFINE e == Transfer(call[c].payer, Payee, call[c].amount, call[c].subject)
  <2>1. /\ e \in Entry /\ Commit(c, e) /\ e.reference = call[c].subject
        /\ e.amount = call[c].amount
    BY <1>1, SettleEntry DEF Transfer
  <2>2. /\ call \in [Calls -> Call] /\ call[c] \in Call /\ Goto(c, "posting")
        /\ UNCHANGED <<agents, refills>>
    BY <1>1 DEF VerifyAndSettle, CoreInv, CoreTypeOK, coreVars
  <2>. HIDE DEF e
  <2>3. /\ call'[c].at = "posting" /\ call'[c].subject = e.reference
        /\ call'[c].amount = e.amount /\ \A d \in Calls \ {c} : call'[d] = call[d]
    BY <2>1, <2>2 DEF Goto, Call
  <2>. QED  BY <2>1, <2>2, <2>3, RecordsPost
<1>2. ASSUME NEW c \in Calls, NEW a \in Agents, RefillAgent(c, a)
      PROVE  RefillInv'
  <2>. DEFINE amount == RefillAmount(call[c].todo[a])
              e == Transfer(Master, AccountOf[a], amount, a)
  <2>1. /\ e \in Entry /\ Commit(c, e) /\ e.reference = a /\ e.amount = amount
    BY <1>2, RefillEntry DEF Transfer
  <2>2. /\ call \in [Calls -> Call] /\ call[c] \in Call
        /\ call' = [call EXCEPT ![c].at = "posting", ![c].todo[a] = NoRow,
                                ![c].subject = a, ![c].amount = amount]
        /\ UNCHANGED <<agents, refills>>
    BY <1>2 DEF RefillAgent, CoreInv, CoreTypeOK, coreVars
  <2>. HIDE DEF e, amount
  <2>3. /\ call'[c].at = "posting" /\ call'[c].subject = e.reference
        /\ call'[c].amount = e.amount /\ \A d \in Calls \ {c} : call'[d] = call[d]
    BY <2>1, <2>2 DEF Call
  <2>. QED  BY <2>1, <2>2, <2>3, RecordsPost
<1>3. CASE InvoiceStep \/ UNCHANGED vars
  BY <1>3 DEF InvoiceStep, CreateInvoice, Lapse, ExpireStale, vars, ledgerVars, coreVars,
              RefillInv, RecordsAreCovered
<1>4. CASE Restart
  <2>1. /\ UNCHANGED <<journal, agents, refills>>
        /\ \A c \in Calls : call'[c].at = "idle"
    BY <1>4 DEF Restart, RestartLedger, coreVars, Idle
  <2>2. ASSUME NEW a \in Agents
        PROVE  /\ refills'[a] + Shares(BeforeHistory, call', a) <= agents'[a].daily
               /\ agents'[a].daily + Shares(BeforeRow, call', a) <= Refilled(journal', a)
    <3>1. Shares(BeforeHistory, call', a) = 0 /\ Shares(BeforeRow, call', a) = 0
      BY <2>1, NoShares
    <3>2. /\ refills[a] + Shares(BeforeHistory, call, a) <= agents[a].daily
          /\ agents[a].daily + Shares(BeforeRow, call, a) <= Refilled(journal, a)
      BY DEF RefillInv, RecordsAreCovered
    <3>3. /\ call \in [Calls -> Call] /\ journal \in Seq(Entry)
          /\ refills[a] \in Nat /\ agents[a].daily \in Nat
      BY DEF CoreInv, CoreTypeOK, RefillInv, AgentRow
    <3>4. Shares(BeforeHistory, call, a) \in Nat /\ Shares(BeforeRow, call, a) \in Nat
      BY <3>3, SharesNat
    <3>5. Refilled(journal, a) \in Nat
      BY <3>3, RefilledNat
    <3>. QED  BY <2>1, <3>1, <3>2, <3>3, <3>4, <3>5
  <2>3. RecordsAreCovered'
    BY <2>2 DEF RecordsAreCovered
  <2>. QED  BY <2>1, <2>3 DEF RefillInv
<1>. QED  BY <1>1, <1>2, <1>3, <1>4, RowRecorded, HistoryRecorded, RecordsOtherSteps
          DEF Next, SweepStep, SettleStep

\* submit, the UPDATE of the agent's row and the INSERT into the history are
\* three statements of their own, and sweeps overlap: wherever a refill fails, is
\* dropped or is cut off, the history claims no more than the rows, and the rows
\* no more than the journal moved.
THEOREM RefillsStayJournaled == Spec => []RefillsAreJournaled
<1>1. Init => RefillInv
  BY RefillInvInit
<1>2. CoreInv /\ RefillInv /\ [Next]_vars => RefillInv'
  BY RefillInvNext
<1>3. CoreInv /\ RefillInv => RefillsAreJournaled
  <2>. SUFFICES ASSUME CoreInv, RefillInv, NEW a \in Agents
                PROVE  refills[a] <= agents[a].daily /\ agents[a].daily <= Refilled(journal, a)
    BY DEF RefillsAreJournaled
  <2>1. /\ refills[a] + Shares(BeforeHistory, call, a) <= agents[a].daily
        /\ agents[a].daily + Shares(BeforeRow, call, a) <= Refilled(journal, a)
    BY DEF RefillInv, RecordsAreCovered
  <2>2. /\ call \in [Calls -> Call] /\ journal \in Seq(Entry)
        /\ refills[a] \in Nat /\ agents[a].daily \in Nat
    BY DEF CoreInv, CoreTypeOK, RefillInv, AgentRow
  <2>3. Shares(BeforeHistory, call, a) \in Nat /\ Shares(BeforeRow, call, a) \in Nat
    BY <2>2, SharesNat
  <2>4. Refilled(journal, a) \in Nat
    BY <2>2, RefilledNat
  <2>. QED  BY <2>1, <2>2, <2>3, <2>4
<1>. QED  BY <1>1, <1>2, <1>3, CoreInvariant, PTL DEF Spec
=============================================================================
