----------------------------- MODULE Contracts ------------------------------
(***************************************************************************)
(* VaultRegistry.sol: the registry of deployed contracts keeps its entries *)
(* in a mapping and, for enumeration, their labels in an array.  Every     *)
(* write is a transaction of the owner, and one that reverts changes       *)
(* nothing; addresses, types and chain ids are left out.                   *)
(*                                                                         *)
(* UnyKornLPManager.sol: the contract that holds the liquidity of the      *)
(* operator in the bins of a pool, and its list of positions.  The         *)
(* tokens of a bin are one balance of the contract, whatever position they *)
(* came from; the list only says which bins a position has.  Every call is *)
(* a transaction of the owner, and one that reverts changes nothing.       *)
(*                                                                         *)
(* Router and pair are external.  A deposit puts one unit into each of its *)
(* bins; of the two tokens of a pool UNY is kept, and AVAX where the       *)
(* router gives it back.  Prices and slippage limits are left out: they    *)
(* only make a call revert.                                                *)
(***************************************************************************)
EXTENDS Naturals, SequencesExt

(* The registry *)

CONSTANTS
    Labels,   \* labels, by their keccak256
    Uris      \* metadata URIs

VARIABLES
    entries,  \* _entries: label -> Entry
    labels    \* _labels
registryVars == <<entries, labels>>

\* Entry; added is addedAt # 0.
Blank == [added |-> FALSE, verified |-> FALSE, uri |-> {}]

RegistryInit ==
    /\ entries = [l \in Labels |-> Blank]
    /\ labels = << >>

AddEntry(l, uri) ==
    /\ ~entries[l].added
    /\ entries' = [entries EXCEPT ![l] = [added |-> TRUE, verified |-> FALSE, uri |-> {uri}]]
    /\ labels' = Append(labels, l)

VerifyEntry(l) ==
    /\ entries[l].added
    /\ entries' = [entries EXCEPT ![l].verified = TRUE]
    /\ UNCHANGED labels

UpdateMetadata(l, uri) ==
    /\ entries[l].added
    /\ entries' = [entries EXCEPT ![l].uri = {uri}]
    /\ UNCHANGED labels

\* Mutant of Spliced: the last label is popped without taking the free place.
Popped(l) == Front(labels)

\* The first place of the label takes the last label, which is popped.
Spliced(l) ==
    IF \E i \in 1..Len(labels) : labels[i] = l
    THEN LET i == SelectInSeq(labels, LAMBDA x : x = l)
         IN  Front([labels EXCEPT ![i] = Last(labels)])
    ELSE labels

RemoveEntry(l) ==
    /\ entries[l].added
    /\ entries' = [entries EXCEPT ![l] = Blank]
    /\ labels' = Spliced(l)

RegistryNext ==
    \E l \in Labels :
        \/ VerifyEntry(l) \/ RemoveEntry(l)
        \/ \E uri \in Uris : AddEntry(l, uri) \/ UpdateMetadata(l, uri)
RegistrySpec == RegistryInit /\ [][RegistryNext]_registryVars

-----------------------------------------------------------------------------
(* Reads *)

\* getEntries(from, to), with to exclusive.
GetEntries(from, to) ==
    LET end == IF to > Len(labels) THEN Len(labels) ELSE to
    IN  IF from >= end THEN << >>
        ELSE [k \in 1..(end - from) |-> entries[labels[from + k]]]

(* Properties *)

\* However entries are added and removed, reading the registry page by page gives
\* every entry once, and no blank one: the array and the mapping stay in step,
\* also when the last label, or the only one, is removed (VaultRegistry.sol:67-126,
\* 151-162).
RegistryInStep ==
    LET pages == UNION {{<<i, GetEntries(i, i + 1)>>} : i \in 0..Len(labels)}
    IN  /\ \A p \in pages : p[1] < Len(labels) => p[2][1].added
        /\ \A l \in Labels : entries[l].added =>
              Cardinality({i \in 1..Len(labels) : labels[i] = l}) = 1

-----------------------------------------------------------------------------
(* The LP manager *)

CONSTANTS
    Bins,           \* the bins of the pool
    MaxPositions,   \* bound: positions that are ever opened
    MaxHeld         \* bound: units of a token that lie idle in the contract
ASSUME LPManagerBounds == MaxPositions \in Nat /\ MaxHeld \in Nat

VARIABLES
    positions,  \* positions
    lpTokens,   \* bin -> what the contract has in it
    held,       \* the tokens that lie idle in the contract
    put,        \* history: position -> bin -> what its deposit put in
    leftover    \* history: the bins in which a removal burned less than its position put in
managerVars == <<positions, lpTokens, held, put, leftover>>

ManagerInit ==
    /\ positions = << >>
    /\ lpTokens = [b \in Bins |-> 0]
    /\ held = [uny |-> 0, native |-> 0]
    /\ put = << >>
    /\ leftover = {}

-----------------------------------------------------------------------------
\* _getPosition, without its reverts.
Live(p) == p \in DOMAIN positions /\ positions[p].active

\* Mutant of DepositBins: the position names the bins that were asked for.
BinsAsked(asked, depositIds) == asked

\* The position names the bins of the deposit: the active bin may have moved by
\* idSlippage since the owner asked.
DepositBins(asked, depositIds) == depositIds

Deposit(asked, depositIds) ==
    /\ Len(positions) < MaxPositions
    /\ Cardinality(asked) = Cardinality(depositIds)
    /\ positions' = Append(positions, [bins |-> DepositBins(asked, depositIds), active |-> TRUE])
    /\ lpTokens' = [b \in Bins |-> lpTokens[b] + IF b \in depositIds THEN 1 ELSE 0]
    /\ put' = Append(put, [b \in Bins |-> IF b \in depositIds THEN 1 ELSE 0])
    /\ UNCHANGED leftover

\* _pullToken: what is missing comes from the owner.
Pulled(amount) == IF held.uny < amount THEN amount ELSE held.uny

\* The router takes a unit for each bin, and gives the rest back to the contract.
AddLiquidity(asked, depositIds, amount) ==
    /\ amount >= Cardinality(depositIds)
    /\ Deposit(asked, depositIds)
    /\ held' = [held EXCEPT !.uny = Pulled(amount) - Cardinality(depositIds)]

\* With AVAX of the transaction; what the router does not take arrives at receive().
AddLiquidityNATIVE(asked, depositIds, amount, refund) ==
    /\ amount >= Cardinality(depositIds)
    /\ Deposit(asked, depositIds)
    /\ held.native + refund <= MaxHeld
    /\ held' = [uny |-> Pulled(amount) - Cardinality(depositIds), native |-> held.native + refund]

\* Whatever amounts the owner burns, the position is over; the pool pays in UNY, or
\* in the other token.
RemoveLiquidity(p, amounts, paid) ==
    /\ Live(p)
    /\ DOMAIN amounts = positions[p].bins
    /\ \A b \in DOMAIN amounts : amounts[b] <= lpTokens[b]
    /\ lpTokens' = [b \in Bins |->
          IF b \in DOMAIN amounts THEN lpTokens[b] - amounts[b] ELSE lpTokens[b]]
    /\ held.uny + paid <= MaxHeld
    /\ held' = [held EXCEPT !.uny = @ + paid]
    /\ positions' = [positions EXCEPT ![p].active = FALSE]
    /\ leftover' = leftover \cup {b \in DOMAIN amounts : amounts[b] < put[p][b]}
    /\ UNCHANGED put

\* The fees are paid to the contract.
CollectFees(p, fees) ==
    /\ Live(p)
    /\ held.uny + fees <= MaxHeld
    /\ held' = [held EXCEPT !.uny = @ + fees]
    /\ UNCHANGED <<positions, lpTokens, put, leftover>>

RecoverTokens(amount) ==
    /\ amount <= held.uny
    /\ held' = [held EXCEPT !.uny = @ - amount]
    /\ UNCHANGED <<positions, lpTokens, put, leftover>>
RecoverNative ==
    /\ held' = [held EXCEPT !.native = 0]
    /\ UNCHANGED <<positions, lpTokens, put, leftover>>

BinSets == SUBSET Bins \ {{}}
ManagerNext ==
    \/ \E asked, ids \in BinSets, n \in 1..MaxHeld :
          \/ AddLiquidity(asked, ids, n)
          \/ \E refund \in 0..1 : AddLiquidityNATIVE(asked, ids, n, refund)
    \/ \E p \in DOMAIN positions :
          \/ CollectFees(p, 1)
          \/ \E amounts \in [positions[p].bins -> 0..MaxPositions], paid \in 0..1 :
                RemoveLiquidity(p, amounts, paid)
    \/ \E n \in 1..MaxHeld : RecoverTokens(n)
    \/ RecoverNative
ManagerSpec == ManagerInit /\ [][ManagerNext]_managerVars

-----------------------------------------------------------------------------
(* Properties *)

PutInto(b, puts, ps) == MapThenSumSet(LAMBDA p : puts[p][b], ps)
ActiveIn(b) == {p \in DOMAIN positions : positions[p].active /\ b \in positions[p].bins}

\* However positions share bins, and whichever of them is removed first, what the
\* contract has in a bin is within what its active positions put in: nothing lies
\* in a bin that no position can burn any more.  A removal that burns less than its
\* position put in is the exception: the position is over all the same, and no
\* other call reaches the rest (UnyKornLPManager.sol:92-147, 210-232).
PositionsInStep == \A b \in Bins \ leftover : lpTokens[b] <= PutInto(b, put, ActiveIn(b))
=============================================================================
