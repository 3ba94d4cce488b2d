-------------------------------- MODULE Shop --------------------------------
(***************************************************************************)
(* A client of fth-x402-sdk that pays from one channel, the gateway, and   *)
(* the facilitator behind it.  Each fetch asks for a paid resource, gets a *)
(* 402 with an invoice, builds a channel proof and asks once more; any     *)
(* request and any answer can be lost.  The application fetches again and  *)
(* again, also concurrently, and restarts its client.                      *)
(*                                                                         *)
(* Of sequence numbers only the difference to the channel's last one is    *)
(* kept.  The channel has money and stays open, invoices do not expire.    *)
(***************************************************************************)
EXTENDS Integers

CONSTANTS
    Fetches,     \* bound: fetches at one time
    MaxAhead,    \* bound: differences count as at most this much
    MaxBehind,   \* bound: and as at least minus this much
    MaxStarts    \* bound: restarts of the client

VARIABLES
    ahead,    \* channelState.sequence of the SDK, minus the channel's
    fetch,    \* slot -> a fetch: where it is, the sequence of its proof minus the
              \* channel's, and whether the client that began it still runs
    starts    \* restarts of the client
shopVars == <<ahead, fetch, starts>>

NoFetch == [at |-> "idle", sequence |-> 0, mine |-> TRUE]

\* channel_sequence of a new channel is 0, like the channel's.
ShopInit ==
    /\ ahead = 0
    /\ fetch = [f \in Fetches |-> NoFetch]
    /\ starts = 0

Over(f) == fetch' = [fetch EXCEPT ![f] = NoFetch]
Ended(f) == fetch[f].at \in {"idle", "delivered"}

-----------------------------------------------------------------------------
\* build402Response: an invoice, with all that a proof needs.
Challenged == [NoFetch EXCEPT !.at = "challenged"]

\* The first request: the route is a paid one and there is no proof, so the gateway
\* has an invoice made and answers 402 with it.  A fetch that gets no invoice (500,
\* 503, a lost message) leaves nothing behind.
StartFetch(f) ==
    /\ Ended(f)
    /\ fetch' = [fetch EXCEPT ![f] = Challenged]
    /\ UNCHANGED <<ahead, starts>>

Following(x) == IF x + 1 > MaxAhead THEN MaxAhead ELSE x + 1
Unused(n) == \A g \in Fetches : fetch[g].at = "paying" => fetch[g].sequence # n

\* Mutant of BuildProof: the local sequence does not move on.
BuildProofOnly(f) ==
    /\ fetch[f].at = "challenged"
    /\ Unused(Following(ahead)) \/ ahead < MaxAhead
    /\ fetch' = [fetch EXCEPT ![f].at = "paying", ![f].sequence = Following(ahead)]
    /\ UNCHANGED <<ahead, starts>>

\* createChannelSpendProof, and the local sequence moves on at once.
BuildProof(f) ==
    LET n == Following(ahead)
    IN  /\ fetch[f].at = "challenged"
        /\ Unused(n) \/ ahead < MaxAhead
        /\ fetch' = [fetch EXCEPT ![f].at = "paying", ![f].sequence = n]
        /\ ahead' = n
        /\ UNCHANGED starts

\* POST /verify spends from the channel: its last sequence is now that of the
\* proof, and all differences shrink by it.
Closer(x, n) == IF x - n < -MaxBehind THEN -MaxBehind ELSE x - n
SpendAccepted(f) ==
    LET n == fetch[f].sequence
    IN  /\ fetch[f].at = "paying" /\ n > 0
        /\ fetch' = [g \in Fetches |->
              CASE g = f -> [fetch[f] EXCEPT !.at = "charged", !.sequence = 0]
                [] g # f /\ fetch[g].at = "paying" ->
                      [fetch[g] EXCEPT !.sequence = Closer(@, n)]
                [] OTHER -> fetch[g]]
        /\ ahead' = Closer(ahead, n)
        /\ UNCHANGED starts

\* channel_sequence_invalid: the gateway answers 402, the SDK does not try again.
SpendRefused(f) ==
    /\ fetch[f].at = "paying" /\ fetch[f].sequence <= 0
    /\ Over(f)
    /\ UNCHANGED <<ahead, starts>>

\* The request is lost, or the facilitator fails, before the charge.
PaymentLost(f) ==
    /\ fetch[f].at = "paying"
    /\ Over(f)
    /\ UNCHANGED <<ahead, starts>>

\* The facilitator answers that the payment is verified, the gateway fetches the
\* resource from R2 or the origin, and the client gets it.
Delivered(f) ==
    /\ fetch[f].at = "charged" /\ fetch[f].mine
    /\ fetch' = [fetch EXCEPT ![f].at = "delivered"]
    /\ UNCHANGED <<ahead, starts>>

\* After the charge the facilitator fails (402), its answer is lost (503), the
\* resource cannot be fetched, or the last answer is lost: the client has paid.
PaidInVain(f) ==
    /\ fetch[f].at = "charged"
    /\ Over(f)
    /\ UNCHANGED <<ahead, starts>>

\* A new client, with the channel_sequence the application remembers; the requests
\* of the old one are still under way.
ClientRestarts ==
    /\ starts < MaxStarts
    /\ starts' = starts + 1
    /\ \E n \in -MaxBehind..ahead : ahead' = n
    /\ fetch' = [f \in Fetches |->
          IF Ended(f) \/ fetch[f].at = "challenged" THEN NoFetch
          ELSE [fetch[f] EXCEPT !.mine = FALSE]]

FetchStep(f) ==
    \/ StartFetch(f)
    \/ BuildProof(f) \/ SpendAccepted(f) \/ SpendRefused(f) \/ PaymentLost(f)
    \/ Delivered(f) \/ PaidInVain(f)
ShopNext == (\E f \in Fetches : FetchStep(f)) \/ ClientRestarts

\* Requests end, and the network, the facilitator and the resource do not fail all
\* requests for ever.
RequestFairness ==
    /\ \A f \in Fetches :
          /\ WF_shopVars(BuildProof(f))
          /\ WF_shopVars(SpendRefused(f) \/ (~fetch[f].mine /\ PaidInVain(f)))
    /\ SF_shopVars(\E f \in Fetches : SpendAccepted(f))
    /\ SF_shopVars(\E f \in Fetches : Delivered(f))

\* The application goes on fetching.
ShopFairness == RequestFairness /\ \A f \in Fetches : WF_shopVars(StartFetch(f))
ShopSpec == ShopInit /\ [][ShopNext]_shopVars /\ ShopFairness

-----------------------------------------------------------------------------
(* Properties *)

\* A client that goes on fetching is served again and again, whatever was lost:
\* proofs that never arrived leave gaps the channel does not mind, proofs that
\* overtake each other or answers lost after the charge do not put the SDK's
\* sequence out of step for good, and a client that restarts with an old sequence
\* catches up by its refused fetches (x402.ts:42-77, 111-135).
ClientRecovers == []<>(\E f \in Fetches : fetch[f].at = "delivered")
=============================================================================
