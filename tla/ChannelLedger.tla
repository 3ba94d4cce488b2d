--------------------------- MODULE ChannelLedger ----------------------------
(***************************************************************************)
(* The payment channels of the facilitator (services/channels.ts): a       *)
(* deposit is spent off-chain in steps that carry a strictly increasing    *)
(* sequence number, until the channel is closed.  spendChannel locks the   *)
(* channel's row (SELECT ... FOR UPDATE) before it checks anything, so the *)
(* whole transaction is one action.                                        *)
(*                                                                         *)
(* Data abstraction.  The parseFloat of the balance check is taken as      *)
(* exact: amounts are natural numbers.  The row's wallet, namespace and    *)
(* transaction hashes decide nothing here and are left out.                *)
(***************************************************************************)
EXTENDS X402Types

VARIABLE channels   \* channel id -> its row of payment_channels

Channel == [status    : {"none", "open", "closed"},  \* "none": no row yet
            deposited : Int,
            available : Int,
            spent     : Int,
            sequence  : Nat]

NoChannelRow == [status |-> "none", deposited |-> 0, available |-> 0,
                 spent |-> 0, sequence |-> 0]

ChannelsInit == channels = [c \in Channels |-> NoChannelRow]

-----------------------------------------------------------------------------
OpenChannel(c, amount) ==
    /\ channels[c].status = "none"
    /\ channels' = [channels EXCEPT ![c] =
                      [status |-> "open", deposited |-> amount,
                       available |-> amount, spent |-> 0, sequence |-> 0]]

\* Mutant of CanSpend: the last sequence is accepted again.
CanRespend(c, seq, amount) ==
    /\ channels[c].status = "open"
    /\ seq >= channels[c].sequence
    /\ amount <= channels[c].available

\* The three checks of spendChannel; a failed one throws ChannelError and
\* rolls back.
CanSpend(c, seq, amount) ==
    /\ channels[c].status = "open"
    /\ seq > channels[c].sequence
    /\ amount <= channels[c].available

SpendChannel(c, seq, amount) ==
    /\ CanSpend(c, seq, amount)
    /\ channels' = [channels EXCEPT ![c].sequence  = seq,
                                    ![c].spent     = @ + amount,
                                    ![c].available = @ - amount]

\* UPDATE ... WHERE status = 'open'; otherwise ChannelError and no change.
CloseChannel(c) ==
    /\ channels[c].status = "open"
    /\ channels' = [channels EXCEPT ![c].status = "closed"]

ChannelsNext ==
    \E c \in Channels :
        \/ \E amount \in Amounts : OpenChannel(c, amount)
        \/ \E seq \in Sequences, amount \in Amounts : SpendChannel(c, seq, amount)
        \/ CloseChannel(c)

ChannelsSpec == ChannelsInit /\ [][ChannelsNext]_channels

-----------------------------------------------------------------------------
(* Properties *)

\* Type invariant of payment_channels.
ChannelsTypeOK == channels \in [Channels -> Channel]

\* available + spent is the deposit and neither is ever negative: no sequence
\* of spends takes more than was deposited.
ChannelConserved ==
    \A c \in Channels :
        /\ channels[c].available >= 0
        /\ channels[c].spent >= 0
        /\ channels[c].available + channels[c].spent = channels[c].deposited

\* Money leaves a channel only while it is open, and each time under a
\* sequence number larger than any used before; a closed row never changes.
SpendsAreOrdered ==
    [][\A c \in Channels :
          /\ channels'[c].spent # channels[c].spent =>
                /\ channels[c].status = "open"
                /\ channels'[c].sequence > channels[c].sequence
          /\ channels[c].status = "closed" => channels'[c] = channels[c]
      ]_channels

=============================================================================
