---------------------------- MODULE AtLeastOnce ----------------------------
(***************************************************************************)
(* What a buffer of entries that are sent to a store promises: an accepted *)
(* entry waits until it is stored, unless the process ends; nothing else   *)
(* is ever stored.  An entry may be stored more than once.                 *)
(***************************************************************************)
CONSTANT Entries

VARIABLES
    waiting,   \* entries that are accepted and not known to be stored
    stored,    \* entries of the store
    ends       \* how often the process has ended
outbox == <<waiting, stored, ends>>

Accept(e) ==
    /\ e \notin waiting \cup stored
    /\ waiting' = waiting \cup {e}
    /\ UNCHANGED <<stored, ends>>

Store(S) ==
    /\ S # {} /\ S \subseteq waiting
    /\ stored' = stored \cup S
    /\ UNCHANGED <<waiting, ends>>

\* The store has answered.
Settle(S) ==
    /\ S # {} /\ S \subseteq waiting \cap stored
    /\ waiting' = waiting \ S
    /\ UNCHANGED <<stored, ends>>

ProcessEnds ==
    /\ ends' # ends
    /\ waiting' = {}
    /\ UNCHANGED stored

OutboxNext ==
    \/ \E e \in Entries : Accept(e)
    \/ \E S \in SUBSET Entries : Store(S) \/ Settle(S)
    \/ ProcessEnds

OutboxSafe == waiting = {} /\ stored = {} /\ [][OutboxNext]_outbox

\* Every accepted entry is stored, unless the process ends first.
OutboxLive == \A e \in Entries : (e \in waiting) ~> (e \in stored \/ e \notin waiting)
OutboxSpec == OutboxSafe /\ OutboxLive
=============================================================================
