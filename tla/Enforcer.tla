------------------------------ MODULE Enforcer ------------------------------
(***************************************************************************)
(* fth-guardian, daemons/enforcer.ts: addresses that send too many         *)
(* requests, or fail to authenticate too often, are blocked.  A block      *)
(* takes effect in memory at once, and reaches the row of the daemon after *)
(* two awaits; a start reads the row back.                                 *)
(***************************************************************************)
EXTENDS Naturals, FiniteSets

CONSTANTS
    Addresses,      \* IP addresses
    MaxRequests,    \* max_requests_per_minute
    MaxAuthFailures,\* max_failed_auth_attempts
    Blocks          \* bound: runs of blockIp at one time

ASSUME EnforcerConstants == MaxRequests \in Nat /\ MaxAuthFailures \in Nat \ {0}

VARIABLES
    requests,    \* address -> count of its rate bucket
    authFailed,  \* address -> failedAuth
    blocked,     \* blockedIps
    block,       \* slot -> a run of recordAuthFailure or blockIp
    row          \* config.blocked_ips of the daemon's row
enforcerVars == <<requests, authFailed, blocked, block, row>>

Nowhere == "nowhere"
NoBlock == [at |-> "idle", address |-> Nowhere, saved |-> {}]

EnforcerInit ==
    /\ requests = [a \in Addresses |-> 0]
    /\ authFailed = [a \in Addresses |-> 0]
    /\ blocked = {}
    /\ block = [b \in Blocks |-> NoBlock]
    /\ row = {}

-----------------------------------------------------------------------------
\* blockIp up to its first await.
BlockIp(b, a) ==
    /\ blocked' = blocked \cup {a}
    /\ block' = [block EXCEPT ![b] = [at |-> "event", address |-> a, saved |-> {}]]

\* checkRate: a blocked address is refused, the others are counted, here up to
\* the limit; the request over it blocks its address.
CheckRate(a) ==
    /\ a \notin blocked
    /\ requests' = [requests EXCEPT ![a] = IF @ < MaxRequests THEN @ + 1 ELSE @]
    /\ IF requests[a] = MaxRequests
       THEN \E b \in Blocks : block[b].at = "idle" /\ BlockIp(b, a)
       ELSE UNCHANGED <<blocked, block>>
    /\ UNCHANGED <<authFailed, row>>

\* recordAuthFailure: counted, here to the limit, and written as an event; the write that reaches
\* the limit is followed by the block.
RecordAuthFailure(a) ==
    /\ IF authFailed[a] + 1 < MaxAuthFailures
       THEN authFailed' = [authFailed EXCEPT ![a] = @ + 1] /\ UNCHANGED block
       ELSE \E b \in Blocks :
              /\ block[b].at = "idle"
              /\ block' = [block EXCEPT ![b] = [at |-> "block", address |-> a, saved |-> {}]]
              /\ UNCHANGED authFailed
    /\ UNCHANGED <<requests, blocked, row>>
AuthBlocks(b) ==
    /\ block[b].at = "block"
    /\ BlockIp(b, block[b].address)
    /\ UNCHANGED <<requests, authFailed, row>>

\* Mutant of SaveBlocked: the list of the last start is saved.
SaveBlockedStale(b) ==
    /\ block[b].at = "event"
    /\ block' = [block EXCEPT ![b].at = "save", ![b].saved = row]
    /\ UNCHANGED <<requests, authFailed, blocked, row>>

\* blockIp: the security event has been written and the alert is out; the row is
\* saved with the list as it is at that moment.
SaveBlocked(b) ==
    /\ block[b].at = "event"
    /\ block' = [block EXCEPT ![b].at = "save", ![b].saved = blocked]
    /\ UNCHANGED <<requests, authFailed, blocked, row>>

\* The UPDATEs of overlapping blocks use connections of their own, and may be
\* executed in any order.
RowSaved(b) ==
    /\ block[b].at = "save"
    /\ row' = block[b].saved
    /\ block' = [block EXCEPT ![b] = NoBlock]
    /\ UNCHANGED <<requests, authFailed, blocked>>

\* unblockIp: in memory only.
UnblockIp(a) ==
    /\ a \in blocked
    /\ blocked' = blocked \ {a}
    /\ UNCHANGED <<requests, authFailed, block, row>>

\* A new minute of the rate bucket; patrol forgets the authentication failures
\* of the hour.
NewMinute(a) ==
    /\ requests' = [requests EXCEPT ![a] = 0]
    /\ UNCHANGED <<authFailed, blocked, block, row>>
Patrol ==
    /\ authFailed' = [a \in Addresses |-> 0]
    /\ UNCHANGED <<requests, blocked, block, row>>

\* The process ends.  A failed write of blockIp, or of recordAuthFailure, ends
\* it too: their promises are awaited by no one.  start reads the row and saves
\* it back.
EnforcerRestart ==
    /\ requests' = [a \in Addresses |-> 0]
    /\ authFailed' = [a \in Addresses |-> 0]
    /\ block' = [b \in Blocks |-> NoBlock]
    /\ blocked' = row
    /\ UNCHANGED row

BlockStep(b) ==
    AuthBlocks(b) \/ SaveBlocked(b) \/ RowSaved(b)

EnforcerNext ==
    \/ \E a \in Addresses :
          CheckRate(a) \/ RecordAuthFailure(a) \/ UnblockIp(a) \/ NewMinute(a)
    \/ \E b \in Blocks : BlockStep(b)
    \/ Patrol \/ EnforcerRestart
EnforcerSpec == EnforcerInit /\ [][EnforcerNext]_enforcerVars

-----------------------------------------------------------------------------
(* Properties *)

Blocking(a) == \E b \in Blocks : block[b].address = a /\ block[b].at \in {"event", "save"}

\* An address that is being blocked reaches the row of the daemon, whatever other
\* blocks are saved at the same time, unless it is unblocked or the process ends
\* before (enforcer.ts:173-194).  It need not stay there: an older save that is
\* executed later takes it out again.
EveryBlockIsSaved ==
    \A a \in Addresses : Blocking(a) ~> a \in row \/ a \notin blocked
=============================================================================
