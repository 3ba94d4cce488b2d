---------------------------- MODULE RateLimiter ----------------------------
(***************************************************************************)
(* services/rate-limiter.ts, for one wallet and namespace: checkRateLimit  *)
(* takes a cutoff, counts the rows of the window, and inserts a row when   *)
(* the count is below the limit, each in a statement of its own.  Requests *)
(* run it concurrently.                                                    *)
(*                                                                         *)
(* Of a row only its age is kept, in ticks; rows that no check can count   *)
(* any more are forgotten.                                                 *)
(***************************************************************************)
EXTENDS Integers, FiniteSets, Functions

CONSTANTS
    Checks,   \* bound: checks at one time
    Limit,    \* effectiveLimit
    Window,   \* window_seconds, in ticks
    Day,      \* the age at which a row is cleaned up, in ticks
    Delay     \* bound: the longest a check takes, in ticks

ASSUME RateLimiterConstants ==
    /\ IsFiniteSet(Checks) /\ Limit \in Nat \ {0}
    /\ Window \in Nat \ {0} /\ Delay \in Nat /\ Day \in Nat /\ Day >= Window

VARIABLES
    logged,   \* rate_limit_log: age -> rows of it
    check     \* slot -> a check: where it is, and how long ago its cutoff was taken
limiterVars == <<logged, check>>

Ages == 0..(Window + Delay)
NoCheck == [at |-> "idle", age |-> 0]
Rows(S) == FoldFunctionOnSet(LAMBDA x, y : x + y, 0, logged, S)

LimiterInit ==
    /\ logged = [a \in Ages |-> 0]
    /\ check = [c \in Checks |-> NoCheck]

-----------------------------------------------------------------------------
\* The cutoff is taken; the SELECT waits for a connection.
StartCheck(c) ==
    /\ check[c].at = "idle"
    /\ check' = [check EXCEPT ![c] = [at |-> "count", age |-> 0]]
    /\ UNCHANGED logged

\* created_at > cutoff.
SinceCutoff(c) == {a \in Ages : a < Window + check[c].age}

\* Mutant of UnderLimit: off by one.
UnderLimitOrAt(c) == Rows(SinceCutoff(c)) <= Limit
UnderLimit(c) == Rows(SinceCutoff(c)) < Limit

Admitted(c) ==
    /\ check[c].at = "count" /\ UnderLimit(c)
    /\ check' = [check EXCEPT ![c].at = "insert"]
    /\ UNCHANGED logged
Refused(c) ==
    /\ check[c].at = "count" /\ ~UnderLimit(c)
    /\ check' = [check EXCEPT ![c] = NoCheck]
    /\ UNCHANGED logged

InsertLogged(c) ==
    /\ check[c].at = "insert"
    /\ logged' = [logged EXCEPT ![0] = @ + 1]
    /\ check' = [check EXCEPT ![c] = NoCheck]

\* A statement fails: verifyPayment lets the request pass, without a row.
CheckThrows(c) ==
    /\ check[c].at # "idle"
    /\ check' = [check EXCEPT ![c] = NoCheck]
    /\ UNCHANGED logged

\* Time: rows and checks grow older.
Tick ==
    /\ \A c \in Checks : check[c].at # "idle" => check[c].age < Delay
    /\ logged' = [a \in Ages |-> IF a = 0 THEN 0 ELSE logged[a - 1]]
    /\ check' = [c \in Checks |->
          IF check[c].at = "idle" THEN NoCheck ELSE [check[c] EXCEPT !.age = @ + 1]]

\* The maintenance timer, each hour.
CleanupRateLimitLog ==
    /\ logged' = [a \in Ages |-> IF a > Day THEN 0 ELSE logged[a]]
    /\ UNCHANGED check

CheckStep(c) == StartCheck(c) \/ Admitted(c) \/ Refused(c) \/ InsertLogged(c) \/ CheckThrows(c)
LimiterNext == (\E c \in Checks : CheckStep(c)) \/ Tick \/ CleanupRateLimitLog
LimiterSpec == LimiterInit /\ [][LimiterNext]_limiterVars

-----------------------------------------------------------------------------
(* Properties *)

Inserting == {c \in Checks : check[c].at = "insert"}

\* The window is exceeded by no more than the checks that overlap: the rows of any
\* window, with those that are about to be inserted, are at most the limit and one
\* for every other check under way, however long a check takes between its cutoff,
\* its count and its insert (rate-limiter.ts:83-134).
WindowBounded ==
    Rows(0..(Window - 1)) + Cardinality(Inserting) <= Limit + Cardinality(Checks) - 1
=============================================================================
