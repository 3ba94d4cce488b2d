------------------------------ MODULE Scripts -------------------------------
(***************************************************************************)
(* The scripts of unyKorn-contracts that move the liquidity of UNY, and    *)
(* their guards (lp-safety.ts): the kill switch, the thresholds, and a dry *)
(* run of the same script and pool within the hour.  An operator starts    *)
(* them one by one or at the same time; a run may end at any await.        *)
(*                                                                         *)
(* Amounts and limits are left out: the thresholds pass or do not.  Of a   *)
(* dry run's marker only the age is kept, in ticks; a marker that is older *)
(* than any check can tell, and none at all, are Never.                    *)
(*                                                                         *)
(* scripts/x402-db-setup.mjs: creates the database, and runs the           *)
(* migrations that _x402_migrations does not name, in the order of their   *)
(* names.  A migration and its record are two queries: a run may die in    *)
(* between, and deployments may run the script at one time.                *)
(*                                                                         *)
(* The files are 1..Migrations.  Every statement of theirs is a CREATE ... *)
(* IF NOT EXISTS; the statements of a file are one query, which is one     *)
(* transaction.                                                            *)
(***************************************************************************)
EXTENDS Integers

(* The liquidity scripts *)

CONSTANTS
    Jobs,       \* bound: runs of scripts at one time
    Targets,    \* <<script, pool>>
    Hour,       \* the age a marker may have, in ticks
    MaxRun,     \* bound: the longest a run takes after its guards, in ticks
    MaxSwaps    \* bound: swaps of one run

Guarded == {"addLiquidity", "removeLiquidity", "swapTokens"}

ASSUME LpScriptsTargets ==
    Targets \subseteq (Guarded \X {"usdc", "wavax"}) \cup {<<"deepenPools", "all">>}
ASSUME LpScriptsBounds == Hour \in Nat /\ MaxRun \in Nat /\ MaxSwaps \in Nat

VARIABLES
    marker,     \* target -> the age of its marker
    job         \* slot -> a run of a script
lpVars == <<marker, job>>

Never == Hour + MaxRun + 1
NoJob == [at |-> "idle", target |-> <<"none", "none">>, live |-> FALSE, left |-> 0,
          passed |-> FALSE, checked |-> FALSE, sent |-> FALSE, since |-> 0]

LpInit ==
    /\ marker = [t \in Targets |-> Never]
    /\ job = [j \in Jobs |-> NoJob]

-----------------------------------------------------------------------------
\* A script starts; where LP_GLOBAL_DISABLE is set, checkKillSwitch ends it at once.
StartScript(j, t, live) ==
    /\ job[j] = NoJob
    /\ job' = [job EXCEPT ![j] =
          IF t[1] = "deepenPools"
          THEN [NoJob EXCEPT !.at = "pools", !.target = t, !.live = live, !.left = 2]
          ELSE [NoJob EXCEPT !.at = "thresholds", !.target = t, !.live = live]]
    /\ UNCHANGED marker

\* enforceSafetyThresholds on the balances of this moment.
EnforceThresholds(j) ==
    /\ job[j].at = "thresholds"
    /\ IF job[j].live
       THEN \E pass \in BOOLEAN :
               job' = [job EXCEPT ![j].at = "guards", ![j].passed = pass]
       ELSE job' = [job EXCEPT ![j].at = "marking"]
    /\ UNCHANGED marker

\* markDryRunComplete, whatever the thresholds said.
MarkDryRun(j) ==
    /\ job[j].at = "marking"
    /\ marker' = [marker EXCEPT ![job[j].target] = 0]
    /\ job' = [job EXCEPT ![j] = NoJob]

\* Mutant of Fresh: the age of the marker is not looked at.
Marked(t) == marker[t] # Never

\* checkDryRunRequired; require_dry_run_first is set.
Fresh(t) == marker[t] <= Hour

\* The guards of a live run, and the list of its transactions; deepenPools has
\* nothing left to do after them.
Guards(j) ==
    /\ job[j].at = "guards"
    /\ IF job[j].passed /\ Fresh(job[j].target) /\ job[j].target[1] \in Guarded
       THEN \E n \in IF job[j].target[1] = "swapTokens" THEN 1..MaxSwaps ELSE {1} :
               job' = [job EXCEPT ![j].at = "approve", ![j].checked = TRUE, ![j].left = n]
       ELSE job' = [job EXCEPT ![j] = NoJob]
    /\ UNCHANGED marker

Approve(j) ==
    /\ job[j].at = "approve"
    /\ job' = [job EXCEPT ![j].at = "send"]
    /\ UNCHANGED marker

\* The transaction is mined; swapTokens goes on with its list.
Next1(run) == [run EXCEPT !.left = @ - 1, !.at = IF run.left = 1 THEN "over" ELSE "approve"]
SendTransaction(j) ==
    /\ job[j].at = "send"
    /\ job' = [job EXCEPT ![j] = [Next1(@) EXCEPT !.sent = TRUE]]
    /\ UNCHANGED marker

\* swapTokens passes over a swap it has no balance for.
SkipSwap(j) ==
    /\ job[j].at = "approve" /\ job[j].target[1] = "swapTokens"
    /\ job' = [job EXCEPT ![j] = Next1(@)]
    /\ UNCHANGED marker

\* addToPool, or no balance for it: deepenPools takes one pool after the other, and
\* comes to the thresholds then.
AddToPool(j) ==
    /\ job[j].at = "pools"
    /\ \E sends \in {FALSE, job[j].live} :
          job' = [job EXCEPT ![j].sent = @ \/ sends, ![j].left = @ - 1,
                             ![j].at = IF job[j].left = 1 THEN "thresholds" ELSE "pools"]
    /\ UNCHANGED marker

\* The script has ended, exits early, or something it awaits throws.
ScriptEnds(j) ==
    /\ job[j] # NoJob
    /\ job' = [job EXCEPT ![j] = NoJob]
    /\ UNCHANGED marker

LpTick ==
    /\ \A j \in Jobs : job[j].since < MaxRun
    /\ marker' = [t \in Targets |-> IF marker[t] = Never THEN Never ELSE marker[t] + 1]
    /\ job' = [j \in Jobs |->
          IF job[j].checked THEN [job[j] EXCEPT !.since = @ + 1] ELSE job[j]]

ScriptStep(j) ==
    \/ \E t \in Targets, live \in BOOLEAN : StartScript(j, t, live)
    \/ EnforceThresholds(j) \/ MarkDryRun(j) \/ Guards(j)
    \/ Approve(j) \/ SendTransaction(j) \/ SkipSwap(j)
    \/ AddToPool(j) \/ ScriptEnds(j)
LpNext == LpTick \/ \E j \in Jobs : ScriptStep(j)
LpSpec == LpInit /\ [][LpNext]_lpVars

-----------------------------------------------------------------------------
(* Properties *)

\* Every transaction of the guarded scripts, the last swap of a long run and the
\* runs that overlap others included, was let through by the thresholds of its own
\* run, and previewed by a dry run of the same script and pool that ended within
\* the hour before its guards (addLiquidity.ts:155-268, removeLiquidity.ts:113-217,
\* swapTokens.ts:147-316).
LiveRunsArePreviewed ==
    \A j \in Jobs : job[j].target[1] \in Guarded /\ (job[j].at = "send" \/ job[j].sent) =>
        /\ job[j].live /\ job[j].passed
        /\ marker[job[j].target] <= Hour + job[j].since

\* "All LP scripts import and call these guards before executing live transactions"
\* (lp-safety.ts:11).
GuardsComeFirst == \A j \in Jobs : job[j].sent => job[j].checked

-----------------------------------------------------------------------------
(* The migrations *)

CONSTANTS
    Setups,       \* runs of the script at one time
    Migrations    \* the files of db/migrations-x402
ASSUME DbSetupConstants == Migrations \in Nat

VARIABLES
    database,   \* the database exists
    migrated,   \* the files whose tables exist
    recorded,   \* _x402_migrations
    setup       \* run -> where it is
dbVars == <<database, migrated, recorded, setup>>

Files == 1..Migrations
NoSetup == [at |-> "idle", file |-> 0, applied |-> {}, alone |-> TRUE]

DbSetupInit ==
    /\ database = FALSE /\ migrated = {} /\ recorded = {}
    /\ setup = [s \in Setups |-> NoSetup]

Busy(s) == setup[s].at \notin {"idle", "done", "failed"}
MoveSetup(s, at) == setup' = [setup EXCEPT ![s].at = at]

-----------------------------------------------------------------------------
\* A run that overlaps another one is not alone, and neither is the other.
StartSetup(s) ==
    /\ ~Busy(s)
    /\ LET others == {t \in Setups \ {s} : Busy(t)} IN
       setup' = [t \in Setups |->
                   CASE t = s -> [NoSetup EXCEPT !.at = "look", !.alone = others = {}]
                     [] t \in others -> [setup[t] EXCEPT !.alone = FALSE]
                     [] OTHER -> setup[t]]
    /\ UNCHANGED <<database, migrated, recorded>>

\* ensureDatabase: the SELECT, and the CREATE DATABASE, which fails if it exists by now.
LookForDatabase(s) ==
    /\ setup[s].at = "look"
    /\ MoveSetup(s, IF database THEN "table" ELSE "create")
    /\ UNCHANGED <<database, migrated, recorded>>
CreateDatabase(s) ==
    /\ setup[s].at = "create"
    /\ database' = TRUE
    /\ MoveSetup(s, IF database THEN "failed" ELSE "table")
    /\ UNCHANGED <<migrated, recorded>>

\* Two runs may create one relation at a time; then IF NOT EXISTS does not help.
CreateCollides(s) ==
    /\ setup[s].at \in {"table", "apply"}
    /\ \E t \in Setups \ {s} : setup[t].at = setup[s].at /\ setup[t].file = setup[s].file
    /\ MoveSetup(s, "failed")
    /\ UNCHANGED <<database, migrated, recorded>>

\* CREATE TABLE IF NOT EXISTS _x402_migrations, and the SELECT.
ReadRecords(s) ==
    /\ setup[s].at = "table"
    /\ setup' = [setup EXCEPT ![s].at = "next", ![s].applied = recorded]
    /\ UNCHANGED <<database, migrated, recorded>>

NextFile(s) ==
    /\ setup[s].at = "next"
    /\ IF setup[s].file = Migrations
       THEN MoveSetup(s, "done")
       ELSE setup' = [setup EXCEPT ![s].file = @ + 1,
                         ![s].at = IF setup[s].file + 1 \in setup[s].applied
                                   THEN "next" ELSE "apply"]
    /\ UNCHANGED <<database, migrated, recorded>>

\* Mutant of ApplyFile: the tables are created without IF NOT EXISTS.
ApplyFileOnce(s) ==
    /\ setup[s].at = "apply"
    /\ migrated' = migrated \cup {setup[s].file}
    /\ MoveSetup(s, IF setup[s].file \in migrated THEN "failed" ELSE "record")
    /\ UNCHANGED <<database, recorded>>
ApplyFile(s) ==
    /\ setup[s].at = "apply"
    /\ migrated' = migrated \cup {setup[s].file}
    /\ MoveSetup(s, "record")
    /\ UNCHANGED <<database, recorded>>

\* The file name is the primary key.
RecordFile(s) ==
    /\ setup[s].at = "record"
    /\ recorded' = recorded \cup {setup[s].file}
    /\ MoveSetup(s, IF setup[s].file \in recorded THEN "failed" ELSE "next")
    /\ UNCHANGED <<database, migrated>>

\* The process dies, or the database does not answer.
SetupDies(s) ==
    /\ Busy(s)
    /\ setup' = [setup EXCEPT ![s] = NoSetup]
    /\ UNCHANGED <<database, migrated, recorded>>

DbSetupNext == \E s \in Setups :
    \/ StartSetup(s) \/ LookForDatabase(s) \/ CreateDatabase(s) \/ CreateCollides(s)
    \/ ReadRecords(s) \/ NextFile(s) \/ ApplyFile(s) \/ RecordFile(s) \/ SetupDies(s)

-----------------------------------------------------------------------------
(* Properties *)

\* "Idempotent -- safe to re-run": what is recorded is applied, in the order of the
\* files, whichever runs died or overlapped; a run that ends well leaves everything
\* applied; and only a run that overlapped another can fail, so that one that follows a
\* run that died gets through (x402-db-setup.mjs:5-6,47-90).
SetupIsRepeatable ==
    /\ recorded \subseteq migrated
    /\ \A f \in migrated : 1..f \subseteq migrated
    /\ \A s \in Setups :
          /\ setup[s].at = "done" => recorded = Files
          /\ setup[s].at = "failed" => ~setup[s].alone
=============================================================================
