-------------------------------- MODULE Edge --------------------------------
(***************************************************************************)
(* What stands around the ledger: the gateway with its metering and the    *)
(* SDK in front of it, the facilitator's rate limiter, rails, webhooks,    *)
(* Merkle roots and paged lists, the two contracts with the liquidity      *)
(* scripts, the migrations, and the voice and the assistant of the site.   *)
(* None of them shares state with another: each has a scene, chosen at     *)
(* the beginning, in which the others stand still.                         *)
(***************************************************************************)
EXTENDS Webhooks, MerkleTree, RateLimiter, Metering, Shop, Rails, Contracts, Scripts,
        Operator, Site

CONSTANT Scenes   \* the scenes of a run
ASSUME EdgeScenes ==
    Scenes \subseteq {"webhooks", "merkle", "limiter", "metering", "shop", "rails",
                      "registry", "positions", "liquidity",
                      "pages", "setup", "voice", "chat"}

VARIABLE scene

edgeVars == <<scene, webhooksVars, merkle, limiterVars, meteringVars, shopVars, railVars,
              registryVars, managerVars, lpVars, operatorVars, dbVars, voiceVars,
              assistantVars>>

EdgeInit ==
    /\ scene \in Scenes
    /\ IF scene = "merkle" THEN MerkleInit ELSE batch1 = <<1>> /\ batch2 = <<1>>
    /\ WebhooksInit /\ LimiterInit /\ MeteringInit /\ ShopInit
    /\ RailsInit /\ RegistryInit /\ ManagerInit /\ LpInit
    /\ OperatorInit /\ DbSetupInit /\ AssistantInit
    /\ VoiceInit /\ (scene # "voice" => voice.engine = "browser")

-----------------------------------------------------------------------------
Delivering ==
    /\ scene = "webhooks" /\ WebhooksNext
    /\ UNCHANGED <<scene, merkle, limiterVars, meteringVars, shopVars, railVars,
                   registryVars, managerVars, lpVars, operatorVars,
                   dbVars, voiceVars, assistantVars>>
Limiting ==
    /\ scene = "limiter" /\ LimiterNext
    /\ UNCHANGED <<scene, webhooksVars, merkle, meteringVars, shopVars, railVars,
                   registryVars, managerVars, lpVars, operatorVars,
                   dbVars, voiceVars, assistantVars>>
MeteringUsage ==
    /\ scene = "metering" /\ MeteringNext
    /\ UNCHANGED <<scene, webhooksVars, merkle, limiterVars, shopVars, railVars,
                   registryVars, managerVars, lpVars, operatorVars,
                   dbVars, voiceVars, assistantVars>>
Shopping ==
    /\ scene = "shop" /\ ShopNext
    /\ UNCHANGED <<scene, webhooksVars, merkle, limiterVars, meteringVars, railVars,
                   registryVars, managerVars, lpVars, operatorVars,
                   dbVars, voiceVars, assistantVars>>
Verifying ==
    /\ scene = "rails" /\ RailsNext
    /\ UNCHANGED <<scene, webhooksVars, merkle, limiterVars, meteringVars, shopVars,
                   registryVars, managerVars, lpVars, operatorVars,
                   dbVars, voiceVars, assistantVars>>
Registering ==
    /\ scene = "registry" /\ RegistryNext
    /\ UNCHANGED <<scene, webhooksVars, merkle, limiterVars, meteringVars, shopVars,
                   railVars, managerVars, lpVars, operatorVars, dbVars,
                   voiceVars, assistantVars>>
Managing ==
    /\ scene = "positions" /\ ManagerNext
    /\ UNCHANGED <<scene, webhooksVars, merkle, limiterVars, meteringVars, shopVars,
                   railVars, registryVars, lpVars, operatorVars, dbVars,
                   voiceVars, assistantVars>>
Trading ==
    /\ scene = "liquidity" /\ LpNext
    /\ UNCHANGED <<scene, webhooksVars, merkle, limiterVars, meteringVars, shopVars,
                   railVars, registryVars, managerVars, operatorVars,
                   dbVars, voiceVars, assistantVars>>
Paging ==
    /\ scene = "pages" /\ OperatorNext
    /\ UNCHANGED <<scene, webhooksVars, merkle, limiterVars, meteringVars, shopVars,
                   railVars, registryVars, managerVars, lpVars, dbVars,
                   voiceVars, assistantVars>>
SettingUp ==
    /\ scene = "setup" /\ DbSetupNext
    /\ UNCHANGED <<scene, webhooksVars, merkle, limiterVars, meteringVars, shopVars,
                   railVars, registryVars, managerVars, lpVars,
                   operatorVars, voiceVars, assistantVars>>
Speaking ==
    /\ scene = "voice" /\ VoiceNext
    /\ UNCHANGED <<scene, webhooksVars, merkle, limiterVars, meteringVars, shopVars,
                   railVars, registryVars, managerVars, lpVars,
                   operatorVars, dbVars, assistantVars>>
Chatting ==
    /\ scene = "chat" /\ AssistantNext
    /\ UNCHANGED <<scene, webhooksVars, merkle, limiterVars, meteringVars, shopVars,
                   railVars, registryVars, managerVars, lpVars,
                   operatorVars, dbVars, voiceVars>>

EdgeNext ==
    \/ Delivering \/ Limiting \/ MeteringUsage \/ Shopping \/ Verifying
    \/ Registering \/ Managing \/ Trading \/ Paging \/ SettingUp \/ Speaking \/ Chatting

\* What the modules assume.  A component that stands still has nothing enabled that
\* is fair, but for the first fetch.
EdgeFairness ==
    /\ WebhooksFairness /\ MeteringFairness /\ RequestFairness
    /\ \A f \in Fetches : WF_shopVars(scene = "shop" /\ StartFetch(f))
EdgeSpec == EdgeInit /\ [][EdgeNext]_edgeVars /\ EdgeFairness

-----------------------------------------------------------------------------
(* Properties *)

\* The lists the contracts keep agree with what they hold: RegistryInStep for the
\* registry, PositionsInStep for the LP manager (VaultRegistry.sol:67-126,
\* UnyKornLPManager.sol:92-232).
ContractsInStep == RegistryInStep /\ PositionsInStep

\* The scripts of an operator do what they were looked over for: LiveRunsArePreviewed
\* for the liquidity scripts, SetupIsRepeatable for the migrations
\* (lp-safety.ts:60-365, x402-db-setup.mjs:24-104).
ScriptsAreSafe == LiveRunsArePreviewed /\ SetupIsRepeatable

\* What people are shown and told is what there is: PagesAgree for the lists of the
\* operator, ReadingInOrder for the voice, ConversationIsPaired and PanelIsHonest for
\* the assistant (operator.ts:108-551, x407-voice.js:136-331, x407-assistant.js:84-277).
ScreensAreHonest ==
    PagesAgree /\ ReadingInOrder /\ ConversationIsPaired /\ PanelIsHonest

\* Webhooks and usage batches arrive: EveryDeliveryArrives, MeteringDelivers
\* (webhooks.ts:172-330, client.ts:52-98).
DeliveriesArrive == EveryDeliveryArrives /\ MeteringDelivers

\* ClientRecovers, where the client is on the scene (x402.ts:42-152).
ClientsRecover == scene = "shop" => ClientRecovers

-----------------------------------------------------------------------------
(* A small instance *)

MCTargets == {<<"swapTokens", "usdc">>, <<"deepenPools", "all">>}

Sentence(i, n, e) == [id |-> i, size |-> n, ended |-> e]
MCTexts == {<<Sentence(1, 1, TRUE), Sentence(2, 2, TRUE), Sentence(3, 1, FALSE)>>}
=============================================================================
