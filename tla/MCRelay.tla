------------------------------ MODULE MCRelay ------------------------------
(***************************************************************************)
(* Four networks of nodes that run Relay, two that run BlockSync and one   *)
(* that runs Alerts, one per behaviour:                                    *)
(*   "orphans"    a, fed by a stranger x with the family p <- c <- d and   *)
(*                p <- bad in any order (the constants of the cfg);        *)
(*   "large"      the same, with d over the size of an orphan;             *)
(*   "delivery"   a's wallet pays p and then c to b over one link;         *)
(*   "silent"     a pays p to b while a stranger linked to both announces  *)
(*                it and need not deliver;                                 *)
(*   "download"   b at genesis obtains the chain 1 <- 2 of a, to which a   *)
(*                adds 3 and 4, over a link that may break;                *)
(*   "refusal"    b on the side chain 1 <- 5 obtains 2 to 4, and may       *)
(*                refuse one block for its stake;                          *)
(*   "alerts"     p is cancelled by c, which d cancels; c is for b only    *)
(*                and expires first; bad is not signed.                    *)
(* The network is chosen in the initial state and stays; what only the     *)
(* other modules keep is then None.                                        *)
(***************************************************************************)
EXTENDS Relay, TLC

CONSTANTS a, b, x           \* nodes
CONSTANTS p, c, d, bad      \* transactions
CONSTANT None
VARIABLES network, mapBlockIndex, pindexBest, mapOrphanBlocks, nAskedForBlocks, fLate,
          nStartingHeight, hashContinue, lastGetBlocks, refused, nRefusals,
          mapAlerts, setKnown, greeted, issued, seen, early, now

\* p is spent by c and by bad, c by d.
Family(T) == [t \in T |-> CASE t = c -> {p} [] t = d -> {p, c} [] t = bad -> {p} [] OTHER -> {}]
MCParents == Family({p, c, d, bad})
MCOwner == [t \in {p, c, d, bad} |-> x]
MCLink == {{a, x}}

LargeOrphan == INSTANCE Relay WITH Large <- {d}

Delivery == INSTANCE Relay WITH
    Honest <- {a, b}, Strangers <- {}, Link <- {{a, b}}, Tx <- {p, c},
    Parents <- Family({p, c}), Invalid <- {}, Large <- {}, Minable <- {c},
    Owner <- [t \in {p, c} |-> a], MAX_ORPHAN_TRANSACTIONS <- 1,
    MaxBreaks <- 1, MaxForgets <- 1, MaxSendings <- 0

Silent == INSTANCE Relay WITH
    Honest <- {a, b}, Strangers <- {x}, Link <- {{a, b}, {a, x}, {b, x}}, Tx <- {p},
    Parents <- Family({p}), Invalid <- {}, Large <- {}, Minable <- {p},
    Owner <- [t \in {p} |-> a], MAX_ORPHAN_TRANSACTIONS <- 1,
    MaxBreaks <- 1, MaxForgets <- 0, MaxSendings <- 1

\* The chain 0 to 4, and the chain 0 to 4 with the side block 5 on 1.
LinePrev == [i \in 0 .. 4 |-> IF i = 0 THEN None ELSE i - 1]
LineHeight == [i \in 0 .. 4 |-> i]
LineBranch == [i \in 0 .. 4 |-> 0 .. i]
ForkPrev == [i \in 0 .. 5 |-> CASE i = 0 -> None [] i = 5 -> 1 [] OTHER -> i - 1]
ForkHeight == [i \in 0 .. 5 |-> IF i = 5 THEN 2 ELSE i]
ForkBranch == [i \in 0 .. 5 |-> IF i = 5 THEN {0, 1, 5} ELSE 0 .. i]

Download == INSTANCE BlockSync WITH
    Node <- {a, b}, Link <- {<<b, a>>}, Blocks <- 0 .. 4, Genesis <- 0,
    Prev <- LinePrev, Height <- LineHeight, Branch <- LineBranch, Trust <- LineHeight,
    FirstBest <- [n \in {a, b} |-> IF n = a THEN 2 ELSE 0],
    Limit <- 2, Dense <- 1, StartSpan <- 9, RelaySpan <- 4, NBlocksEstimate <- 0,
    OldBlocks <- {0}, MaxBreaks <- 1, MaxRefusals <- 0

Refusal == INSTANCE BlockSync WITH
    Node <- {a, b}, Link <- {<<b, a>>}, Blocks <- 0 .. 5, Genesis <- 0,
    Prev <- ForkPrev, Height <- ForkHeight, Branch <- ForkBranch, Trust <- ForkHeight,
    FirstBest <- [n \in {a, b} |-> IF n = a THEN 3 ELSE 5],
    Limit <- 2, Dense <- 1, StartSpan <- 9, RelaySpan <- 4, NBlocksEstimate <- 0,
    OldBlocks <- {}, MaxBreaks <- 0, MaxRefusals <- 1

Alerting == INSTANCE Alerts WITH
    Node <- {a, b}, Link <- {<<a, b>>}, Alert <- {p, c, d, bad}, Version <- x,
    nID <- p :> 200 @@ c :> 201 @@ d :> 202 @@ bad :> 203, FirstID <- 200,
    nCancel <- p :> 0 @@ c :> 200 @@ d :> 0 @@ bad :> 202,
    setCancel <- p :> {} @@ c :> {} @@ d :> {201} @@ bad :> {},
    Versions <- p :> {a, b} @@ c :> {b} @@ d :> {a, b} @@ bad :> {a, b},
    nExpiration <- p :> 2 @@ c :> 1 @@ d :> 2 @@ bad :> 2,
    nRelayUntil <- p :> 0 @@ c :> 1 @@ d :> 1 @@ bad :> 1,
    Ignored <- {bad}, MaxTime <- 1, MaxBreaks <- 1

ASSUME DownloadAssumption == Download!SyncAssumption /\ Refusal!SyncAssumption
ASSUME AlertingAssumption == Alerting!AlertAssumption

txOnly == <<mapTx, txdb, mapWallet, mapRelay, orphanVars, nForgets, nSendings>>
fetchOnly == <<mapAlreadyAskedFor, setInventoryKnown, vInventoryToSend, mapAskFor>>
alertOnly == <<mapAlerts, setKnown, greeted, issued, seen, early, now>>
blockOnly == <<mapBlockIndex, pindexBest, mapOrphanBlocks, nAskedForBlocks, fLate,
               nStartingHeight, hashContinue, lastGetBlocks, refused, nRefusals>>

NoTxs ==
    /\ mapTx = None /\ txdb = None /\ mapWallet = None /\ mapRelay = None
    /\ mapOrphanTransactions = None /\ mapOrphanTransactionsByPrev = None
    /\ nForgets = None /\ nSendings = None

NoBlocks ==
    /\ mapBlockIndex = None /\ pindexBest = None /\ mapOrphanBlocks = None
    /\ nAskedForBlocks = None /\ fLate = None /\ nStartingHeight = None
    /\ hashContinue = None /\ lastGetBlocks = None /\ refused = None /\ nRefusals = None

NoFetching ==
    /\ mapAlreadyAskedFor = None /\ setInventoryKnown = None
    /\ vInventoryToSend = None /\ mapAskFor = None

NoAlerts ==
    /\ mapAlerts = None /\ setKnown = None /\ greeted = None /\ issued = None
    /\ seen = None /\ early = None /\ now = None

MCInit ==
    \/ network \in {"orphans", "large"} /\ RelayInit /\ NoBlocks /\ NoAlerts
    \/ network = "delivery" /\ Delivery!RelayInit /\ NoBlocks /\ NoAlerts
    \/ network = "silent" /\ Silent!RelayInit /\ NoBlocks /\ NoAlerts
    \/ network = "download" /\ Download!Init /\ NoTxs /\ NoAlerts
    \/ network = "refusal" /\ Refusal!Init /\ NoTxs /\ NoAlerts
    \/ network = "alerts" /\ Alerting!Init /\ NoTxs /\ NoBlocks /\ NoFetching

MCNext ==
    /\ \/ network = "orphans" /\ RelayNext /\ UNCHANGED <<blockOnly, alertOnly>>
       \/ network = "large" /\ LargeOrphan!RelayNext /\ UNCHANGED <<blockOnly, alertOnly>>
       \/ network = "delivery" /\ Delivery!RelayNext /\ UNCHANGED <<blockOnly, alertOnly>>
       \/ network = "silent" /\ Silent!RelayNext /\ UNCHANGED <<blockOnly, alertOnly>>
       \/ network = "download" /\ Download!Next /\ UNCHANGED <<txOnly, alertOnly>>
       \/ network = "refusal" /\ Refusal!Next /\ UNCHANGED <<txOnly, alertOnly>>
       \/ network = "alerts" /\ Alerting!Next /\ UNCHANGED <<txOnly, blockOnly, fetchOnly>>
    /\ UNCHANGED network

mcvars == <<relayVars, blockOnly, alertOnly, network>>

\* A step of one of the two networks with wallets; the "delivery" network has
\* only the link of a and b.
Step(DeliveryStep, SilentStep) ==
    \/ network = "delivery" /\ DeliveryStep
    \/ network = "silent" /\ SilentStep

\* Relay's Fairness in those networks.
MCFairness ==
    /\ \A e \in Silent!HonestEnd :
          /\ WF_relayVars(Step(e \in Delivery!End /\ Delivery!ProcessMessages(e[1], e[2]),
                          Silent!ProcessMessages(e[1], e[2])))
          /\ WF_relayVars(Step(e \in Delivery!End /\ Delivery!SendMessages(e[1], e[2], TRUE),
                          Silent!SendMessages(e[1], e[2], TRUE)))
    /\ \A n \in {a, b} : WF_relayVars(Step(Delivery!ResendWalletTransactions(n),
                                      Silent!ResendWalletTransactions(n)))
    /\ \A l \in {{a, b}, {a, x}, {b, x}} : WF_relayVars(Step(Delivery!Connect(l), Silent!Connect(l)))
    /\ WF_relayVars(Step(Delivery!Tick, Silent!Tick))

MCSpec == MCInit /\ [][MCNext]_mcvars /\ MCFairness

-----------------------------------------------------------------------------
(* Relay's properties, each in the networks it is about                    *)

\* The types of the state, whatever the network.
TypesOK ==
    CASE network \in {"orphans", "large"} -> RelayTypeOK
      [] network = "delivery"            -> Delivery!RelayTypeOK
      [] network = "silent"              -> Silent!RelayTypeOK
      [] network = "download"            -> Download!TypeOK
      [] network = "refusal"             -> Refusal!TypeOK
      [] network = "alerts"              -> Alerting!TypeOK

\* Everywhere the two maps that AddOrphanTx, EraseOrphanTx and
\* LimitOrphanTxSize keep describe the same orphans, within the limit, and no
\* transaction is an orphan and in the pool at once; and the tx handler leaves
\* no orphan behind that the pool would take, unless a block and not a
\* transaction brought a parent.  (OrphansAreSigned is what OrphansAlwaysDrained
\* assumes.)
OrphansConsistent ==
    /\ TypesOK
    /\ CASE network \in {"orphans", "large"} ->
              /\ OrphanMapsAgree /\ OrphansNotInPool /\ OnlyBlocksStrandOrphans
              /\ OrphansAreSigned
         [] network = "delivery" ->
              /\ Delivery!OrphanMapsAgree /\ Delivery!OrphansNotInPool
              /\ Delivery!OnlyBlocksStrandOrphans /\ Delivery!OrphansAreSigned
         [] network = "silent" ->
              /\ Silent!OrphanMapsAgree /\ Silent!OrphansNotInPool
              /\ Silent!OnlyBlocksStrandOrphans /\ Silent!OrphansAreSigned
         [] OTHER -> TRUE

\* What a's wallet commits comes to b or into a block: past a link that breaks
\* or a restart with the request or the answer on the way, a forgotten
\* announcement, a child that arrives before its parent, a stranger that
\* announces and stays silent, and an entry of mapAlreadyAskedFor that outlives
\* the request it was made for (AskFor, SendMessages, ResendWalletTransactions).
WalletPaymentsArrive ==
    \A t \in {p, c} :
        Step(Delivery!Committed(t), t = p /\ Silent!Committed(t))
            ~> Step(Delivery!Arrived(b, t), t = p /\ Silent!Arrived(b, t))

\* A download of blocks stops short of the peer's chain for the two reasons of
\* BlockSync only; and while no link breaks, only at a best block that was
\* refused: its child would make the node ask for it again (WantedByOrphan).
DownloadsGoOn ==
    CASE network = "download" -> Download!NoSilentStall
      [] network = "refusal"  -> Refusal!OnlyRefusedTipsMissing
      [] OTHER                -> TRUE

\* No node shows an alert beside one that cancels it, in whatever order
\* ProcessAlert took them; and an alert one node shows has come to its peer once
\* the link is silent, but for the two exceptions Alerts names (RelayTo, the
\* version handler).
AlertsAgree ==
    network = "alerts" => Alerting!CancelledNotShown /\ Alerting!AlertsSpread
=============================================================================
