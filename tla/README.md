# HyperStake: TLA+ models, checks and proofs

HyperStake (`src/src/`) is a proof-of-stake coin derived from Bitcoin, PPCoin
and NovaCoin, with a voting system of its own on top of the block chain. This
directory models the parts of the node where a test hardly reaches: what it
keeps about the chain, about votes, its wallet, its keys, its peers and its
files while blocks and messages come in any order, threads interleave, calls
fail halfway and the process stops between two writes. TLC checks the models on
small instances; TLAPS proves the safety properties of the chain, of voting, of
the staking thread, of the connections and of the database environment, and that
the chain state implements an abstract ledger, for instances of any size.

Paths below are relative to `src/src/`.

## 1. The system

### 1.1 Components

| component | state | operations | correctness | module |
|---|---|---|---|---|
| Block chain state (`main.cpp`, `db.cpp`) | `mapBlockIndex`, `pindexBest`, `pnext`, transaction index, `setStakeSeen`, `mapOrphanBlocks` | `ProcessBlock`, `AcceptBlock`, `SetBestChain`, `Reorganize`, `ConnectBlock`, `LoadBlockIndex` | the index is that of the best chain, memory agrees with disk, the valid chain of most trust wins | `ChainState`, `Ledger` |
| Memory pool (`main.cpp`) | `mapTx`, `mapNextTx` | `accept`, `addUnchecked`, `remove` | no two pooled transactions spend one output; a reorganisation loses none | `ChainState` |
| On-chain voting (`vote*.cpp`) | `mapProposals`, vote database, `CVoteProposalManager`, tallies, `mapVoteObjects` | `Add`, `GetNextLocation`, `CheckProposal`, `ProcessNewVotes`, `setvote`, `CVoteDB::Load` | no bit serves two proposals at one height; each vote of the chain counts once | `Governance` |
| Block creation and staking (`miner.cpp`, `wallet.cpp`) | `mapHashedBlocks`, `setStakeCoins`, the block template | `BitcoinMiner`, `CreateNewBlock`, `CreateCoinStake`, `CheckWork` | a kernel found verifies, a block made on the best block is accepted, what is collected connects | `Staking`, `BlockAssembly` |
| Kernel (`kernel.cpp`) | stake modifiers | `ComputeNextStakeModifier`, `GetKernelStakeModifier`, `CheckStakeKernelHash` | the selection is the one its comments describe | `StakeModifier`, `Staking` |
| Transaction relay (`main.cpp`, `net.h`) | the two orphan maps, `mapAskFor`, `mapAlreadyAskedFor`, `mapRelay`, known inventory | `inv`, `getdata`, `tx`, `SendMessages`, `ResendWalletTransactions` | the orphan maps agree; what a wallet pays arrives | `Relay` |
| Block download (`main.cpp`, `main.h`, `net.cpp`) | `hashContinue`, `mapOrphanBlocks`, requests | `version`, `getblocks`, `inv`, `getdata`, `block` | a download does not fall silent short of the peer's chain | `BlockSync` |
| Alerts (`alert.cpp`) | `mapAlerts`, `setKnown` | `alert`, `ProcessAlert`, `RelayTo` | a cancelled alert is not shown beside its canceller; alerts spread | `Alerts` |
| Peer connections (`net.cpp`, `net.h`) | `vNodes`, reference counts, `semOutbound`, `setBanned` | accept, dial, read, ban, disconnect, delete | no thread works on a deleted node; no slot is lost; a node given up is deleted | `Peers` |
| Address manager (`addrman.cpp`) | tried and new tables, `vRandom`, counters | `Add`, `Good`, `GetAddr`, `peers.dat` | tables, counts and positions agree; a tried address is not forgotten | `AddrMan` |
| Wallet (`wallet.cpp`, `walletdb.cpp`) | `mapWallet`, spent flags, MultiSend settings | `AddToWallet`, `SelectCoins`, `CreateTransaction`, `MultiSend`, `repairwallet`, rescan | spent flags follow the chain; payments are well formed; a stake is shared once | `Wallet`, `Spending`, `MultiSend` |
| Key store (`keystore.cpp`, `crypter.cpp`, `wallet.cpp`) | keys, key pool, `nWalletUnlockTime` | `TopUpKeyPool`, `ReserveKey`, `EncryptWallet`, `walletpassphrase`, relock threads | no key is given out twice or lost; an unlocked wallet is locked again | `KeyPool`, `WalletLock` |
| Script (`script.cpp`) | the cache of valid signatures | `SignSignature`, `VerifyScript`, `CombineSignatures`, `signrawtransaction` | holders of keys complete a transaction in any order | `Signing` |
| Database environment (`db.cpp`, `walletdb.cpp`) | `mapFileUseCount`, `mapDb`, files and log | `CDB`, `Flush`, `ThreadFlushWalletDB`, `BackupWallet`, `Rewrite` | a handle in use is not closed; files and backups are whole | `DbEnv` |
| Checkpoints, RPC server, start-up, utilities, Qt, vendored code | | | see `PROJECT.json` and section 5 | |

### 1.2 Interaction

One thread at a time runs the chain code, under `cs_main`: the message thread
(blocks and transactions of peers), the staking thread (`CheckWork` submits to
`ProcessBlock`), RPC, and start-up. `ConnectBlock` calls into voting (records,
tally) and into the wallet (`SyncWithWallets`), and `ProcessBlock` ends with
`CWallet::MultiSend`. `CreateNewBlock` reads voting, the best block and the
wallet without `cs_main`. The socket thread, the message thread and the threads
that open connections share the `CNode` objects of `vNodes`; the relay keeps
its queues in them. The transaction index and the block index live in one
Berkeley DB environment: `SetBestChain` works in a transaction there; the vote
database is written outside of it, each record on its own; `wallet.dat` is a
third file, flushed by a thread of its own.

### 1.3 What is hard

The order in which blocks, transactions, alerts and inventories arrive; failure
of a reorganisation after part of it is done; stops between two commits or two
records; caches (`setStakeSeen`, `pnext`, tallies, spent flags, `setStakeCoins`,
`mapAlreadyAskedFor`) that must follow what they cache in both directions;
state read without a lock and read again (the staking thread, the MultiSend
settings, `nWalletDBUpdated`); objects shared by reference counts (`CNode`,
Berkeley DB handles); closed intervals of heights in three places that must
agree; amounts and fees that depend on each other. `PROJECT.json` lists each
under "hazards" at its line, with the property that would catch it.

## 2. The modules

| module | content |
|---|---|
| `BlockTree` | the tree of blocks and `Branch[b]`, the chain from Genesis to `b` |
| `ChainState`, `Ledger`, `ChainRefinement` | chain, index, pool and orphans; the ledger they promise; the mapping |
| `Governance` | proposals, records, tallies, votes |
| `Relay`, `BlockSync`, `Alerts` | what nodes say to each other |
| `Peers`, `AddrMan` | connections and addresses |
| `Wallet`, `Spending`, `MultiSend` | the wallet's transactions, payments, shares |
| `KeyPool`, `WalletLock`, `WalletKeys`, `Signing` | keys, passphrase, both together, signatures |
| `DbEnv` | files, handles and the log |
| `Staking`, `BlockAssembly`, `BlockCreation`, `StakeModifier` | how a block comes about |
| `MCChainState`, `MCStake`, `MCGovernance`, `MCVoting`, `MCRelay`, `MCNetwork`, `MCWallet`, `MCKeys`, `MCDbEnv`, `MCStaking` | instances for TLC |
| `BlockTreeProofs`, `ChainStateProofs`, `GovernanceProofs`, `DbEnvProofs`, `StakingProofs`, `NetworkProofs`, `KeysProofs`, `WalletProofs` | lemmas and theorems |

`Branch[b]` is the least set that contains `b` and is closed under `pprev`. It
is defined without recursion so that facts about it follow from closure
alone, which the provers can use.

### 2.1 ChainState

Constants give the blocks that may arrive (parent, height, trust, transactions,
proof of stake) and which of them break rules that the model does not compute:
`BadContext` for those `AcceptBlock` refuses, `BadValue` for those
`ConnectBlock` refuses because of values, fees or signatures.

`disk` and `txn` are the committed index and the one the open transaction sees:
`hashNext` of each block, the position of each transaction (`CTxIndex.pos`),
who spent each output (`vSpent`), and `hashBestChain`. `pc` is where the thread
that holds `cs_main` is. The actions follow the calls:

| action | code |
|---|---|
| `ProcessBlock`, `ProcessOrphanBlock`, `ProcessDuplicateStake` | `ProcessBlock`, its three outcomes that change state, after `CheckProofOfStake` |
| `AcceptOrphanBlock`, `NextInWorkQueue` | the loop over `vWorkQueue` |
| `ExtendBestChain`, `ExtendBestChainFails` | `SetBestChain` on top of the best block |
| `BeginReorganize` ... `CommitReorganize` | `Reorganize` up to `TxnCommit`, one step per block |
| `ResurrectTx`, `DeleteRedundantTxs` | the pool after the commit |
| `ConnectSecondary`, `FinishReorganize` | the postponed blocks and the update of `pindexBest` |
| `AcceptToMemoryPool` | `CTxMemPool::accept` |
| `Restart` | a stop anywhere, then `LoadBlockIndex` |

`skipped` is a ghost: the blocks that became part of the best chain of memory
although a postponed reconnect failed before them (finding 1). After that the
index describes an ancestor, and the invariants about the index are stated for
`skipped = {}`.

`CheckProofOfStake` reads the staked transaction from the committed index and
takes the modifier that `GetKernelStakeModifier` finds along `pnext`, on the chain
the node is on. `Modifiers[b]` are the blocks late enough to give a modifier to a
coin of `b`, `KernelMet[b]` those whose modifier meets the target of the stake in
`b`: a stake of one branch may be refused by a node on another.

`MCStake` adds the peers. `Offer` is a block that arrives, also one that
`ProcessBlock` refuses without a change of state (`RefusedUnchanged`), and
`refused` are those it has refused.

Abstractions. Orphans of one parent are taken in any order (the multimap's
order is that of insertion). `vResurrect` is a set; its members come from one
chain and do not conflict. A stop of the process loses no committed
transaction, as for a process crash (`DB_TXN_WRITE_NOSYNC`, `db.cpp:92`); a
crash of the operating system may lose more and is not modelled. Disk read
errors, `-checklevel` repair and the region below the last checkpoint, where
`CheckProofOfStake` is skipped, are left out. `InvalidChainFound` only warns.

**Ledger and ChainRefinement.** `Ledger` is what `ChainState` promises: known
blocks, a tip, the transactions on record and the unspent outputs; `Learn` adds
a block, `Advance` moves to a known, valid, heavier chain in one step and leaves
the ledger of that chain. `ChainRefinement` maps the committed state to it
(`known` to the block index, `tip` to `hashBestChain`, the rest to the
transaction index). `sound` ends the promise when a postponed reconnect has
failed (`Derail`), which finding 1 is about.

### 2.2 Governance

A block is what it carries: proposal transactions (`TxLists`), vote bits, and,
as a ghost, the votes this node cast in it. Bits are sets of positions, a
choice is the set of bits of its number, and `NumBits` is 28 in the code.
Heights and spans are `unsigned int` where a proposal keeps them: `nHeightEnd` is
a sum that wraps, `Add` compares it unsigned, `GetActive` and `GetNextLocation`
compare `int` casts (`AsInt`). `IntSize` stands for 2^31; `Wraps` and `Reversed`
name the periods whose sum has wrapped and those that end, as ints, before they
start. A block may carry any proposal: `ConnectBlock` never calls
`CheckProposal`. A managed bit of `NumBits` or more makes `vAvailable.at` throw
(`OutOfRange`). The caller of `CheckProposal` that this hurts is `Reorganize`,
which resurrects transactions after its commit (`SetBestChainThrows`): the
committed chain is then ahead of `pindexBest`. What the node makes of blocks in
that state depends on their inputs; the model takes none until a restart. Bits
above 31, and places the wrong way round, would make shifts undefined; no proposal
of the model has them. A choice is two bits wide and nothing in `CVoteObject`
keeps a "no" inside the place of a proposal of one bit (`Strays`).

Transactions and proposals are numbers in the order of their hashes, because
`GetProposalTXID` takes the first match of a map. All blocks have the same
trust; reorganisation is one loop of disconnects and connects, since what
postponed reconnects do differently is in `ChainState`.

| action | code |
|---|---|
| `AcceptToMemoryPool` | `CTxMemPool::accept`, proposal part included |
| `SetVote` | `setvote` |
| `ReceiveBlock`, `CreateNewBlock` | a block of another node, a block this node stakes; both enter `AddToBlockIndex` |
| `DisconnectBlock`, `ConnectBlock` | the steps of `Reorganize` / `SetBestChainInner` |
| `SkipTransaction`, `RecordProposal`, `RecordProposalFails` | the loop of `ConnectBlock` over `vQueuedProposals`, one write per step |
| `RecordVotes`, `RefuseReward` | the tally, then the reward check |
| `SetBestChain`, `SetBestChainThrows` | the pool and `pindexBest`; an exception of `vAvailable.at` on the way |
| `Restart`, `LoadProposal`, `LoadDone` | a stop anywhere, `CVoteDB::Load`; tallies are not read back (`db.cpp:835`) |

The database lists records by the bytes of their keys, which is not the order of
the hashes as numbers: `LoadProposal` takes any unread record. Lengths of names
and descriptions are the set `WellNamed`. Creation of a block and its submission
are one step.

### 2.3 Relay, BlockSync, Alerts

A link is a pair of FIFO streams; when it breaks, the `CNode` objects of both
ends and everything in flight are gone. Times are relative to now, in units of
the two minutes of `AskFor`, and -1 is "long ago or no entry", so that no clock
grows.

`Relay`: `ProcessMessages` (the handlers of `inv`, `getdata` and `tx`, the
work-off of orphans and `LimitOrphanTxSize` included), `SendMessages` (trickle,
inventory, requests), `CommitTransaction`, `ResendWalletTransactions`,
`ConnectBlock`, `Tick`, `Connect`, `LoseLink`, `Restart`, `ForgetInventory`
(`mruset` at its limit), and a stranger that sends and reads what it likes.
Transactions are names with parents; `Invalid` and `Large` are sets.

`BlockSync`: the same links with the version handshake, `getblocks` with its
locator and `hashContinue`, `inv`, `getdata` and `block`; `Mine` extends a node's
chain, `TenSeconds` is the spacing of repeated `getblocks`. All blocks are valid;
`refused` are those a stake rule refused once. What a node does with a block
beyond its place in the tree is in `ChainState`.

`Alerts`: `Issue`, `ReceiveAlert` (`ProcessAlert` and `RelayTo` to every peer),
`ReceiveVersion` (the alerts told to a new peer), `Tick`, `Connect`,
`Disconnect`. Badly signed alerts are the set `Ignored`.

### 2.4 Peers, AddrMan

`Peers`: one action is what a thread does without another getting in between, a
section under `cs_vNodes` or one access to an unprotected field. The socket
handler accepts, reads, disconnects and deletes (`SocketHandlerStep`), the message
handler works on a counted copy of `vNodes` (`MessageHandlerStep`), openers dial
and hand over their slot (`OpenerStep`), and there are `OneTry` (`addnode
onetry`), `TimePasses` (timeouts) and `BanEnds`. Message contents are left out.
`ConnectNode` increments the count of an existing node with no lock held, in two
steps (`LookForExisting` reads it, `AddRefExisting` writes it); `lostCount` is
history, set when the value written is stale. A slot is handed over by
`CSemaphoreGrant::MoveTo` and given back by `Release`, which take no lock: check,
post, clear and set are steps of their own in openers (`MoveGrant`, `PostMoved`,
`ClearMoved`, `SetMoved`) and in the socket handler (`PostGrant`, `ClearGrant`).
Two openers that reached one node, or one and the handler, may be in them at once;
`grantRaced` records that, and `SlotsConserved` holds until then. TLC finds that
the race loses a slot in 13 steps and doubles one in 21. `NoNodeUsedAfterDelete` is about the
copies of `vNodes` as long as none was lost, and about the pointers of the openers
in any case.

`AddrMan` keeps every table, counter and position by hand as the code does:
`Add`, `GoodAgain`, `MakeTried`, `GetAddr`, `Reload` (`peers.dat` written and
read back). Entries are named by address; buckets are constant functions of it;
the statistics behind `IsTerrible` are a free choice. The two share no state;
`MCNetwork` checks them in cases of their own.

### 2.5 Wallet, Spending, MultiSend

`Wallet`: `mapWallet`, `vfSpent` and `hashBlock` beside a chain: side blocks,
`SetBestChain` that succeeds, fails or is cut off, `ReceiveTx`,
`CommitTransaction`, `SelectStakeCoins`, `FixSpentCoins` (`repairwallet`),
`Restart` (rescan and reaccept). Wallet records are written at once, the chain
at its commit. A transaction has one output that may be ours. `DisableTransaction`
only clears flags, so the order in which a branch is disconnected plays no part;
connecting marks and places, and goes through the blocks in order. Two ghost
variables, `failed` and `repaired`, record that `SetBestChain` has failed or was
cut off, and that the user has called `repairwallet`: what the wallet promises
depends on both.

`Spending`: one request, from `SelectCoins` to the finished transaction. Each
pass of the stochastic subset sum is a step; the fee is raised and the choice
made anew until it covers the size, which is a linear function of inputs and
outputs. `SendProposal` pays a fixed fee.

`MultiSend`: the `multisend` command, whose records are erased and written one
by one, `CWallet::MultiSend` at the end of `ProcessBlock`, the outputs
`CreateCoinStake` adds, and restarts anywhere. The settings are read twice
without a lock (`KernelFound`, `SetAmounts`).

### 2.6 KeyPool, WalletLock, Signing

`KeyPool`: operations hold `cs_wallet`, one at a time, but their steps are
separate because the relock thread and the end of the process come in between.
Top-up, reservation, return, `CheckWork`, `EncryptWallet` with its transaction,
the new pool after it and `CDB::Rewrite`, `WalletPassphrase`, `Relock`, `Crash`,
`LoadWallet`. Another thread may keep a reservation through an encryption. A new or
emptied pool starts again at index 1, whatever is reserved (`wallet.cpp:2204`);
`reused` records that a reserved index went to another key. `LoadWallet` opens
`wallet.dat` and nothing else: after a stop between the two steps of `Rewrite` it
makes an empty wallet, and what was given out by then is in `lost`. A `Rewrite`
that fails without a stop is in `DbEnv`.

`WalletLock`: `walletpassphrase`, `walletlock`, a wrong
`walletpassphrasechange`, and the threads of `ThreadCleanWalletPassphrase`, which
share `nWalletUnlockTime`; times are what is left.

`Signing`: the holders of keys call `signrawtransaction` on whatever copies of
a transaction they were sent. Scripts are what `Solver` makes of them
(`TX_PUBKEY`, `TX_PUBKEYHASH`, `TX_MULTISIG`, `TX_SCRIPTHASH` of a
multisignature, the only script `addmultisigaddress` stores); a `scriptSig` is
the stack it leaves; a signature names key, script, version of the transaction
and try. `by` of a copy is history: who signed what it was made from.

### 2.7 DbEnv

`CDB` objects and `mapFileUseCount`, transactions, `nWalletDBUpdated`, whose
increment is a load and a store, the flush thread, `BackupWallet`, `Rewrite`,
`Flush` and the shutdown. `Rewrite` succeeds (`CopyRenamed`), fails before it has
removed the file (`CopyFails`) or between removal and renaming (`RenameFails`).
A file is its pages in the cache, its pages on disk,
and whether those need the log. `missed` is history: since its
last flush `wallet.dat` was written or rewritten without being counted in
`nWalletDBUpdated`. `Init` assumes that the flush thread read the counter before
anyone wrote (`walletdb.cpp:569`); a write that came earlier would wait for the next.

### 2.8 Staking, BlockAssembly, StakeModifier

`Staking`: `BitcoinMiner` turn by turn, with the best block changing between
any two steps: gate, votes, search for a kernel, collection, nonce and
signature, `CheckWork`. A best block is what the thread reads of it: its height,
target and earliest time, the coins its chain has spent, and the modifier each
coin finds along `pnext`, or none. `NewBest` puts a block on top, which leaves the
modifiers that were found, or reorganises to a chain of any height, with other
transactions and modifiers. A coin whose transaction is not in the index, or
that finds no modifier, is passed by (`Stakeable`). Hashes are numbers. `shortened`
is history: the height has fallen since the turn began. The clock only goes
forward; `AddTimeData` is left out.

`BlockAssembly`: the two passes of `CreateNewBlock` over the pool, in any order
that priorities and fees could give. All the pool promises is that no output is
spent twice in it: `mempool.remove` (`main.cpp:750`) takes out neither what
conflicts with a connected transaction nor what spends a removed one, and a
resurrection may be refused, so a transaction may lack an input or spend what the
chain has spent. When the first pass finds an input missing it pops the `COrphan`
off `vOrphan` (`miner.cpp:264`), but the entries for the inputs before it stay in
`mapDependers`: `freed` are those orphans, and what the second pass finds there is
undefined: nothing that matters, the old orphan, which is queued, or the end of
the process. (`-debug` asserts instead.) The order of `vin` is abstracted to the
choice of the inputs that came before the missing one.

`StakeModifier`: `AddToBlockIndex` computes modifiers on a growing tree with
times that are not monotone; `GetKernelStakeModifier` follows `pnext`. The
candidates are found by the code's walk and its stop (`kernel.cpp:167`). The
reference selection is stated apart from it, and finds its candidates from the
times of the chain alone.

## 3. The runs

Each property has a mutant in `PROJECT.json`: a plausible bug in one mapped
definition, under which TLC finds the property violated.

| run | cases | states | properties and what they say |
|---|---|---|---|
| `chain_reorganisation` | nine blocks, three tips, conflicting, dependent, repeated and too-early transactions, two blocks with one proof of stake, one restart | 7,149 | `ChainStateConsistent` (types, index = best chain, memory = disk, pool maps agree), `DiskIsReplayOfBest` (the index does not depend on the route), `BestValidChainChosen`, `NoStrandedOrphans`, `BestTrustIncreases`, `NoTxLost`, `CallReturns`, `LedgerRefined` |
| `stake_duplicates` | two pairs of blocks with one proof of stake each, on one of two branches with modifiers of their own | 19,604 | `NoLeakedOrphanStake`, `HeaviestChainWins` (exceptions: a refused tip, a modifier of another branch) |
| `governance_records` | records: two branches, conflicting proposals, a refused block, a failing write; heights that wrap, bits out of range, a restart; votes: a node that proposes, votes and stakes | 379,992 | `RecordsConsistent` (every record has its place, managed ones are readable), `NoSharedBits` (but for a wrapped period), `TallyIsExact`, `NextLocationIsLeftmostFree`, `OwnVotesAreCounted` |
| `relay` | orphans, large, delivery, silent, download, refusal, alerts | 371,701 | `OrphansConsistent` (both maps agree, within the limit, apart from the pool, and are drained), `DownloadsGoOn`, `AlertsAgree`, `WalletPaymentsArrive` |
| `network` | lifetime, slots, inbound, addrman | 1,187,860 | `NoNodeUsedAfterDelete`, `SlotsConserved` (until two threads handle one grant at once), `FlaggedPeersAreDeleted`, `AddressBookConsistent` (the parts of `Check_`), `TriedNeverDeleted` |
| `wallet` | reorg, repair, faults, spending, multisend | 453,905 | `WalletFollowsChain` (spent coins flagged, depths known, orphaned stakes refunded), `WalletKeepsItsTxs`, `RestartMendsFlags`, `PaymentsAreGood` (inputs = outputs + fee, fee covers the size and is bounded, refused only without funds), `StakesAreShared` (once, settings saved, coinstakes whole) |
| `keys` | pool, relock, signing | 1,020,866 | `KeysAreSafe` (no key is given out twice; given keys are in the file a restart opens, unless the process stops between removal and renaming; the pool is readable, unless a reserved index went to another key; the file loads; store and file agree), `UnlockedIsWatched` (a thread will lock what is unlocked, in time), `WalletIsRelocked`, `CosignersComplete` (complete exactly when enough have signed, `OP_CHECKMULTISIG` against a reference, `IsMine` implies signable) |
| `database` | rewrite, flush | 225,009 | `HandlesProtected`, `FilesAreWhole` (backups, shutdown, flushed when counted so), `WalletIsFlushed` |
| `block_creation` | staking, heights, assembly, modifier | 2,513,903 | `StakedBlocksAreGood` (kernels verify, steady blocks accepted, votes for the right height unless the chain became shorter), `CollectionIsComplete` (for any pool that spends nothing twice), `SelectionIsReference`, `KernelModifierKept` |
| `best_block_on_disk`, `votes_for_next_proposal`, `refused_proposals` | | violations | findings 1 to 3 |

**Cases.** A run with several cases holds several instances of modules that
share no state with each other. The case is a variable chosen in the initial
state and never changed, a step is a step of that case's instance, and a
property names the case it is about: the run checks each instance as a run of
its own would. A component that is not in play keeps one initial state.

**Bounds.** All are constants named in the modules (`MaxRestarts`, `MaxBreaks`,
`MaxWriteFailures`, `MaxKeys`, `MaxCopies`, ...).
*Chain:* one restart, since what it leaves depends on the disk only and two
stops without a block in between are one; the tree has branches of unequal
depth in both orders of trust, so reorganisations run both ways, over one and
several blocks, with and without postponed ones, and fail in each phase. In
`MCStake` the staked transactions lie below the fork, so that
`CheckProofOfStake` finds them on either; a block after the fork gives them their
modifiers, and one on another branch gives the wrong ones.
*Voting:* four bits and proposals of one and two: enough for a gap, an overlap, a proposal that starts as another ends and a "no" that spills over; an `int`
of three bits and a sign, so that a sum wraps; one proposal beyond the last bit. `VotingStart` = 0 is the rule of the
test network; the main network has `VOTING_START` = 9999999 (`main.h:47`).
*Relay:* a family of three transactions and an invalid child, two orphans held
at most, so that eviction happens; one break of a link and one restart fall at
any point of a delivery. Five or six blocks in batches of two: a batch ends in
the middle, at the tip, and at an orphan. Three alerts that cancel in a chain,
one of which expires first.
*Network:* two `CNode` objects, one or two openers, two slots; four addresses
for buckets of one or two entries, so that eviction happens in both directions.
*Wallet:* a coin, a payment and its successor, a stake and its successor, over
three branches; four coins of different age and value and fees large enough
that a fee is raised and changes the choice; two stakes, one of them split, two
payees, four commands.
*Keys:* six keys for a pool of one and an encryption, with one thread that may keep
a reservation throughout; three relock threads with timeouts of none, a
short and a long time; three signatures on a script of three places.
*Database:* two threads, two files, one or two writes, three `CDB` objects, two
where liveness is checked.
*Block creation:* one coin with one or two hits in the time explored; one other
block of any kind, or two that change only the height, which the exception of
votes needs; six pooled transactions with a chain, a join and a conflict, any of
which may be missing, on three outputs the chain may have spent; five blocks with
gaps back and forth in time.

**Fairness.** `CallReturns`: weak fairness of `Step`, since the thread that
holds `cs_main` waits for nothing inside. `HeaviestChainWins` adds weak fairness
of the reception of each block until the node has refused it, and after that only
of blocks that others build on: `AskFor` and `getblocks` bring back the ancestors
of an orphan, but a tip that was refused may never be offered again
(`main.cpp:3505`). The property names what follows: a heavier chain is missed when
its tip was refused, or when a stake on it depends on a modifier that only its own
branch has. `WalletPaymentsArrive`: the message loop runs, the clock advances, every
peer is drawn as the trickle node again and again, links are made anew, and
`ResendWalletTransactions` gets its turn, which in the code presumes that blocks
keep arriving (`wallet.cpp:919`); nothing of strangers, blocks or the
moment a wallet spends. `FlaggedPeersAreDeleted`: the threads run; strong
fairness of `EndPoll`, because the socket handler frees `cs_vNodes` in every
turn and a thread that waits for it gets it; `n1` stands for both nodes, which
are interchangeable. `WalletIsRelocked`: relock threads run and the clock
advances. `WalletIsFlushed`: the flush thread polls every 500 ms, and a thread
with a `CDB` goes on to close it (its destructor does), strongly fair because
other threads may keep `cs_db` busy now and again.

**Deadlock** is not checked where a behaviour may end: a node that has every
block it is offered, a vote or relay instance whose bounds are used up, an
environment that is shut down, a block that is assembled. It is checked in
`network`, `wallet` and `keys`.

### 3.1 Findings

1. `best_block_on_disk` (`main.cpp:1946`): a postponed block that fails to
   connect ends the loop, and the tip becomes the best block all the same.
   Memory then has a best block the disk never had.
2. `votes_for_next_proposal` (`miner.cpp:119`): votes are chosen for the height
   before that of the new block, so the last vote on one proposal may count for
   the next proposal on its bits.
3. `refused_proposals` (`main.cpp:720`): a refused proposal stays in the pool.

`PROJECT.json` quotes the lines that say otherwise.

### 3.2 Other disagreements met while modelling

The models contain these behaviours, and the properties are stated so as to
leave them out; they have no run of their own.

*Chain and voting*
- `main.cpp:2354`: a duplicate stake is refused once; the refusal forgets the
  stake, and a second delivery would be accepted. A block that others build on is
  asked for again, a tip is not.
- `main.cpp:750`: `remove` leaves in the pool what conflicts with a connected
  transaction and what spends a removed one; `miner.cpp:264`: for a transaction that
  lacks an input, `CreateNewBlock` frees an orphan that `mapDependers` points to.
- `main.cpp:1686`: disconnecting a block removes its proposals from nowhere.
- `voteproposalmanager.cpp:90`: a proposal is open for `nCheckSpan + 1` blocks.
- `voteproposalmanager.cpp:53`: the end of a period is an unsigned sum that may wrap;
  `ConnectBlock` does not call `CheckProposal`, so a block may bring such a proposal,
  which shares its bits with others.
- `voteproposalmanager.cpp:242`: a managed proposal with a bit above 27, which
  `ConnectBlock` lets in too, makes `GetNextLocation` throw; in `Reorganize` that
  leaves the committed chain ahead of memory.
- `voteobject.h:89`: a "no" has two bits and spills over from a proposal of one bit.

*Relay, download, alerts*
- `net.h:359`: an orphan dropped for its size is not announced again on the same
  connection, although `main.cpp:217` counts on it.
- `main.cpp:4063`: `SendMessages` overwrites the time `AskFor` handed out, so two
  requests may be less than two minutes apart (`net.h:379` says otherwise).
- `main.cpp:3505`: a download may fall silent when the tip was refused, or when a
  link broke with requests on the way.
- `alert.cpp:137`: an alert relayed between the two halves of a handshake is marked
  as known to a peer that dropped it; `alert.cpp:216`: an alert that is refused as
  cancelled has removed others by then, so two nodes may show different alerts.

*Peers and addresses*
- `net.cpp:1608`: a node that is disconnected before it gets its grant keeps the slot.
- `rpcnet.cpp:88`: a node of `addnode onetry` is never deleted.
- `sync.h:173`: `MoveTo` and `Release` on one grant from two threads lose or double a slot.
- `net.cpp:466`: two threads that dial one address may use a node being deleted.
- `main.cpp:3820`: a message whose handling closes the socket empties the buffer
  under the iterator of the loop.
- `addrman.cpp:142`: `SelectTried` returns the other entry of its last swap.

*Wallet and keys*
- `main.cpp:1564`: spent flags follow a reorganisation that is then refused.
- `wallet.cpp:2481`: `FixSpentCoins` frees coins that a pooled transaction spends;
  `wallet.cpp:2461`: it erases transactions whose block may come back.
- `wallet.cpp:1175`: when `CreateTransaction` fails `MultiSend` commits all the same.
- `wallet.cpp:1137`: the depth must be exact, so a stake is passed over when
  several blocks connect at once, and one stake is shared per height.
- `wallet.cpp:1147`: one disabled address ends the loop for all others.
- `wallet.cpp:1872`: a change of the settings while a coinstake is made gives
  amounts to the wrong outputs or to ones that do not exist.
- `rpcwallet.cpp:2473`: `clear` does not save that MultiSend is off; a stop between
  erased and written records brings back old payees.
- `wallet.cpp:2204`: a pool that is empty, or that `NewKeyPool` has made anew
  (`wallet.cpp:2168`), starts again at index 1, which a thread may have reserved: its
  `KeepKey` or `ReturnKey` then meets another key.
- `wallet.cpp:49`: `TopUpKeyPool` throws when the wallet is relocked meanwhile.
- `miner.cpp:104`: `CheckWork` keeps another reservation than the one the block pays to.
- `rpcwallet.cpp:1435`: a relock thread that starts late may extend a shorter timeout.
- `script.cpp:1744`: with a single key the first signature wins, also one of a draft.

*Database and staking*
- `db.cpp:424`: `Rewrite` removes the file before it renames the copy; after a stop
  between the two `LoadWallet` makes an empty wallet.
- `walletdb.cpp:63`: vote objects are written to the wallet without being counted.
- `miner.cpp:226`: a block that arrives between two reads makes the node's own
  coinbase state a wrong height; when a reorganisation to a shorter chain comes in between, an
  accepted block may carry votes of another height.
- `kernel.cpp:361`: a second hit in one burst lies beyond `hashdrift`;
  `kernel.cpp:391`: the burst is recorded for the height read after it.
- `kernel.cpp:257`: a block of another branch is checked with the best chain's modifier.

*What the properties do not reach.* `WalletKeepsItsTxs` holds until `repairwallet`
is called: that the call erases transactions `setStakeCoins` may still point to
(`wallet.cpp:2470`) is listed above and caught by no property. `StakesAreShared`
leaves out coinstakes during whose making the settings change (`wallet.cpp:1872`).
`KernelModifierKept` is about a chain that grows; a reorganisation may change a
modifier, which `Staking` and `MCStake` contain and which decides there whether a
block is accepted. `Spending` leaves out `destChange` (`wallet.cpp:1494`), a change address of the user.

## 4. The proofs

All theorems hold for every tree of blocks (finite or not, except where stated),
every set of transactions, proposals, threads, files or connections and any number
of restarts and failing writes, under the named assumptions of the modules, which
TLC evaluates in the runs: `TreeAssumption` (a parent has height one less),
`TrustAssumption`, `TxAssumption` (a block repeats no transaction, and only
coinbases have no inputs), `CoinbaseHeightAssumption` (a coinbase contains its
height), `StakeAssumption`, `ProposalAssumption` (heights are unsigned ints; a proposal's bits are at most 31 and
the right way round, since shifts are undefined otherwise), `BoundAssumption` (at most 256
bits, since a location is a byte; the code has 28), `DbAssumption` and
`PeersAssumption` (finitely many threads and `CNode` objects, so that counts are
numbers), `StakingAssumption` (a hash is a number at every time the search can
reach), `KeyPoolAssumption`, `LockAssumption`, `AssemblyAssumption` (sizes are
numbers, a transaction has finitely many inputs), `ModifierAssumption` (the
interval, the rounds and the ratio are positive), `AddrManAssumption` (finitely
many addresses and new buckets, sizes of at least one, every address has its
buckets), `WalletAssumption` (finitely many transactions),
`RelayAssumption` (links join nodes, a stranger is not a node, only valid
transactions are mined) and `ChainAssumption`.
The last is what `ConnectBlock` makes sure of, in a form the wallet can use: on a
branch without a refused block, a block spends only what is before it, and neither
spends nor contains what an earlier block of its branch does. (`ConnectBlock` lets
a block repeat a transaction whose outputs are all spent, but such a transaction
would spend its own inputs again, or be a coinbase, and a coinbase has its height
in it.) Two theorems have hypotheses of their own (`TallyAlwaysExact` and
`OrphansAlwaysDrained`), named below. Exceptions a property makes are in its
definition, so that the runs and the theorems say the same.

| module | theorem | property of a run |
|---|---|---|
| `ChainStateProofs` | `ChainStateAlwaysConsistent`, `OrphanStakeNeverLeaks`, `BestTrustAlwaysIncreases`, `ChainStateImplementsLedger`, `DiskAlwaysReplayOfBest`, `BestValidChainAlwaysChosen`, `OrphansNeverStranded`, `NoTxEverLost` | `ChainStateConsistent`, `NoLeakedOrphanStake`, `BestTrustIncreases`, `LedgerRefined`, `DiskIsReplayOfBest`, `BestValidChainChosen`, `NoStrandedOrphans`, `NoTxLost` |
| `GovernanceProofs` | `RecordsAlwaysConsistent`, `ProposalsNeverShareBits`, `TallyAlwaysExact`, `NextLocationAlwaysLeftmost`, `OwnVotesAlwaysCounted` | `RecordsConsistent`, `NoSharedBits`, `TallyIsExact`, `NextLocationIsLeftmostFree`, `OwnVotesAreCounted` |
| `DbEnvProofs` | `HandlesAlwaysProtected`, `FilesAlwaysWhole` | `HandlesProtected`, `FilesAreWhole` |
| `StakingProofs` | `StakedBlocksAlwaysGood`, `CollectionAlwaysComplete`, `KernelModifierAlwaysKept` | `StakedBlocksAreGood`, `CollectionIsComplete`, `KernelModifierKept` |
| `NetworkProofs` | `NodesNeverUsedAfterDelete`, `SlotsAlwaysConserved`, `AddressBookAlwaysConsistent`, `TriedAreNeverDeleted`, `OrphanMapsAlwaysAgree`, `OrphansAlwaysDrained` | `NoNodeUsedAfterDelete`, `SlotsConserved`, `AddressBookConsistent`, `TriedNeverDeleted`; the parts of `OrphansConsistent` |
| `KeysProofs` | `KeysAlwaysSafe`, `UnlockedAlwaysWatched` | `KeysAreSafe`, `UnlockedIsWatched` |
| `WalletProofs` | `WalletAlwaysFollowsChain`, `WalletAlwaysKeepsItsTxs`, `RestartAlwaysMendsFlags` | `WalletFollowsChain`, `WalletKeepsItsTxs`, `RestartMendsFlags` |

**BlockTreeProofs**: `Branch[b] = {b} \cup Branch[Prev[b]]`, heights grow along a
branch, a block is not on its parent's branch, Genesis is on every branch, and a
block below the tip has a child on the branch.

`TreeInduction` and `TreeRecursion` carry a set, or a function given by a rule,
from Genesis up along `pprev`, with heights as the measure; the recursive
definitions over the tree (`ChainTrust`, `Replay`, `ValidBranch`) get their
equations from them.

**ChainStateProofs**. `TypeCorrect`; then `DiskAlwaysConsistent` and
`MemoryAlwaysMatchesDisk` from the inductive invariant

    IInv == TypeOK /\ (skipped = {} => ChainInv)

`DiskConsistent` alone is not inductive: the disk is replaced by the open
transaction at `CommitReorganize`, so `ChainInv` also says that this view is
consistent during a reorganisation, that `pnext` is the disk's `hashNext`
throughout, and where the disk's best block lies in each phase. The core are
two lemmas, one for `Connect` and one for `Disconnect`: each takes a consistent
view to a consistent view. For `Connect` the check against overwriting
(`Overwrites`) and the height of coinbases are what keeps an index entry from being
replaced; for `Disconnect`, that outputs are spent only above the block that made them.
`PoolAlwaysConsistent` and `OrphanStakeNeverLeaks` are inductive with types.

`ChainStateAlwaysConsistent` is the conjunction the run checks.

**GovernanceProofs**. `GovernanceInvariant` proves

    IInv == TypeOK /\ ChainOK /\ NoConflicts /\ RecordsOK /\ EveryRecordHasItsPlace

`NoSharedBits` follows from `NoConflicts`, which `Add` preserves because
`Conflict` is symmetric: unless its period has wrapped, a proposal that `GetActive`
returns for a height, comparing ints, has that height between its unsigned start and
end too (`ActiveInPeriod`). A wrapped period conflicts with nothing in `Add`, and the
property says so; `ManagedProposalsAreReadable` from `RecordsOK`, which
says that a managed proposal has a listed transaction and, while no write has
failed, a listed transaction has a record. `TallyAlwaysExact` assumes a finite
tree and `VotingStart <= 1` and needs one more invariant, `TallyInv`: also the
tallies of the old best chain stay exact while a reorganisation runs, because
a failure returns to it. They do since the blocks connected are never on the
old chain: what both chains share lies below `tip`.

`RecordsAlwaysConsistent` is the conjunction the run checks.

`NextLocationAlwaysLeftmost` is about a pure function, the loop of
`GetNextLocation` over the bits, for a wanted period that an `int` holds and managed
proposals whose periods are not reversed (`Reversed`). `RunsOK` shows that the loop's
counter, a recursive function, is the distance from a bit to the end of the run of
available bits it lies in, and `FitsOK` that the left-most bit where the counter is
exactly the size asked for is the left-most place with that many free bits. A
proposal in the way with a bit that `vAvailable` does not have makes the call throw,
and nothing else does.

`OwnVotesAlwaysCounted` is about proposals of any number of bits. Its invariant
`OwnVoteInv` says that each block this node made shows each vote it cast at its
proposal's place (`CastOK`, from `NoConflicts`: no other vote can touch those bits
unless a choice of the block strays from its place), and that the tally of each
block on either chain in play counts it (`CountedOK`), strays or not. It speaks of a
run without restart and failed write: a restart reads proposals back and not
tallies, and `SetNewPositions` stops at the first proposal whose record it cannot
read.

`BestTrustAlwaysIncreases` and `ChainStateImplementsLedger` are about the ledger.
The inductive invariant `TrustInv` says that the index
is closed under `pprev`, that the disk's best block has no more trust than
`pindexBest`, that `pindexIntermediate` is heavier than it and on the branch of
`pindexNew` while a reorganisation runs, and that after the commit the disk's
best block is on that branch. `ViewIsLedger` turns a consistent view of the
transaction index into the ledger of its chain, and `LedgerStep` takes each
action to `Learn`, `Advance`, `Derail` or a stutter.

The other four ask whether the route matters: a committed index is reached through
connects, disconnects, failures and restarts. `DisconnectInverts` shows that
`DisconnectBlock` undoes `ConnectBlock` exactly on a view where the block
connects, so `DisconnectReplay` takes the replay of a branch to that of its
parent, and `ConnectReplay` the other way. The inductive invariant `RouteInv` says
that the disk and the open transaction are replays of their best blocks
(`ReplayInv`), that an orphan whose parent is indexed is one the work queue is
still to reach, or has an invalid parent (`QueueInv`, `OrphanInv`), and that an
indexed block with more trust than the best block is the one being tried, or not
valid (`BestInv`). `FailureMeansInvalid` is why trying is enough: a branch that
did not connect is not valid, since the replay is the only view there is.
`NoTxEverLost` is an action property; it is conditioned on the process not
restarting in the step (the pool is lost then) and on no failed postponed
reconnect.

**DbEnvProofs.** `EnvInv` has four parts. `UseInv`: an entry of `mapFileUseCount`
is the number of `CDB` objects on the file, and a file without an entry has none;
so `NoClosedHandleUsed` holds for any number of threads. `FileInv`: a file whose
log is detached has the same pages in cache and on disk, uncommitted writes belong
to open `CDB` objects, a file that is not in `mapFileUseCount` has been flushed.
`CountInv` is about `nWalletDBUpdated`, which threads increment by a load and a
store with no lock: increments do get lost, yet whenever a counted write waits for
a flush the counter is ahead of `nLastFlushed`, because a thread that loaded it
saw a value that was not flushed past.

**StakingProofs.** `ThreadInv` says what the staking thread knows at each of its
steps, whatever the best block becomes meanwhile. `KernelInv`: the kernel meets
the target with the modifier of its search; `SearchOK` is the loop of
`CheckStakeKernelHash`, by induction on its turns (`LoopInduction`, from the least
natural number at which it would fail), and `WeightGrows` is why a kernel that hits
with the weight of an earlier time hits at its own. `ModifierInv`: best blocks are
numbered as they come, and while the one the thread read first is still the best,
its chain has the modifier of the kernel; so the check of `CheckWork` meets the
modifier of the search. `BlockInv`: which reading each field of the block comes
from. `HeightInv`: until the chain becomes shorter (`shortened`) the heights read
follow each other, so that a block whose `CheckWork` succeeds was voted on at its
own height. `StakedBlocksAlwaysGood` has no hypothesis: reorganisations may change
heights, coins and modifiers in any way.

`CollectionAlwaysComplete` is about the collection of transactions,
`BlockAssembly`, over every pool in which no output is spent twice. `CollectInv` ties
the two maps that the first pass fills to the pool: what `setDependsOn[t]` still has
is exactly what `t` waits for and the block has not; `mapDependers` is its inverse,
with freed orphans besides; and a transaction that waits for nothing is in the
queue, in the block, over a limit, or in conflict with the chain (`WaitInv`).
`mapTestPool` has then every parent and no output twice (`TestPoolInv`), so that
connecting fails only for what conflicts with the chain, or was freed and still lacks
an input (`PassInv`), whatever order the queue is worked off in and whatever the
loop finds in freed memory; and what is left out at the end waits for something
left out.

`KernelModifierAlwaysKept` is about `StakeModifier`. A kernel's modifier is looked
up along the best chain, so it would change if a longer chain put a block between
a coin and the block found for it. `IndexInv` says that blocks are numbered as
they come, each after its parent. Then the recursive function behind `Branch` has
a value for every block (`UpExists`, built up to each number in turn), a later
index gives the old blocks the branches they had (`BranchesStay`), and a branch
has beyond each of its blocks only later ones (`BranchesOK`). A chain that still
contains the old tip therefore adds candidates only above those it had, and the
least one, which `GetKernelStakeModifier` takes, stays the same (`MinStays`). How
the modifier was computed does not matter, nor do the times of the blocks.

**NetworkProofs.** For `Peers`, `NodesInv` is inductive. A count is at least the number of its
holders: membership in `vNodes` or the socket handler's hands, and one for each
copy (`CountInv`). A node without references is thus in no copy when `DeleteNodes`
frees it; `CountInv` holds until an increment is lost (`lostCount`). The pointers of
openers are not counted; what protects them is that their node is in `vNodes`
or was disconnected less than fifteen minutes ago (`OpenerInv`), with `GetRefCount`
reading `nReleaseTime`. `ListInv` and `SocketInv` say in which list a node is in
each phase of the socket handler, and `MessageInv` that the loop of
`ProcessMessages` stays within its buffer. `SlotInv` counts: the semaphore, the
nodes with a grant and the openers that carry a slot add up to `MaxOutbound`, a
node whose slot is posted and not yet cleared counted as one without. That holds
until two threads handle one grant (`grantRaced`): till then a hand-over has its
node to itself (`Alone`), and a thread between its check and its post finds the
grant still there (`HandOver`).

For `AddrMan`, the invariant `Book` is what `Check_` checks, and inductive
as it stands; it is stated of any value of the object, so that it can be asked of
the values in the middle of an operation. There it need not hold: `Entered` says
what `Add_`, with or without `ShrinkNew`, has done to the tables, `Moved` what
`MakeTried` has, with an eviction or without, and `EnteredIsBook` and
`MovedIsBook` that both lead back to a book. The delicate step is the eviction:
the entry goes to its own bucket or to the one the promoted entry came from, and
the latter has room because that entry has just left every new bucket. The loops
of `SelectTried` and of reading `peers.dat` are recursive functions: `LoopExists`
gives them a value at every turn and `LoopKeeps` carries a set along the turns,
`ReadSoFar` being the set for `peers.dat`: no entry read so far is lost, since a
tried bucket that was in bounds when written is in bounds when read. For
`TriedNeverDeleted`, each operation shows `Stay` beside `Book`.

For `Relay`, `OrphanInv` describes the orphan maps of one node, and `OrphanMapsAlwaysAgree`
is that invariant for every node: entries come and go in `AddOrphanTx` and
`EraseOrphanTx` only, which touch both maps (`mapOrphanTransactions` and
`mapOrphanTransactionsByPrev`), whether the orphan is evicted, accepted or
invalid. What the handler
of `tx` leaves behind is `OrphansAlwaysDrained`. Its work queue is the least set
with the transaction and every orphan that can be accepted once a parent in it is;
`WorkQueueClosed` shows that it has that property itself. So an orphan whose last
missing parent was accepted is either accepted too, or invalid and erased
(`AcceptedDrains`), and any other still waits for what it waited for (`Drained`).
The theorem assumes `OrphansAreSigned`: nobody sends a transaction, or a child of
one, that its owner's wallet has still to make, since it would have to carry the
signature. TLC checks that in `OrphansConsistent`.

**KeysProofs.** `KeysAlwaysSafe` is about `KeyPool`, with reservations kept through
encryptions and pools of any size. Each record of the pool has a key of its own
that the file has and that was not given out (`RecordsInv`), and records only ever
get new keys, so a key given out does not come back, whatever index it gets. Until
a reserved index goes to another key (`reused`), the records are those of
`setKeyPool` and of the reservations, which are apart (`PoolInv`), and so every
reservation finds its key. What was given out is in the file in use unless it went
with a file that was removed (`GivenInv`, `lost`). `FileInv` and `StoreInv` say
which of the two files can be loaded, and what it has, at each step of
`EncryptWallet` and of `CDB::Rewrite`.
`UnlockedAlwaysWatched` is about `WalletLock`. Its property is inductive as it
stands, over every number of relock threads and timeouts.

**WalletProofs.** Connecting blocks is two loops, over the transactions of a block
and over the blocks of a branch, both recursive functions. `LoopExists` and
`BranchRuleExists` give them values, and `SyncConnectedEffect` and
`SyncBranchEffect`, by induction on the turns and up the tree, say what they do:
the wallet has grown by transactions of those blocks only (`Grew`), has each of
them that concerns it, with the outputs it spends marked (`Has`), and knows the
block each is in (`PlacedAll`). That holds where what they spend was looked at
before them (`Ready`), which is what `ChainAssumption` is for.

`WalletInv` is inductive. Until `repairwallet` is called the wallet has every
transaction of the chain and the pool that concerns it and the parents of ours
(`Known`, `ClosedUp`), whatever fails. Until `SetBestChain` fails it follows the
chain of `best` (`Follows`). Until either happens, a mark has a transaction that
may still spend the output (`StakesRefunded`). The delicate step is a
reorganisation, `ReorgFollows`: `DisableTransaction` clears marks that the part of
the chain that stays might need, and `ValidBranch` is why it does not, since two
transactions of one branch never spend the same output.
For a repair, a transaction is erased only if it has no depth, so none of the
chain goes (`FixSpentCoinsKeeps`). `ReacceptedEffect` shows
both halves of a restart: it marks whatever the chain has spent, and it changes
nothing if that was marked already. The first half alone is `RestartMendsFlags`,
which needs neither hypothesis.

**Only model-checked.** Liveness (`CallReturns`, `HeaviestChainWins`,
`WalletPaymentsArrive`, `FlaggedPeersAreDeleted`, `WalletIsRelocked`,
`WalletIsFlushed`): fairness is out of the prover's reach. The comparisons with
references over sequences (`SelectionIsReference`, `CosignersComplete`) and
`PaymentsAreGood`, whose sums are folds over coins, depend on induction along
data. `OrphansAreSigned`, which follows a transaction through the messages on a link,
`StakesAreShared` and the invariants of `BlockSync` and `Alerts`
(`DownloadsGoOn`, `AlertsAgree`) have no proof.

## 5. Not modelled

Of the node's own code: arithmetic on targets, rewards and money supply;
the script operations other than those of the standard scripts, which have test
vectors; checkpoints (a table of constants; what they refuse is `BadContext`);
`getheaders`, `LoadExternalBlockFile`, DNS seeds, UPnP, sockets; accounts, address
book and the listings of the wallet, which only read; ciphers; option parsing and
the order of start-up; crashes of the operating system, which may lose committed
transactions; `-salvagewallet`. `GetMaxOverlap`, `GetOverlappingProposals` and
`GetResourceUsageHeuristic` are called by nothing, and `RemoveStaleSummaries` is
never reached, since `CVoteTally(pindex->pprev->tally)` is the implicit copy
constructor.

Most of the repository's lines are none of that: hash functions (`groestl.c`,
`keccak.c`, `sph_types.h` and the like), the JSON library, the Qt wallet, the
formatting and argument checks of RPC commands, serialisation and containers.
They are sequential, and hold no state whose steps could go wrong between two
actors; a model of them would repeat them. The modules cover about a tenth of
the repository for that reason. `PROJECT.json` gives a reason for every
component left out.

## 6. Plan

1. Liveness of a download under fairness, besides the safety statement
   `DownloadsGoOn`.
2. `Wallet` over the steps of `ChainState` instead of its own atomic
   `SetBestChain`.
3. Proofs for `BlockSync`, `Alerts` and `MultiSend`, and of `OrphansAreSigned`.
