SPECIFICATION Spec
CONSTANTS
  g = g  a1 = a1  a2 = a2  a3 = a3  b1 = b1  b2 = b2
  None = None
  Blocks <- MCChain
  Genesis = g
  Prev <- MCChainPrev
  Height <- MCChainHeight
  BadReward = {}
  Txs = {1, 2, 3, 4, 5, 6}
  Proposals = {1, 2, 3, 4, 5}
  ProposalOf <- MCProposalOf
  Tracked = {1, 2, 3, 4, 5, 6}
  WellNamed = {1, 2, 3, 4, 5}
  Start <- MCStart
  CheckSpan <- MCCheckSpan
  IntSize = 8
  OutOfRange = OutOfRange
  Msb <- MCMsb
  Lsb <- MCLsb
  NumBits = 4
  VotingStart = 0
  MaxFuture = 2
  MaxCheckSpan = 2
  TxLists <- MCChainTxLists
  RemoteBits = {{0}}
  Submitted = {1, 5}
  UserChoices = {{0}, {1}}
  MaxWriteFailures = 0
  MaxRestarts = 0
CHECK_DEADLOCK FALSE
INVARIANT OwnVotesCountForTheirProposal
