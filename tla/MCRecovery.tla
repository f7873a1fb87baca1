----------------------------- MODULE MCRecovery ------------------------------
(*****************************************************************************)
(* What is stored and who relies on it: a replica that stops and comes back, *)
(* the blockchain that is pruned, linked and cut back to the metadata, and   *)
(* the thin replicas that read it while it grows.  They are checked in one   *)
(* run: `instance` is chosen at the start and never changes.  Votes is the   *)
(* module Restart itself, with the constants of the configuration.           *)
(*                                                                           *)
(*   Votes     two PrePrepares compete over two views; one crash             *)
(*   Window    a window of two sequence numbers, the self-adjusted batching  *)
(*             policy, state transfer                                        *)
(*   Transfer  PrePrepares of two blocks, state transfer, two crashes        *)
(*   Versions  a blockchain of four blocks, a key of the versioned category  *)
(*   Merkle    four blocks, a key of the merkle category                     *)
(*   Pair      four blocks, two keys of the merkle category, none deleted    *)
(*   Live      a thin replica subscriber joins the live updates (two         *)
(*             buffered), blocks arrive by state transfer at any time        *)
(*   Groups    event groups, data, nothing added while they are read         *)
(*   Hashes    event groups, hashes, groups added while they are read        *)
(*   Client    the thin replica client, its first data server faulty         *)
(*****************************************************************************)
EXTENDS Restart

VARIABLES
  instance, mem2, disk2, tran2, up2, sent2, newViews2, chain2, crashes2,
  transfers2, genesis, last, log, ver, mer, pruned,
  trees, root, stale, lastDeleted, cache, raw, prunedAt, undone,
  liveUpdatesGenesis, liveUpdatesHead, pushed, subscribed, queue, slow, newest,
  liveUpdatesPc, req, next, end, liveUpdatesSent, status, liveUpdatesAborted,
  skipped,
  eventGroupsLog, eventGroupsPruned, eventGroupsPushed, eventGroupsSubscribed,
  eventGroupsQueue, eventGroupsSlow, eventGroupsPc, todo, got, eventGroupsReq,
  at, eventGroupsEnd, win, cur, eventGroupsLast, nextG, eventGroupsSent,
  eventGroupsStatus, eventGroupsAborted, thinReplicaClientHead,
  thinReplicaClientLow, data, hash, conn, latest, ok, thinReplicaClientPc,
  thinReplicaClientTodo, records, hasData, outOfRange, notFound,
  thinReplicaClientQueue, thinReplicaClientFirst, subs, thrown

Window == INSTANCE Restart WITH
  W <- 2, C <- 1, Batch <- 1, MaxDelete <- 2, BadTimes <- FALSE,
  Digests <- {"a"}, Mine <- {0}, Paths <- {"fast"}, SelfAdjusted <- TRUE,
  MaxView <- 0, MaxSeq <- 3, MaxCrashes <- 1, MaxTransfers <- 1,
  mem <- mem2, disk <- disk2, tran <- tran2, up <- up2, sent <- sent2,
  newViews <- newViews2, chain <- chain2, crashes <- crashes2,
  transfers <- transfers2

Transfer == INSTANCE Restart WITH
  W <- 1, C <- 1, Batch <- 2, MaxDelete <- 3, BadTimes <- FALSE,
  Digests <- {"a"}, Mine <- {0}, Paths <- {"fast"}, SelfAdjusted <- FALSE,
  MaxView <- 1, MaxSeq <- 2, MaxCrashes <- 2, MaxTransfers <- 1,
  mem <- mem2, disk <- disk2, tran <- tran2, up <- up2, sent <- sent2,
  newViews <- newViews2, chain <- chain2, crashes <- crashes2,
  transfers <- transfers2

Versions == INSTANCE KvBlockchain WITH
  VKeys <- {"a"}, MKeys <- {}, Kinds <- {"put", "stale", "del"}, MaxBlock <- 4

Merkle == INSTANCE KvBlockchain WITH
  VKeys <- {}, MKeys <- {"a"}, Kinds <- {"put", "del"}, MaxBlock <- 4

Pair == INSTANCE KvBlockchain WITH
  VKeys <- {}, MKeys <- {"a", "b"}, Kinds <- {"put"}, MaxBlock <- 4

Live == INSTANCE LiveUpdates WITH
  MaxBlock <- 6, Head0 <- 2, Size <- 2,
  genesis <- liveUpdatesGenesis, sent <- liveUpdatesSent,
  head <- liveUpdatesHead, pc <- liveUpdatesPc, aborted <- liveUpdatesAborted

Groups == INSTANCE EventGroups WITH
  MaxGroups <- 4, Groups0 <- 3, Size <- 1, Hashes <- FALSE, Changes <- "none",
  log <- eventGroupsLog, pruned <- eventGroupsPruned,
  pushed <- eventGroupsPushed, subscribed <- eventGroupsSubscribed,
  queue <- eventGroupsQueue, slow <- eventGroupsSlow, pc <- eventGroupsPc,
  req <- eventGroupsReq, end <- eventGroupsEnd, last <- eventGroupsLast,
  sent <- eventGroupsSent, status <- eventGroupsStatus,
  aborted <- eventGroupsAborted

Hashes == INSTANCE EventGroups WITH
  MaxGroups <- 4, Groups0 <- 2, Size <- 1, Hashes <- TRUE,
  Changes <- "steady",
  log <- eventGroupsLog, pruned <- eventGroupsPruned, pushed <- eventGroupsPushed,
  subscribed <- eventGroupsSubscribed, queue <- eventGroupsQueue,
  slow <- eventGroupsSlow, pc <- eventGroupsPc, req <- eventGroupsReq,
  end <- eventGroupsEnd, last <- eventGroupsLast, sent <- eventGroupsSent,
  status <- eventGroupsStatus, aborted <- eventGroupsAborted

Client == INSTANCE ThinReplicaClient WITH
  F <- 1, Faulty <- {0}, MaxUpdate <- 2, Pruning <- {2},
  MaxSubscriptions <- 1, head <- thinReplicaClientHead,
  low <- thinReplicaClientLow, pc <- thinReplicaClientPc,
  todo <- thinReplicaClientTodo, queue <- thinReplicaClientQueue,
  first <- thinReplicaClientFirst

restart2Vars == <<mem2, disk2, tran2, up2, sent2, newViews2, chain2, crashes2,
  transfers2>>
kvBlockchainVars == <<genesis, last, log, ver, mer, pruned, trees, root,
  stale, lastDeleted, cache, raw, prunedAt, undone>>
liveUpdatesVars == <<liveUpdatesGenesis, liveUpdatesHead, pushed, subscribed, queue,
  slow, newest, liveUpdatesPc, req, next, end, liveUpdatesSent, status,
  liveUpdatesAborted, skipped>>
eventGroupsVars == <<eventGroupsLog, eventGroupsPruned,
  eventGroupsPushed, eventGroupsSubscribed,
  eventGroupsQueue, eventGroupsSlow, eventGroupsPc, todo, got, eventGroupsReq,
  at, eventGroupsEnd, win, cur, eventGroupsLast, nextG, eventGroupsSent,
  eventGroupsStatus, eventGroupsAborted>>
thinReplicaClientVars == <<thinReplicaClientHead, thinReplicaClientLow, data,
  hash, conn, latest, ok, thinReplicaClientPc, thinReplicaClientTodo, records,
  hasData, outOfRange, notFound, thinReplicaClientQueue,
  thinReplicaClientFirst, subs, thrown>>

mcVars ==
  <<instance, vars, restart2Vars, kvBlockchainVars, liveUpdatesVars,
  eventGroupsVars, thinReplicaClientVars>>

NoRestart2 ==
  /\ mem2 = "unused" /\ disk2 = "unused" /\ tran2 = "unused" /\ up2 = "unused"
  /\ sent2 = "unused" /\ newViews2 = "unused" /\ chain2 = "unused"
  /\ crashes2 = "unused" /\ transfers2 = "unused"
NoKvBlockchain ==
  /\ genesis = "unused" /\ last = "unused" /\ log = "unused"
  /\ ver = "unused" /\ mer = "unused" /\ pruned = "unused"
  /\ trees = "unused" /\ root = "unused" /\ stale = "unused"
  /\ lastDeleted = "unused" /\ cache = "unused" /\ raw = "unused"
  /\ prunedAt = "unused" /\ undone = "unused"
NoLiveUpdates ==
  /\ liveUpdatesGenesis = "unused" /\ liveUpdatesHead = "unused" /\ pushed = "unused"
  /\ subscribed = "unused" /\ queue = "unused" /\ slow = "unused"
  /\ newest = "unused" /\ liveUpdatesPc = "unused" /\ req = "unused"
  /\ next = "unused" /\ end = "unused" /\ liveUpdatesSent = "unused"
  /\ status = "unused" /\ liveUpdatesAborted = "unused"
  /\ skipped = "unused"
NoEventGroups ==
  /\ eventGroupsLog = "unused" /\ eventGroupsPruned = "unused" /\ eventGroupsPushed = "unused"
  /\ eventGroupsSubscribed = "unused" /\ eventGroupsQueue = "unused"
  /\ eventGroupsSlow = "unused" /\ eventGroupsPc = "unused"
  /\ todo = "unused" /\ got = "unused" /\ eventGroupsReq = "unused"
  /\ at = "unused" /\ eventGroupsEnd = "unused" /\ win = "unused"
  /\ cur = "unused" /\ eventGroupsLast = "unused" /\ nextG = "unused"
  /\ eventGroupsSent = "unused" /\ eventGroupsStatus = "unused"
  /\ eventGroupsAborted = "unused"
NoThinReplicaClient ==
  /\ thinReplicaClientHead = "unused" /\ thinReplicaClientLow = "unused"
  /\ data = "unused" /\ hash = "unused" /\ conn = "unused"
  /\ latest = "unused" /\ ok = "unused" /\ thinReplicaClientPc = "unused"
  /\ thinReplicaClientTodo = "unused" /\ records = "unused"
  /\ hasData = "unused" /\ outOfRange = "unused" /\ notFound = "unused"
  /\ thinReplicaClientQueue = "unused" /\ thinReplicaClientFirst = "unused"
  /\ subs = "unused" /\ thrown = "unused"

\* Only the parts named are in use.
Only(m) ==
  /\ m # "Votes" => Init
  /\ m # "Restart" => NoRestart2
  /\ m # "KvBlockchain" => NoKvBlockchain
  /\ m # "LiveUpdates" => NoLiveUpdates
  /\ m # "EventGroups" => NoEventGroups
  /\ m # "ThinReplicaClient" => NoThinReplicaClient

OnlyNext(m) ==
  /\ m # "Votes" => UNCHANGED vars
  /\ m # "Restart" => UNCHANGED restart2Vars
  /\ m # "KvBlockchain" => UNCHANGED kvBlockchainVars
  /\ m # "LiveUpdates" => UNCHANGED liveUpdatesVars
  /\ m # "EventGroups" => UNCHANGED eventGroupsVars
  /\ m # "ThinReplicaClient" => UNCHANGED thinReplicaClientVars

MCInit ==
  \/ instance = "Votes" /\ Init /\ Only("Votes")
  \/ instance = "Window" /\ Window!Init /\ Only("Restart")
  \/ instance = "Transfer" /\ Transfer!Init /\ Only("Restart")
  \/ instance = "Versions" /\ Versions!Init /\ Only("KvBlockchain")
  \/ instance = "Merkle" /\ Merkle!Init /\ Only("KvBlockchain")
  \/ instance = "Pair" /\ Pair!Init /\ Only("KvBlockchain")
  \/ instance = "Live" /\ Live!Init /\ Only("LiveUpdates")
  \/ instance = "Groups" /\ Groups!Init /\ Only("EventGroups")
  \/ instance = "Hashes" /\ Hashes!Init /\ Only("EventGroups")
  \/ instance = "Client" /\ Client!Init /\ Only("ThinReplicaClient")

MCNext ==
  /\ UNCHANGED instance
  /\ \/ instance = "Votes" /\ Next /\ OnlyNext("Votes")
     \/ instance = "Window" /\ Window!Next /\ OnlyNext("Restart")
     \/ instance = "Transfer" /\ Transfer!Next /\ OnlyNext("Restart")
     \/ instance = "Versions" /\ Versions!Next /\ OnlyNext("KvBlockchain")
     \/ instance = "Merkle" /\ Merkle!Next /\ OnlyNext("KvBlockchain")
     \/ instance = "Pair" /\ Pair!Next /\ OnlyNext("KvBlockchain")
     \/ instance = "Live" /\ Live!Next /\ OnlyNext("LiveUpdates")
     \/ instance = "Groups" /\ Groups!Next /\ OnlyNext("EventGroups")
     \/ instance = "Hashes" /\ Hashes!Next /\ OnlyNext("EventGroups")
     \/ instance = "Client" /\ Client!Next /\ OnlyNext("ThinReplicaClient")

MCSpec == MCInit /\ [][MCNext]_mcVars

(*****************************************************************************)
(* Properties: what each says of the code is explained in its module.        *)
(*****************************************************************************)
\* With the self-adjusted batching policy and with state transfers too, the
\* storage can be loaded whatever the moment of a crash, the slot that the
\* primary uses next is free, the state sync deletes no more blocks than it
\* may, and the requests of a sequence number are applied once, in order.
RestartIsSafe ==
  /\ instance = "Window" => Window!LoadSucceeds /\ Window!NextSlotIsFree
  /\ instance = "Transfer" =>
       /\ Transfer!LoadSucceeds
       /\ Transfer!StartsAfterCrash
       /\ Transfer!AppliedOnce

\* What a replica stores is a function of the blocks and of the genesis
\* block: values, latest versions, the index of active keys and the leaves of
\* the tree. So a replica that linked the blocks has what the one that
\* executed them has. Not once a deleted block had been there when an older
\* block was pruned. A block has the digest of the block before it as storage
\* gives it back, whatever block was cached, and no assertion of pruning,
\* deleting and reading blocks fails.
StorageFollowsChain ==
  /\ instance = "Versions" =>
       /\ Versions!StorageFollowsChain
       /\ Versions!ParentsMatch
       /\ Versions!ReadsSucceed
  /\ instance = "Merkle" =>
       /\ Merkle!StorageFollowsChain
       /\ Merkle!ParentsMatch
       /\ Merkle!ReadsSucceed
  /\ instance = "Pair" =>
       /\ Pair!StorageFollowsChain
       /\ Pair!ParentsMatch
       /\ Pair!ReadsSucceed

\* A thin replica subscriber gets the blocks from the one it asked for on, each
\* at most once and in order, while it moves from the stored blocks to the live
\* ones, and misses one only behind a block that came by state transfer while
\* updates were queued or sent live; the client delivers the right updates in
\* order, keeps its streams aligned and raises an exception only for a reason,
\* whatever F faulty servers answer and whichever streams fail.
StreamIsGapless ==
  /\ instance = "Live" =>
       /\ Live!TypeOK
       /\ Live!StreamIsGapless
       /\ Live!SyncAssertions
  /\ instance = "Client" =>
       /\ Client!TypeOK
       /\ Client!DeliveredInOrder
       /\ Client!StreamsAreAligned
       /\ Client!ExceptionsAreJustified

\* A subscriber to event groups gets its groups in order under consecutive
\* ids, found by the search in the counters of its tag and of the public one.
GroupsInOrder ==
  /\ instance = "Groups" =>
       /\ Groups!TypeOK
       /\ Groups!GroupsInOrder
       /\ Groups!SearchSucceeds
  /\ instance = "Hashes" =>
       /\ Hashes!TypeOK
       /\ Hashes!GroupsInOrder
       /\ Hashes!SearchSucceeds
==============================================================================
