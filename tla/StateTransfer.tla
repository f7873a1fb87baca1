--------------------------- MODULE StateTransfer ---------------------------
(***************************************************************************)
(* The destination of BCStateTran: one cycle asks for checkpoint           *)
(* summaries, fetches the missing blocks in batches, then the reserved     *)
(* pages, and completes.  The handlers run on one thread; processData is a *)
(* loop, one iteration per step, that no other handler interrupts (run.on).*)
(*                                                                         *)
(* The network may lose, delay, repeat and reorder.  A message in flight   *)
(* is not kept in the state: a handler may be called with any message a    *)
(* source can have sent (asked holds the requests for the present batch).  *)
(* A digest is the item it is the digest of: data are right or wrong, and  *)
(* fetch.digest is the block whose digest is expected next (0 for none).   *)
(* Writing blocks and linking them is module BlockCommit; here ioPool_     *)
(* always has a free context, so that no FetchBlocksMsg is postponed, and  *)
(* the range validation data of a complete certificate, which its F + 1    *)
(* sources describe alike, are accepted by setRvbData.                     *)
(***************************************************************************)
EXTENDS SourceSelector, RvbBatches

CONSTANTS
  Faulty, F,        \* sources that may send anything, and how many are tolerated
  MaxCp,            \* bound: checkpoints the sources create
  BlocksPerCp,      \* blocks between two checkpoints
  MaxStored,        \* maxNumOfStoredCheckpoints_ of a source
  Chunks,           \* chunks of a block
  ResetCount,       \* kResetCount_AskForCheckpointSummaries
  PrimaryAware,     \* config_.enableSourceSelectorPrimaryAwareness
  Silent,           \* the sources that are down
  MaxCrashes, MaxClears  \* bounds on crashes and on discarded summaries

ASSUME StateTransferAssumption ==
  /\ IsFiniteSet(Sources) /\ Cardinality(Sources) > 1 /\ NoReplica \notin Sources
  /\ Faulty \subseteq Sources /\ F \in Nat /\ Cardinality(Faulty) <= F
  /\ MaxCp \in Nat \ {0} /\ BlocksPerCp \in Nat \ {0} /\ Chunks \in Nat \ {0}
  /\ ResetCount \in Nat /\ MaxRetransmissions \in Nat /\ MinPrePrepares \in Nat \ {0}

VARIABLES
  psd,      \* the data store: fetching, target, first and last required block, stored
  blocks,   \* the blocks of the application, each "none", "right" or "wrong"
  pages,    \* the reserved pages: "old" or those of the target
  fetch,    \* fetchState_ and digestOfNextRequiredBlock_
  rvb,      \* stored_rvb_digests_group_ids_
  pending,  \* pendingItemDataMsgs
  sel,      \* sourceSelector_
  certs,    \* summariesCerts: what each source said of each checkpoint
  asks,     \* retransmissionNumberOfAskForCheckpointSummariesMsg
  run,      \* the loop of processData
  complete, \* on_transferring_complete_ongoing_
  asked,    \* requests that may still be answered
  newest,   \* the newest checkpoint of the sources
  faults    \* crashes and discarded summaries so far

vars == <<psd, blocks, pages, fetch, rvb, pending, sel, certs, asks, run, complete,
          asked, newest, faults>>

Honest == Sources \ Faulty
Up == Sources \ Silent
Cps == 1..MaxCp
MaxBlockOf(c) == c * BlocksPerCp
MaxBlock == MaxBlockOf(MaxCp)
VBlock == MaxBlock + 1          \* ID_OF_VBLOCK_RES_PAGES
NoTarget == [cp |-> 0, right |-> TRUE]
NoFetch == [min |-> 0, max |-> 0, next |-> 0, digest |-> 0]
Idle == [on |-> FALSE, last |-> FALSE, dig |-> "none", expired |-> FALSE,
               overdue |-> FALSE, bad |-> FALSE]
NoCerts == [c \in Cps |-> [s \in Sources |-> "none"]]

\* The last block of the contiguous prefix.
Reachable(bs) ==
  CHOOSE n \in 0..MaxBlock : /\ \A b \in 1..n : bs[b] # "none"
                             /\ n = MaxBlock \/ bs[n + 1] = "none"

FetchingState ==
  CASE complete              -> "finalizing"
    [] ~complete /\ ~psd.fetching -> "not"
    [] ~complete /\ psd.fetching /\ psd.target = NoTarget -> "summaries"
    [] ~complete /\ psd.fetching /\ psd.target # NoTarget /\ psd.last > 0 -> "blocks"
    [] OTHER -> "pages"

(***************************************************************************)
(* Requests                                                                *)
(***************************************************************************)
\* trySendFetchBlocksMsg asks for the whole batch, from a chunk of its last block.
AskBlocks(s, fe, groups, known) ==
  [src |-> s.current, min |-> fe.min, max |-> fe.max, from |-> known + 1,
   group |-> GroupNeeded(fe.min, fe.max, groups)]
AskPages(s, known) ==
  [src |-> s.current, min |-> VBlock, max |-> VBlock, from |-> known + 1, group |-> 0]

Send(s, request) ==
  /\ sel' = Stamp(s, TRUE)
  /\ asked' = {a \in asked : a.max = request.max /\ request.max # VBlock} \cup {request}

\* The chunk the source sends in answer to a: it starts at chunk a.from of block
\* a.max and ends after ChunksInBatch chunks or with block a.min, every chunk of which
\* is marked as the last in the batch (of the pages only the last chunk is).
Position(a, b, c) == (a.max - b) * Chunks + c - a.from
Answers(a) ==
  {[b |-> b, c |-> c, kind |-> "right",
    dig |-> IF Position(a, b, c) = 0 /\ a.group # 0 THEN "right" ELSE "none",
    last |-> Position(a, b, c) = ChunksInBatch - 1 \/ (b = a.min /\ (b # VBlock \/ c = Chunks))] :
      b \in a.min..a.max, c \in 1..Chunks}
InAnswer(a, i) == Position(a, i.b, i.c) \in 0..ChunksInBatch - 1

\* An ItemDataMsg that source s may have sent: an honest one answers a request.
Items(s) ==
  IF s \in Honest
  THEN UNION {{i \in Answers(a) : InAnswer(a, i)} : a \in {x \in asked : x.src = s}}
  ELSE [b : fetch.min..fetch.next, c : 1..Chunks, kind : {"right", "wrong", "malformed"},
        dig : {"none", "right", "wrong"}, last : BOOLEAN]

(***************************************************************************)
(* Cycles                                                                  *)
(***************************************************************************)
\* stReset: everything that is not in the data store.
ResetVolatile(groups) ==
  /\ fetch' = NoFetch
  /\ rvb' = groups
  /\ pending' = {}
  /\ sel' = ResetSelector
  /\ certs' = NoCerts
  /\ asks' = 0
  /\ run' = Idle
  /\ complete' = FALSE

\* startCollectingStateImpl, after startCollectingStateInternal or External.
NewCycle ==
  /\ psd' = [psd EXCEPT !.fetching = TRUE, !.target = NoTarget, !.first = 0, !.last = 0]
  /\ ResetVolatile(<<>>)
  /\ asked' = {}

\* The replica learns that it is behind, or that nothing was executed for long.
StartCollectingState ==
  /\ FetchingState = "not"
  /\ newest >= psd.stored
  /\ NewCycle
  /\ UNCHANGED <<blocks, pages, newest, faults>>

OnTimerSummaries ==
  /\ FetchingState = "summaries"
  /\ IF asks + 1 > ResetCount
     THEN /\ faults.clears < MaxClears
          /\ certs' = NoCerts
          /\ asks' = 0
          /\ faults' = [faults EXCEPT !.clears = @ + 1]
     ELSE /\ asks' = asks + 1
          /\ UNCHANGED <<certs, faults>>
  /\ UNCHANGED <<psd, blocks, pages, fetch, rvb, pending, sel, run, complete, asked, newest>>

\* The stored checkpoints a source describes in answer to the last request.
StoredAtSource == {c \in Cps : c <= newest /\ c + MaxStored > newest}

Vouchers(ce, c, v) == {s \in Sources : ce[c][s] = v}

\* onGettingMissingBlocksEnd, and the state change that follows it.
PagesFetch == [NoFetch EXCEPT !.next = VBlock, !.digest = VBlock]

Complete(ce, c, v) == Cardinality(Vouchers(ce, c, v)) > F

OnCheckpointSummary(s, c, v) ==
  /\ FetchingState = "summaries" /\ ~run.on
  /\ c >= psd.stored
  /\ s \in Honest => c \in StoredAtSource /\ v = "right"
  /\ Cardinality({d \in Cps : certs[d][s] # "none"}) < MaxStored + 1
  /\ certs[c][s] = "none"
  /\ LET ce   == [certs EXCEPT ![c][s] = v]
         from == Reachable(blocks) + 1
         last == MaxBlockOf(c)
     IN IF ~Complete(ce, c, v)
        THEN /\ certs' = ce
             /\ UNCHANGED <<psd, fetch, sel, asks, run>>
        ELSE /\ certs' = NoCerts
             /\ asks' = 0
             /\ psd' = [psd EXCEPT !.target = [cp |-> c, right |-> (v = "right")],
                                   !.first = IF last >= from THEN from ELSE 0,
                                   !.last = IF last >= from THEN last ELSE 0]
             /\ fetch' = IF last >= from THEN NextBatch(from, last, <<>>) ELSE PagesFetch
             /\ sel' = [sel EXCEPT !.preferred = Vouchers(ce, c, v)]
             /\ run' = [Idle EXCEPT !.on = TRUE]
  /\ UNCHANGED <<blocks, pages, rvb, pending, complete, asked, newest, faults>>

(***************************************************************************)
(* Data                                                                    *)
(***************************************************************************)
Collecting == FetchingState \in {"blocks", "pages"} /\ ~run.on

OnItemData(s, i) ==
  /\ Collecting
  /\ s = sel.current
  /\ i.b \in (IF FetchingState = "blocks" THEN fetch.min ELSE VBlock)..fetch.next
  /\ FetchingState = "pages" => i.dig = "none"
  /\ LET item == [b |-> i.b, c |-> i.c, kind |-> i.kind, dig |-> i.dig]
     IN IF \E m \in pending : m.b = i.b /\ m.c = i.c
        THEN UNCHANGED <<pending, run>>
        ELSE /\ pending' = pending \cup {item}
             /\ \E overdue \in BOOLEAN :
                  run' = [Idle EXCEPT !.on = TRUE, !.last = i.last, !.dig = i.dig,
                                      !.overdue = overdue]
  /\ sel' = Stamp(sel, FALSE)
  /\ UNCHANGED <<psd, blocks, pages, fetch, rvb, certs, asks, complete, asked, newest, faults>>

OnTimerData(expired) ==
  /\ Collecting
  /\ run' = [Idle EXCEPT !.on = TRUE, !.expired = expired]
  /\ UNCHANGED <<psd, blocks, pages, fetch, rvb, pending, sel, certs, asks, complete,
                 asked, newest, faults>>

\* A rejection of the last request by the current source.
OnRejectFetching(s) ==
  /\ Collecting
  /\ s = sel.current /\ \E a \in asked : a.src = s
  /\ \/ /\ FetchingState = "blocks"
        /\ sel' = RemoveCurrent(sel)
        /\ pending' = {}
        /\ run' = [Idle EXCEPT !.on = TRUE]
        /\ UNCHANGED <<psd, fetch, rvb, certs, asks, complete, asked>>
     \/ /\ FetchingState = "pages"
        /\ NewCycle
  /\ UNCHANGED <<blocks, pages, newest, faults>>

(***************************************************************************)
(* getNextFullBlock: the chunks of the required block, in order, up to a   *)
(* hole; a malformed chunk that is reached is bad data.                    *)
(***************************************************************************)
ChunksOf(p, b) == {m \in p : m.b = b}
Reached(p, b) == {m \in ChunksOf(p, b) :
                       {n.c : n \in {x \in ChunksOf(p, b) : x.c < m.c}} = 1..m.c - 1}
Scanned(p, b) == Reached(p, b) \cup
                    {m \in ChunksOf(p, b) : \A n \in ChunksOf(p, b) \ Reached(p, b) : m.c <= n.c}
HasMalformed(p, b) == \E m \in Scanned(p, b) : m.kind = "malformed"
IsFull(p, b) == Cardinality(Reached(p, b)) = Chunks

\* The buffer holds the data of all chunks, digests included; as many bytes as the
\* digests of the message being handled are taken off its front.
DigestsInFront(p, b) == {m.dig : m \in {x \in ChunksOf(p, b) : x.c = 1}} \ {"none"}
DigestsInside(p, b) == \E m \in ChunksOf(p, b) : m.c > 1 /\ m.dig # "none"
RawBlockIsRight(p, b, dig) ==
  /\ \A m \in ChunksOf(p, b) : m.kind = "right"
  /\ ~DigestsInside(p, b)
  /\ (dig # "none") = (DigestsInFront(p, b) # {})

\* setSerializedDigestsOfRvbGroup on the front of the buffer.
DigestsAccepted(p, b) ==
  DigestsInFront(p, b) = {"right"} /\ GroupNeeded(fetch.min, fetch.max, rvb) # 0


CheckBlockByDigestOnly(b, isRight, groups) ==
  IsRvb(b) => isRight /\ GroupOf(b) \in Stored(groups)
CheckBlock(b, isRight, groups) ==
  CASE IsRvb(b) -> isRight /\ GroupOf(b) \in Stored(groups)
    [] ~IsRvb(b) /\ b = fetch.max /\ b = psd.last -> isRight = psd.target.right
    [] OTHER -> isRight /\ fetch.digest = b

\* checkVirtualBlockOfResPages
PagesAreRight(p, b) == \A m \in ChunksOf(p, b) : (m.kind = "right") = psd.target.right

\* Leave the loop.
Done == run' = Idle

\* Stay in it: source s now serves, the rest of the pending items is p.
Again(bad) == run' = [run EXCEPT !.bad = bad, !.overdue = FALSE]

BadData(s, p, groups) ==
  /\ Again(TRUE)
  /\ sel' = s
  /\ pending' = p
  /\ rvb' = groups
  /\ UNCHANGED <<psd, blocks, pages, fetch, certs, asks, complete, asked>>

PutBlock(b, isRight) ==
  blocks' = [blocks EXCEPT ![b] = IF isRight THEN "right" ELSE "wrong"]

\* isLastFetchedBlockIdInCycle: batches go up, the blocks of a batch go down.
AnyOfLastBatch(b) == fetch.max = psd.last
LastInCycle(b) == b = fetch.min /\ fetch.max = psd.last

\* A valid block that is not the last of the cycle.
AcceptBlock(s, new, p, groups) ==
  LET b  == fetch.next
      fe == IF b = fetch.min THEN NextBatch(fetch.max + 1, psd.last, groups)
            ELSE [fetch EXCEPT !.next = b - 1, !.digest = b - 1]
  IN /\ PutBlock(b, RawBlockIsRight(pending, b, run.dig))
     /\ psd' = IF b = fetch.min THEN [psd EXCEPT !.first = fetch.max + 1] ELSE psd
     /\ fetch' = fe
     /\ rvb' = groups
     /\ pending' = p
     /\ IF run.last \/ new
        THEN Send(s, AskBlocks(s, fe, groups, 0)) /\ Done
        ELSE Again(FALSE) /\ sel' = s /\ UNCHANGED asked
     /\ UNCHANGED <<pages, certs, asks, complete>>

\* The last block of the cycle: the reserved pages are asked for.
AcceptLastBlock(s, p) ==
  /\ PutBlock(fetch.next, RawBlockIsRight(pending, fetch.next, run.dig))
  /\ psd' = [psd EXCEPT !.first = 0, !.last = 0]
  /\ fetch' = PagesFetch
  /\ pending' = {}
  /\ Send(s, AskPages(s, 0))
  /\ Done
  /\ UNCHANGED <<pages, rvb, certs, asks, complete>>

\* The reserved pages: stored with the checkpoint in one transaction.
AcceptPages(s, p) ==
  /\ pages' = psd.target
  /\ psd' = [psd EXCEPT !.stored = psd.target.cp, !.target = NoTarget]
  /\ complete' = TRUE
  /\ sel' = s
  /\ pending' = p
  /\ Done
  /\ UNCHANGED <<blocks, fetch, rvb, certs, asks, asked>>

\* Nothing complete: ask again if the source is new, timed out or is done sending.
AskAgain(s, new, p) ==
  LET known == Cardinality(Reached(p, fetch.next))
  IN /\ IF new \/ run.last \/ TimedOut(s, run.expired)
        THEN Send(s, IF FetchingState = "blocks" THEN AskBlocks(s, fetch, rvb, known)
                     ELSE AskPages(s, known))
        ELSE sel' = s /\ UNCHANGED asked
     /\ pending' = p
     /\ Done
     /\ UNCHANGED <<psd, blocks, pages, fetch, rvb, certs, asks, complete>>

\* One iteration with source s and pending items p.
Iterate(s, new, p) ==
  LET b      == fetch.next
      rest   == p \ ChunksOf(p, b)
      groups == IF run.dig # "none" /\ DigestsAccepted(p, b)
                THEN StoreGroup(rvb, GroupNeeded(fetch.min, fetch.max, rvb)) ELSE rvb
      valid  == /\ run.dig = "none" \/ DigestsAccepted(p, b)
                /\ CheckBlock(b, RawBlockIsRight(p, b, run.dig), groups)
  IN CASE HasMalformed(p, b) -> BadData(s, p, rvb)
       [] ~HasMalformed(p, b) /\ ~IsFull(p, b) -> AskAgain(s, new, p)
       [] ~HasMalformed(p, b) /\ IsFull(p, b) /\ FetchingState = "blocks" ->
            IF ~valid THEN BadData(s, rest, groups)
            ELSE IF LastInCycle(b) THEN AcceptLastBlock(s, rest)
                 ELSE AcceptBlock(s, new, rest, groups)
       [] OTHER ->
            IF PagesAreRight(p, b) THEN AcceptPages(s, rest) ELSE BadData(s, rest, rvb)

ProcessData ==
  /\ run.on
  /\ LET mode  == Replacement(sel, run.bad, run.expired, run.last, run.overdue)
         noted == Noted(sel, run.bad, run.expired)
     IN IF mode = "no" THEN Iterate(noted, FALSE, pending)
        ELSE \E s \in UpdateSource(noted) :
               Iterate(s, TRUE, IF mode = "immediate" THEN {} ELSE pending)
  /\ UNCHANGED <<newest, faults>>

\* The callbacks of onTransferringComplete are done: finalizeCycle.
OnTimerFinalize ==
  /\ FetchingState = "finalizing"
  /\ psd' = [psd EXCEPT !.fetching = FALSE]
  /\ ResetVolatile(rvb)
  /\ asked' = {}
  /\ UNCHANGED <<blocks, pages, newest, faults>>

\* handleIncomingConsensusMessage
OnPrePrepare(p) ==
  /\ PrimaryAware
  /\ FetchingState # "summaries" /\ ~run.on
  /\ sel' = UpdateCurrentPrimary(sel, p)
  /\ UNCHANGED <<psd, blocks, pages, fetch, rvb, pending, certs, asks, run, complete,
                 asked, newest, faults>>

(***************************************************************************)
(* The environment: the sources go on, and the replica crashes and starts  *)
(* again from the data store (initImpl), at any step of processData too.   *)
(***************************************************************************)
NewCheckpoint ==
  /\ newest < MaxCp
  /\ newest' = newest + 1
  /\ UNCHANGED <<psd, blocks, pages, fetch, rvb, pending, sel, certs, asks, run, complete,
                 asked, faults>>

\* All required blocks are there: initImpl goes on with the reserved pages.
BlocksDone == psd.last > 0 /\ Reachable(blocks) = psd.last

Restart ==
  /\ faults.crashes < MaxCrashes
  /\ faults' = [faults EXCEPT !.crashes = @ + 1]
  /\ LET collecting == psd.fetching /\ psd.target # NoTarget
     IN /\ psd' = IF BlocksDone THEN [psd EXCEPT !.first = 0, !.last = 0] ELSE psd
        /\ fetch' = CASE ~collecting -> NoFetch
                      [] collecting /\ psd'.last > 0 -> NextBatch(psd.first, psd.last, <<>>)
                      [] OTHER -> PagesFetch
        /\ sel' = IF collecting THEN Refill(ResetSelector) ELSE ResetSelector
  /\ rvb' = <<>>
  /\ pending' = {}
  /\ certs' = NoCerts
  /\ asks' = 0
  /\ run' = Idle
  /\ complete' = FALSE
  /\ UNCHANGED <<blocks, pages, asked, newest>>

Init ==
  /\ ConfigChecks
  /\ psd = [fetching |-> FALSE, target |-> NoTarget, first |-> 0, last |-> 0, stored |-> 0]
  /\ blocks = [b \in 1..MaxBlock |-> "none"]
  /\ pages = NoTarget
  /\ fetch = NoFetch
  /\ rvb = <<>>
  /\ pending = {}
  /\ sel = ResetSelector
  /\ certs = NoCerts
  /\ asks = 0
  /\ run = Idle
  /\ complete = FALSE
  /\ asked = {}
  /\ newest \in Cps
  /\ faults = [crashes |-> 0, clears |-> 0]

Next ==
  \/ StartCollectingState \/ OnTimerSummaries \/ ProcessData
  \/ OnTimerFinalize \/ NewCheckpoint \/ Restart
  \/ \E s \in Up, c \in Cps, v \in {"right", "wrong"} : OnCheckpointSummary(s, c, v)
  \/ \E s \in Up : (\E i \in Items(s) : OnItemData(s, i)) \/ OnRejectFetching(s)
  \/ \E expired \in BOOLEAN : OnTimerData(expired)
  \/ \E p \in Sources : OnPrePrepare(p)

Spec == Init /\ [][Next]_vars

\* Delivery of the item that the destination waits for, in the answer to its
\* present request (MCProgress assumes that it happens).
Needed(i) ==
  /\ i.b = fetch.next /\ i.c = Cardinality(Reached(pending, fetch.next)) + 1
  /\ (i.dig # "none") = (i.b = fetch.max /\ GroupNeeded(fetch.min, fetch.max, rvb) # 0)

DeliverNeeded(s) == \E i \in Items(s) : Needed(i) /\ OnItemData(s, i)

(***************************************************************************)
(* Properties                                                              *)
(***************************************************************************)
TypeOK ==
  /\ psd \in [fetching : BOOLEAN, target : [cp : 0..MaxCp, right : BOOLEAN],
              first : 0..MaxBlock, last : 0..MaxBlock, stored : 0..MaxCp]
  /\ blocks \in [1..MaxBlock -> {"none", "right", "wrong"}]
  /\ pages \in [cp : 0..MaxCp, right : BOOLEAN]
  /\ fetch \in [min : 0..VBlock, max : 0..VBlock, next : 0..VBlock, digest : 0..VBlock]
  /\ \A i \in 1..Len(rvb) : rvb[i] \in 1..VBlock
  /\ sel \in Selectors
  /\ certs \in [Cps -> [Sources -> {"none", "right", "wrong"}]]
  /\ asks \in 0..ResetCount
  /\ complete \in BOOLEAN
  /\ newest \in Cps

\* The checkpoint that a cycle fetches is one that a correct replica described:
\* onMessage(CheckpointSummaryMsg) takes it from a certificate of F + 1.
TargetVouched ==
  psd.target # NoTarget => psd.target.right /\ psd.target.cp <= newest

\* Whatever a faulty source sends, out of order, twice, with digests that are
\* not asked for or in a batch that is replaced, processData puts only blocks
\* of the agreed chain and stores only pages of the agreed checkpoint.
FetchedIsRight ==
  /\ TargetVouched
  /\ \A b \in 1..MaxBlock : blocks[b] # "wrong"
  /\ pages.right

\* The stages of a cycle keep to their order: all blocks of a checkpoint are in
\* place before its pages are fetched and before its transfer completes.
BlocksBeforePages ==
  /\ FetchingState = "pages" => \A b \in 1..MaxBlockOf(psd.target.cp) : blocks[b] = "right"
  /\ FetchingState = "finalizing" => \A b \in 1..MaxBlockOf(psd.stored) : blocks[b] = "right"

\* The ConcordAsserts of the handlers: the state is clean when a certificate is
\* complete, a source can be chosen while data are collected, the block that
\* checkBlock compares with the digest of its successor has one, and the
\* required blocks of the data store are those of the stage.
AssertsHold ==
  /\ TypeOK
  /\ FetchingState = "summaries" =>
       IsReset(sel) /\ fetch = NoFetch /\ pending = {} /\ psd.first = 0 /\ psd.last = 0
  /\ FetchingState \in {"blocks", "pages"} => sel.preferred # {}
  /\ run.on /\ FetchingState = "blocks" =>
       /\ fetch.next \in fetch.min..fetch.max /\ fetch.max <= psd.last
       /\ \/ IsRvb(fetch.next) \/ fetch.next = psd.last
          \/ fetch.next # fetch.max /\ fetch.digest = fetch.next
  /\ FetchingState = "pages" => fetch = PagesFetch /\ psd.first = 0 /\ psd.last = 0
=============================================================================
