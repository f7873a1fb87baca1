---------------------------- MODULE LiveUpdates ----------------------------
(***************************************************************************)
(* A subscription of the thin replica server to legacy events: the history *)
(* is read from storage and the rest is taken from a bounded queue that    *)
(* the thread executing blocks fills.  That thread writes a block to       *)
(* storage and then pushes it; blocks also arrive by state transfer,       *)
(* without a push, and old ones are pruned.  A block is its id.            *)
(***************************************************************************)
EXTENDS Integers, Sequences

CONSTANTS
  MaxBlock,   \* bound: blocks
  Head0,      \* blocks at the start
  Size        \* kSubUpdateBufferSize

VARIABLES
  genesis, head,   \* the blocks in storage: genesis..head
  pushed,          \* the last block that was handed to the subscribers
  subscribed,      \* the buffer is in subscriber_list
  queue, slow, newest,   \* SubUpdateBuffer: queue_, too_slow_, newest_block_id_
  pc,              \* where SubscribeToUpdates is
  req,             \* the block asked for
  next, end,       \* the range being read, and the last block known while waiting
  sent,            \* the blocks put on the stream
  status,          \* the grpc status returned
  aborted,         \* a ConcordAssert failed
  skipped          \* history: the first block transferred past updates that were
                   \* queued or sent live already, 0 without one

vars == <<genesis, head, pushed, subscribed, queue, slow, newest, pc, req, next, end,
          sent, status, aborted, skipped>>

storage == <<genesis, head, skipped>>
buffer == <<subscribed, queue, slow, newest>>
local == <<req, next, end>>
result == <<sent, status, aborted>>

Init ==
  /\ genesis = 1 /\ head = Head0 /\ pushed = Head0
  /\ subscribed = FALSE /\ queue = <<>> /\ slow = FALSE /\ newest = 0
  /\ pc = "request" /\ req = 0 /\ next = 0 /\ end = 0
  /\ sent = <<>> /\ status = "none" /\ aborted = FALSE /\ skipped = 0

(***************************************************************************)
(* Storage and the executing thread                                        *)
(***************************************************************************)
WriteBlock ==
  /\ head < MaxBlock /\ pushed = head
  /\ head' = head + 1
  /\ UNCHANGED <<genesis, skipped, pushed, buffer, pc, local, result>>

\* SubUpdateBuffer::Push; a buffer that is already too slow still notes the id.
PushToBuffer(b) ==
  IF ~slow /\ Len(queue) = Size
  THEN slow' = TRUE /\ UNCHANGED <<queue, newest>>
  ELSE /\ queue' = IF slow THEN queue ELSE Append(queue, b)
       /\ newest' = b /\ UNCHANGED slow

\* SubBufferList::updateSubBuffers
UpdateSubBuffers ==
  /\ pushed < head
  /\ pushed' = pushed + 1
  /\ IF subscribed THEN PushToBuffer(pushed + 1) ELSE UNCHANGED <<queue, slow, newest>>
  /\ UNCHANGED <<storage, subscribed, pc, local, result>>

\* The subscription has updates that it does not look up in storage any more.
OnUpdates == queue # <<>> \/ pc \in {"overlap", "drop", "live"}
\* A block that state transfer adds, at any time, is not pushed.
TransferBlock ==
  /\ pushed = head /\ head < MaxBlock
  /\ head' = head + 1 /\ pushed' = head + 1
  /\ skipped' = IF OnUpdates /\ skipped = 0 THEN head + 1 ELSE skipped
  /\ UNCHANGED <<genesis, buffer, pc, local, result>>

Prune ==
  /\ genesis < head
  /\ genesis' = genesis + 1
  /\ UNCHANGED <<head, skipped, pushed, buffer, pc, local, result>>

(***************************************************************************)
(* The end of a subscription                                               *)
(***************************************************************************)
Return(s) == pc' = "done" /\ status' = s /\ UNCHANGED <<local, sent, aborted>>
\* CLEANUP_SUBSCRIPTION
Cleanup == subscribed' = FALSE /\ queue' = <<>> /\ UNCHANGED <<slow, newest>>
Abort == pc' = "done" /\ aborted' = TRUE /\ UNCHANGED <<local, sent, status, buffer>>

\* context->IsCancelled, or the stream is found closed, wherever it is looked at.
Cancel ==
  /\ pc \in {"waiting", "read", "fill", "first", "live"}
  /\ Cleanup /\ Return("cancelled")
  /\ UNCHANGED <<storage, pushed>>

(***************************************************************************)
(* SubscribeToUpdates                                                      *)
(***************************************************************************)
IsRequestOutOfRange(b) ==
  /\ pc = "request" /\ b \in 1..(MaxBlock + 1)
  /\ IF b > head + 1
     THEN Return("out of range")
     ELSE pc' = "check" /\ req' = b /\ UNCHANGED <<next, end, result>>
  /\ UNCHANGED <<storage, pushed, buffer>>

IsUpdatePruned ==
  /\ pc = "check"
  /\ IF req < genesis
     THEN Return("not found")
     ELSE pc' = "subscribe" /\ UNCHANGED <<local, result>>
  /\ UNCHANGED <<storage, pushed, buffer>>

SubscribeToLiveUpdates ==
  /\ pc = "subscribe"
  /\ subscribed' = TRUE /\ queue' = <<>> /\ slow' = FALSE /\ newest' = 0
  /\ pc' = "last"
  /\ UNCHANGED <<storage, pushed, local, result>>

\* The block asked for is not written yet.
AfterLast(b) == b = head + 1
GetLastBlockId ==
  /\ pc = "last"
  /\ end' = head
  /\ pc' = IF AfterLast(req) THEN "waiting" ELSE "sync"
  /\ UNCHANGED <<storage, pushed, buffer, req, next, result>>

\* waitUntilNonEmpty; an update older than the one asked for is dropped.
WaitForUpdate ==
  /\ pc = "waiting" /\ queue # <<>>
  /\ pc' = IF Head(queue) < end + 1 THEN "pop" ELSE "sync"
  /\ UNCHANGED <<storage, pushed, buffer, local, result>>

\* The exception of Pop is not caught here: the buffer stays in the list.
DropOlder ==
  /\ pc = "pop"
  /\ \/ slow /\ Return("unknown") /\ UNCHANGED buffer
     \/ /\ ~slow /\ queue' = Tail(queue) /\ pc' = "waiting"
        /\ UNCHANGED <<subscribed, slow, newest, local, result>>
  /\ UNCHANGED <<storage, pushed>>

(***************************************************************************)
(* syncAndSend                                                             *)
(***************************************************************************)
CheckPruned ==
  /\ pc = "sync"
  /\ IF req < genesis
     THEN Cleanup /\ Return("not found")
     ELSE pc' = "range" /\ UNCHANGED <<buffer, local, result>>
  /\ UNCHANGED <<storage, pushed>>

StartReading ==
  /\ pc = "range"
  /\ \/ req > head /\ Abort
     \/ /\ req <= head
        /\ next' = req /\ end' = head /\ pc' = "read"
        /\ UNCHANGED <<req, buffer, result>>
  /\ UNCHANGED <<storage, pushed>>

\* readBlockRange, and readBlockHash block by block.
ReadAndSend ==
  /\ pc \in {"read", "fill"} /\ next <= end
  /\ \/ next < genesis /\ Cleanup /\ Return("unknown")
     \/ /\ next >= genesis
        /\ sent' = Append(sent, next) /\ next' = next + 1
        /\ UNCHANGED <<pc, buffer, req, end, status, aborted>>
  /\ UNCHANGED <<storage, pushed>>

ReadDone ==
  /\ pc \in {"read", "fill"} /\ next > end
  /\ pc' = IF pc = "read" THEN "first" ELSE "overlap"
  /\ UNCHANGED <<storage, pushed, buffer, local, result>>

\* The gap is read up to the newest update that is queued already.
GapEnd == newest

InSync == Head(queue) = end + 1
Gap == Head(queue) > end + 1

\* The first live update: in sync, a gap to be read, or an overlap to be dropped.
FirstUpdate ==
  /\ pc = "first" /\ queue # <<>>
  /\ \/ InSync /\ pc' = "live" /\ UNCHANGED <<next, end>>
     \/ Gap /\ next' = end + 1 /\ end' = GapEnd /\ pc' = "fill"
     \/ ~InSync /\ ~Gap /\ pc' = "overlap" /\ UNCHANGED <<next, end>>
  /\ UNCHANGED <<storage, pushed, buffer, req, result>>

CheckOverlap ==
  /\ pc = "overlap"
  /\ \/ Head(queue) > end /\ Abort
     \/ Head(queue) <= end /\ pc' = "drop" /\ UNCHANGED <<local, buffer, result>>
  /\ UNCHANGED <<storage, pushed>>

StillOverlapsPast(b) == b <= end
StillOverlaps(b) == b < end
\* do Pop while the update is older than the last block read.
DropOverlap ==
  /\ pc = "drop"
  /\ \/ slow /\ Cleanup /\ Return("unknown")
     \/ /\ ~slow /\ queue # <<>>
        /\ queue' = Tail(queue)
        /\ pc' = IF StillOverlaps(Head(queue)) THEN "drop" ELSE "live"
        /\ UNCHANGED <<subscribed, slow, newest, local, result>>
  /\ UNCHANGED <<storage, pushed>>

\* TryPop, filter and send; a consumer that is too slow ends the stream.
SendLive ==
  /\ pc = "live"
  /\ \/ slow /\ Cleanup /\ Return("ok")
     \/ /\ ~slow /\ queue # <<>>
        /\ sent' = Append(sent, Head(queue)) /\ queue' = Tail(queue)
        /\ UNCHANGED <<subscribed, slow, newest, pc, local, status, aborted>>
  /\ UNCHANGED <<storage, pushed>>

Next ==
  \/ WriteBlock \/ UpdateSubBuffers \/ TransferBlock \/ Prune
  \/ Cancel
  \/ \E b \in 1..(MaxBlock + 1) : IsRequestOutOfRange(b)
  \/ IsUpdatePruned \/ SubscribeToLiveUpdates \/ GetLastBlockId
  \/ WaitForUpdate \/ DropOlder
  \/ CheckPruned \/ StartReading \/ ReadAndSend \/ ReadDone
  \/ FirstUpdate \/ CheckOverlap \/ DropOverlap \/ SendLive

Spec == Init /\ [][Next]_vars

(***************************************************************************)
(* Properties                                                              *)
(***************************************************************************)
TypeOK ==
  /\ genesis \in 1..MaxBlock /\ head \in genesis..MaxBlock /\ pushed \in 0..head
  /\ Len(queue) <= Size /\ newest \in 0..head /\ slow \in BOOLEAN
  /\ (queue # <<>> => subscribed) /\ skipped \in 0..pushed

\* Whatever is written, pushed, transferred and pruned meanwhile, the stream
\* holds blocks in order, none twice, from the one asked for on, and misses one
\* only behind a block that came by state transfer while updates were queued or
\* sent live: that block is in no queue, and DropOverlap may take the next one
\* with it (SubscribeToUpdates, syncAndSend).
StreamIsGapless ==
  /\ \A i \in DOMAIN sent : sent[i] = req + i - 1 \/ (skipped > 0 /\ skipped < sent[i])
  /\ \A i, j \in DOMAIN sent : i < j => sent[i] < sent[j]

\* The assertions of syncAndSend hold: the block asked for is in storage when
\* reading starts, and the updates left after the gap overlap what was read.
SyncAssertions == ~aborted
=============================================================================
