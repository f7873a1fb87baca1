----------------------------- MODULE StSource -----------------------------
(***************************************************************************)
(* The source of BCStateTran: one destination at a time holds the session, *)
(* and a FetchBlocksMsg is answered by ItemDataMsgs read from contexts     *)
(* that worker threads fill.  The handlers run on one thread; a batch is   *)
(* sent chunk by chunk, and the thread leaves it (busy becomes FALSE) when *)
(* a block is not read yet or after 10 ms, to be resumed by a timer.       *)
(* Reading the reserved pages is module ResPages.                          *)
(***************************************************************************)
EXTENDS Integers, Sequences, FiniteSets, SequencesExt

CONSTANTS
  Dests,        \* replicas that may ask
  MaxBlock,     \* bound: blocks
  Chunks,       \* chunks of a block
  N,            \* maxNumberOfChunksInBatch, and the size of ioPool_
  PreFetch,     \* enableSourceBlocksPreFetch
  MaxSeq,       \* bound: sequence numbers of requests
  Head0,        \* blocks at the start
  Modes         \* whether this replica becomes a destination itself

VARIABLES
  low, head,   \* the blocks of the application: low..head
  mode,        \* "not", "dest" or "final" (on_transferring_complete_ongoing_)
  session,     \* sourceSession_
  batch,       \* sourceBatch_
  ctxs,        \* ioContexts_
  last,        \* lastMsgSeqNumOfReplicas_
  held,        \* the range validation tree has the digests that are asked for
  busy,        \* the thread is in the loop of continueSendBatch
  out,         \* what was sent in answer to the latest request
  refused      \* the reason of the latest RejectFetchingMsg, and the block it is about

vars == <<low, head, mode, session, batch, ctxs, last, held, busy, out, refused>>

NoOne == "none"
Closed == [owner |-> NoOne, open |-> FALSE, expired |-> FALSE]
Requests == {m \in [min : 1..MaxBlock, max : 1..MaxBlock, cycle : 1..MaxBlock,
                    known : 0..Chunks, group : BOOLEAN] :
               m.min <= m.max /\ m.max <= m.cycle}
NoRequest == [min |-> 1, max |-> 1, cycle |-> 1, known |-> 0, group |-> FALSE]
NoBatch == [active |-> FALSE, dest |-> NoOne, next |-> 0, chunk |-> 0, getNext |-> FALSE,
            prefetch |-> 0, dig |-> FALSE, req |-> NoRequest]
NoReject == [why |-> "none", b |-> 0]

Smaller(a, b) == IF a < b THEN a ELSE b

Init ==
  /\ low = 1 /\ head = Head0 /\ mode = "not" /\ held = TRUE
  /\ session = Closed /\ batch = NoBatch /\ ctxs = <<>>
  /\ last = [d \in Dests |-> 0]
  /\ busy = FALSE /\ out = <<>> /\ refused = NoReject

Sending == session.open /\ batch.active
ActiveDestination == ~Sending /\ mode = "dest"

\* getBlocksConcurrentAsync: jobs for n blocks downwards from b.
Context(b) == [b |-> b, fut |-> "running"]
GetBlocks(b, min, n) == [i \in 1..Smaller(n, b - min + 1) |-> Context(b - i + 1)]

(***************************************************************************)
(* Sessions and rejections                                                 *)
(***************************************************************************)
Opened(d) == [owner |-> d, open |-> TRUE, expired |-> FALSE]
MayOpen(d) == ~session.open \/ session.owner = d \/ session.expired
Refreshed == [session EXCEPT !.expired = FALSE]

\* A rejection closes the session of the replica that is rejected.
ClosedFor(s, d) == IF s.open /\ s.owner = d THEN Closed ELSE s
Reject(s, d, why, b) ==
  /\ session' = ClosedFor(s, d)
  /\ refused' = [why |-> why, b |-> b]

(***************************************************************************)
(* A request                                                               *)
(***************************************************************************)
\* SourceBatch::init
NewBatch(m, d) ==
  [active |-> TRUE, dest |-> d, next |-> m.max, chunk |-> m.known + 1,
   getNext |-> m.known = 0, dig |-> m.group, req |-> m,
   prefetch |-> IF PreFetch THEN Smaller(m.cycle, m.max + N) ELSE 0]

PredictedByCount(m) == PreFetch /\ ctxs # <<>> /\ Len(ctxs) = m.max - m.min + 1
\* sourcePrepareBatch keeps contexts that are exactly the ones asked for; the
\* others are freed, which waits for their jobs, and new ones are started.
Predicted(m) ==
  /\ PreFetch /\ ctxs # <<>> /\ Len(ctxs) = m.max - m.min + 1
  /\ \A i \in DOMAIN ctxs : ctxs[i].b = m.max - i + 1 /\ ctxs[i].fut # "taken"
SourcePrepareBatch(m) ==
  ctxs' = IF Predicted(m) THEN ctxs ELSE GetBlocks(m.max, m.min, m.max - m.min + 1)

\* checkValidityAndSaveMsgSeqNum: sequence numbers of a replica only grow.
Fresh(d, seq) == seq > last[d] /\ last' = [last EXCEPT ![d] = seq]

Accept(m, d) ==
  /\ session' = Opened(d)
  /\ batch' = NewBatch(m, d)
  /\ SourcePrepareBatch(m)
  /\ busy' = TRUE /\ out' = <<>> /\ refused' = NoReject

\* The reason to reject m, in the order of the checks.
Refusal(m, d) ==
  IF m.max - m.min + 1 > N THEN "number"
  ELSE IF ActiveDestination THEN "fetching"
  ELSE IF m.max > head THEN "range"
  ELSE IF ~MayOpen(d) THEN "session"
  ELSE IF m.group /\ ~held THEN "digests" ELSE "none"

\* Requests that are rejected for the same reason and block have the same effect.
OnFetchBlocks(d, seq) ==
  /\ ~busy /\ Fresh(d, seq)
  /\ \/ \E m \in Requests : Refusal(m, d) = "none" /\ Accept(m, d)
     \/ \E x \in {[why |-> Refusal(m, d), b |-> m.max] : m \in Requests} :
          /\ x.why # "none"
          /\ Reject(IF x.why = "digests" THEN Opened(d) ELSE session, d, x.why, x.b)
          /\ UNCHANGED <<batch, ctxs, busy, out>>
  /\ UNCHANGED <<low, head, mode, held>>

(***************************************************************************)
(* continueSendBatch                                                       *)
(***************************************************************************)
Ctx == Head(ctxs)
\* future.get() leaves the future without a result, whatever it was.
Taken == [ctxs EXCEPT ![1].fut = IF batch.getNext THEN "taken" ELSE @]

Abort(why) ==
  /\ Reject(Closed, batch.dest, why, batch.next)
  /\ batch' = [batch EXCEPT !.active = FALSE]
  /\ ctxs' = Taken /\ busy' = FALSE /\ UNCHANGED out

\* The block is not read yet: a timer resumes the batch.
Wait ==
  /\ batch.getNext /\ Ctx.fut = "running"
  /\ busy' = FALSE /\ session' = Refreshed
  /\ UNCHANGED <<batch, ctxs, out, refused>>

NotFound == batch.getNext /\ Ctx.fut = "missing" /\ Abort("missing")

\* Without getNextBlock the size is read from the context whether or not its job has
\* ended: a job that runs, or that found nothing, leaves 0 or an older size there.
IllegalChunk ==
  /\ out = <<>> /\ (batch.getNext => Ctx.fut = "found")
  /\ batch.chunk > Chunks \/ (~batch.getNext /\ Ctx.fut \in {"running", "missing"})
  /\ Abort("chunk")

NoDigests ==
  /\ batch.dig /\ ~held /\ (batch.getNext => Ctx.fut = "found") /\ batch.chunk <= Chunks
  /\ Abort("digests")

Item ==
  [b |-> batch.next, c |-> batch.chunk, dig |-> batch.dig,
   last |-> Len(out) + 1 >= N \/ batch.next - 1 < batch.req.min,
   right |-> Ctx.fut \in {"found", "taken"}]

\* finalizeContext: the context is freed and used for a block of the next batch.
Finalized ==
  Tail(ctxs) \o (IF batch.prefetch > batch.req.max THEN <<Context(batch.prefetch)>> ELSE <<>>)

BlockDone == batch.chunk = Chunks
BatchDone == Len(out) + 1 >= N \/ (BlockDone /\ batch.next - 1 < batch.req.min)
Advanced ==
  [batch EXCEPT !.active = ~BatchDone, !.dig = FALSE,
     !.prefetch = IF BlockDone /\ @ > 0 THEN @ - 1 ELSE @,
     !.next = IF BlockDone /\ ~BatchDone THEN @ - 1 ELSE @,
     !.chunk = IF BatchDone THEN @ ELSE IF BlockDone THEN 1 ELSE @ + 1,
     !.getNext = BlockDone /\ ~BatchDone]

SendChunk ==
  /\ batch.getNext => Ctx.fut = "found"
  /\ out = <<>> => Ctx.fut # "missing"
  /\ batch.chunk <= Chunks
  /\ batch.dig => held
  /\ out' = Append(out, Item)
  /\ ctxs' = IF BlockDone THEN Finalized ELSE Taken
  /\ batch' = Advanced
  /\ session' = IF BatchDone /\ batch.req.max = batch.req.cycle THEN Closed ELSE Refreshed
  /\ IF BatchDone THEN busy' = FALSE ELSE busy' \in BOOLEAN
  /\ UNCHANGED refused

ContinueSendBatch ==
  /\ Sending
  /\ Wait \/ NotFound \/ IllegalChunk \/ NoDigests \/ SendChunk
  /\ UNCHANGED <<low, head, mode, last, held>>

\* Replica::getBlockAsync: a worker reads a block.
Worker(i) ==
  /\ ctxs[i].fut = "running"
  /\ ctxs' = [ctxs EXCEPT ![i].fut = IF @ = "running" /\ ctxs[i].b \in low..head
                                     THEN "found" ELSE "missing"]
  /\ UNCHANGED <<low, head, mode, session, batch, last, held, busy, out, refused>>

(***************************************************************************)
(* The replica around it                                                   *)
(***************************************************************************)
\* stReset
StReset ==
  /\ session' = Closed /\ batch' = [batch EXCEPT !.active = FALSE] /\ ctxs' = <<>>
  /\ out' = <<>> /\ last' = [d \in Dests |-> 0]

StartCollectingState ==
  /\ mode = "not" /\ Modes /\ ~busy
  /\ mode' = "dest" /\ StReset
  /\ UNCHANGED <<low, head, held, busy, refused>>

\* All blocks and pages are there; the callbacks run.
Complete ==
  /\ mode = "dest" /\ mode' = "final"
  /\ head' \in head..MaxBlock
  /\ UNCHANGED <<low, session, batch, ctxs, last, held, busy, out, refused>>

\* Not while a batch is being sent: getFetchingState is SendingBatch then.
FinalizeCycle ==
  /\ mode = "final" /\ ~busy /\ ~Sending
  /\ mode' = "not" /\ StReset
  /\ UNCHANGED <<low, head, held, busy, refused>>

Expire ==
  /\ session.open /\ ~session.expired /\ ~busy
  /\ session' = [session EXCEPT !.expired = TRUE]
  /\ UNCHANGED <<low, head, mode, batch, ctxs, last, held, busy, out, refused>>

AddBlock ==
  /\ mode = "not" /\ head < MaxBlock /\ head' = head + 1
  /\ UNCHANGED <<low, mode, session, batch, ctxs, last, held, busy, out, refused>>

Prune ==
  /\ mode = "not" /\ low < head /\ low' = low + 1 /\ held' = FALSE
  /\ UNCHANGED <<head, mode, session, batch, ctxs, last, busy, out, refused>>

Next ==
  \/ \E d \in Dests, seq \in 1..MaxSeq : OnFetchBlocks(d, seq)
  \/ ContinueSendBatch
  \/ \E i \in DOMAIN ctxs : Worker(i)
  \/ StartCollectingState \/ Complete \/ FinalizeCycle
  \/ Expire \/ AddBlock \/ Prune

Spec == Init /\ [][Next]_vars

(***************************************************************************)
(* Properties                                                              *)
(***************************************************************************)
TypeOK ==
  /\ low \in 1..MaxBlock /\ head \in 1..MaxBlock /\ mode \in {"not", "dest", "final"}
  /\ session \in [owner : Dests \cup {NoOne}, open : BOOLEAN, expired : BOOLEAN]
  /\ batch \in [active : BOOLEAN, dest : Dests \cup {NoOne}, next : 0..MaxBlock,
                chunk : 0..Chunks + 1, getNext : BOOLEAN, prefetch : 0..MaxBlock + N,
                dig : BOOLEAN, req : Requests]
  /\ ctxs \in BoundedSeq([b : 1..MaxBlock, fut : {"running", "found", "missing", "taken"}], N)
  /\ last \in [Dests -> 0..MaxSeq] /\ held \in BOOLEAN /\ busy \in BOOLEAN

\* While a batch is sent its contexts are there in the order of its blocks, the front
\* one is the next block and its future was not taken, and the batch is the session
\* owner's: the asserts of continueSendBatch and of the handler of FetchBlocksMsg.
ContextsServe ==
  Sending =>
    /\ batch.dest = session.owner
    /\ ctxs # <<>> /\ Ctx.b = batch.next
    /\ batch.getNext => Ctx.fut # "taken"

\* What is sent for a request is a prefix of what it asks for, downwards from its last
\* block, and a batch that ends without a rejection has sent N chunks or all of them;
\* the digests go with the first chunk.
Place(m, i) == LET k == m.known + i - 1 IN <<m.max - (k \div Chunks), (k % Chunks) + 1>>
AnswerInOrder ==
  /\ \A i \in DOMAIN out : /\ <<out[i].b, out[i].c>> = Place(batch.req, i)
                           /\ out[i].dig <=> batch.req.group /\ i = 1
  /\ ~batch.active /\ out # <<>> /\ refused = NoReject => Last(out).last

\* While this replica collects state itself the pool of contexts is free, as
\* onMessage(CheckpointSummaryMsg) asserts: no source session takes from it.
PoolIsFree == mode = "dest" => ctxs = <<>> /\ ~session.open
============================================================================
