------------------------------ MODULE Restart ------------------------------
(***************************************************************************)
(* What one replica writes to its PersistentStorage, and what it finds     *)
(* there after a crash.                                                    *)
(*                                                                         *)
(* mem is the state of ReplicaImp, disk what the committed write           *)
(* transactions left in the storage.  Transactions nest: an inner          *)
(* endWriteTran commits nothing.  A handler that sends inside an open      *)
(* outer transaction is therefore split in two steps, with the writes of   *)
(* the first one in tran, which a crash discards.  Everywhere else the     *)
(* commit comes before the send and the handler is one step.               *)
(*                                                                         *)
(* The other replicas are inputs: which PrePrepares, certificates, stable  *)
(* checkpoints and new views arrive is a choice.                           *)
(***************************************************************************)
EXTENDS Integers, Sequences, FiniteSets

CONSTANTS
  W, C,          \* kWorkWindowSize and checkpointWindowSize
  Digests,       \* contents of PrePrepares with requests
  Mine,          \* the views in which this replica is the primary
  Batch,         \* blocks that one executed PrePrepare adds
  MaxDelete,     \* maxNumOfRequestsInBatch, the limit of the state sync
  SelfAdjusted,  \* batchingPolicy is BATCH_SELF_ADJUSTED
  Paths,         \* first paths of PrePrepares: "slow", "fast"
  BadTimes,      \* the time of a PrePrepare may be rejected
  MaxView, MaxSeq, MaxCrashes, MaxTransfers   \* bounds


None == "none"
Null == "null"    \* the content of the PrePrepares without requests that fill gaps
Seqs == 1..MaxSeq
Ckpts == {s \in 0..MaxSeq : s % C = 0}
Empty == [d |-> None, slow |-> FALSE, path |-> "slow", ok |-> TRUE,
          prep |-> FALSE, commit |-> FALSE, fast |-> FALSE]
NoLog == [s \in Seqs |-> Empty]

VARIABLES
  mem,        \* ReplicaImp, or what is left of it after a crash
  disk,       \* the storage
  tran,       \* the writes of an open outer transaction, or NoTran
  up,
  sent,       \* proposals and votes that were sent
  newViews,   \* NewViewMsgs of the entered views
  chain,      \* the blocks, by the sequence number that added them
  crashes, transfers

vars == <<mem, disk, tran, up, sent, newViews, chain, crashes, transfers>>

NoTran == [stable |-> MaxSeq + 1]

\* setDefaultsInMetadataStorage
Defaults ==
  [stable |-> 0, exec |-> 0, used |-> 0, lower |-> 0, fully |-> 0, log |-> NoLog,
   ckpt |-> [s \in Ckpts |-> "no"],
   exit |-> [view |-> -1, elems |-> NoLog],    \* -1: the default descriptor
   new |-> [view |-> -1, max |-> 0],
   desc |-> 0,                                  \* executedSeqNum of the last execution
   blocks |-> 0,                                \* user data: the last block
   fetching |-> FALSE]                          \* in the storage of state transfer

Fresh == [view |-> 0, active |-> TRUE, stable |-> 0, exec |-> 0, used |-> 0, lower |-> 0,
          max |-> 0, fully |-> 0, log |-> NoLog, ckpt |-> [s \in Ckpts |-> "no"],
          run |-> "idle", added |-> 0]

Init ==
  /\ mem = Fresh /\ disk = Defaults /\ tran = NoTran /\ up = TRUE
  /\ sent = {} /\ newViews = {} /\ chain = <<>> /\ crashes = 0 /\ transfers = 0

InWindow(m, s) == s > m.stable /\ s <= m.stable + W
Ready == up /\ tran = NoTran
Idle == Ready /\ mem.run = "idle"
InView == Ready /\ mem.active /\ mem.run \in {"idle", "exec"} /\ ~disk.fetching
Msg(kind, m, s) == [kind |-> kind, view |-> m.view, seq |-> s, d |-> m.log[s].d]

\* SeqNumData as it is stored: the verdict on the time is not part of it.
Stored(e) == [e EXCEPT !.ok = TRUE]

\* setMsgInSeqNumWindow, setOneByteInSeqNumWindow
Forgotten(p, s, e) == p
Persisted(p, s, e) == [p EXCEPT !.log[s] = Stored(e)]

\* One PrePrepare, certificate or flag of the slot s, in a transaction of its own.
SetSlot(s, e, msgs) ==
  /\ mem' = [mem EXCEPT !.log[s] = e]
  /\ disk' = Persisted(disk, s, e)
  /\ sent' = sent \cup msgs
  /\ UNCHANGED <<tran, up, newViews, chain, crashes, transfers>>

(***************************************************************************)
(* The primary's PrePrepare                                                *)
(***************************************************************************)
\* addSelfMsg, and the transaction of startConsensusProcess, on a memory and
\* a storage.
MayPropose(m) == m.active /\ m.view \in Mine /\ m.used < m.stable + W /\ m.used < MaxSeq
Proposal(d, path) == [Empty EXCEPT !.d = d, !.path = path, !.slow = (path = "slow")]
AfterPropose(m, e) == [m EXCEPT !.used = @ + 1, !.log[m.used + 1] = e]
ProposeWrites(p, m, e) == [Persisted(p, m.used + 1, e) EXCEPT !.used = m.used + 1]
ProposeSends(m, e) ==
  LET n == AfterPropose(m, e)
  IN  {Msg("pp", n, n.used), Msg(IF e.slow THEN "prepare" ELSE "fast", n, n.used)}

Propose(d, path) ==
  /\ InView /\ MayPropose(mem)
  /\ LET e == Proposal(d, path)
     IN  /\ mem' = AfterPropose(mem, e)
         /\ disk' = ProposeWrites(disk, mem, e)
         /\ sent' = sent \cup ProposeSends(mem, e)
  /\ UNCHANGED <<tran, up, newViews, chain, crashes, transfers>>

(***************************************************************************)
(* The messages of a consensus                                             *)
(***************************************************************************)
\* onMessage<PrePrepareMsg>: a PrePrepare whose time is rejected is kept, but
\* not voted for.
AcceptPrePrepare(s, d, path, ok) ==
  /\ InView /\ mem.view \notin Mine
  /\ InWindow(mem, s) /\ s > mem.lower /\ mem.log[s].d = None
  /\ ok \/ BadTimes
  /\ LET e == [mem.log[s] EXCEPT !.d = d, !.path = path, !.ok = ok, !.slow = @ \/ path = "slow"]
     IN  SetSlot(s, e, IF ~ok THEN {}
                       ELSE {[kind |-> IF e.slow THEN "prepare" ELSE "fast", view |-> mem.view, seq |-> s, d |-> d]})

\* onMessage<StartSlowCommitMsg>, tryToStartSlowPaths
StartSlow(s) ==
  /\ InView /\ InWindow(mem, s) /\ s > mem.lower /\ ~mem.log[s].slow
  /\ SetSlot(s, [mem.log[s] EXCEPT !.slow = TRUE],
             IF mem.log[s].d # None /\ mem.log[s].ok THEN {Msg("prepare", mem, s)} ELSE {})

\* onPrepareCombinedSigSucceeded, onPrepareVerifyCombinedSigResult
Prepared(s) ==
  /\ InView /\ InWindow(mem, s) /\ mem.log[s].d # None /\ mem.log[s].slow /\ ~mem.log[s].prep
  /\ SetSlot(s, [mem.log[s] EXCEPT !.prep = TRUE], {Msg("commit", mem, s)})

\* onCommitCombinedSigSucceeded, onCommitVerifyCombinedSigResult
CommittedSlow(s) ==
  /\ InView /\ InWindow(mem, s) /\ mem.log[s].d # None /\ mem.log[s].slow /\ ~mem.log[s].commit
  /\ SetSlot(s, [mem.log[s] EXCEPT !.commit = TRUE], {})

\* onFastPathCommitCombinedSigSucceeded, onFastPathCommitVerifyCombinedSigResult:
\* dropped when the replica has no partial proof of its own.
CommittedFast(s) ==
  /\ InView /\ InWindow(mem, s) /\ mem.log[s].d # None /\ ~mem.log[s].fast
  /\ mem.log[s].path = "fast" /\ mem.log[s].ok
  /\ SetSlot(s, [mem.log[s] EXCEPT !.fast = TRUE], {})

(***************************************************************************)
(* A stable checkpoint: onSeqNumIsStable on a memory and on a storage      *)
(***************************************************************************)
Cleared(log, stable) == [s \in Seqs |-> IF s <= stable THEN Empty ELSE log[s]]

\* checkpointsLog also keeps the checkpoint before the stable one, which only
\* super-stability needs.
KeptCkpts(ckpt, s, state) ==
  [c \in Ckpts |-> IF c < s THEN "no" ELSE IF c = s /\ state THEN "stable" ELSE ckpt[c]]

StableMem(m, s, state) ==
  [m EXCEPT !.stable = s,
            !.lower = IF s > @ THEN s ELSE @,
            !.used = IF s > @ THEN s ELSE @,
            !.exec = IF state /\ s > @ THEN s ELSE @,
            !.log = Cleared(@, s),
            !.ckpt = KeptCkpts(@, s, state)]

StableWrites(p, m, s, state) ==
  [p EXCEPT !.stable = s,
            !.lower = IF s > m.lower THEN s ELSE @,
            !.used = IF s > m.used THEN s ELSE @,
            !.exec = IF state THEN (IF s > m.exec THEN s ELSE m.exec) ELSE @,
            !.log = Cleared(@, s),
            !.ckpt = KeptCkpts(@, s, state)]

\* onMessage<CheckpointMsg> completes a certificate (it needs the replica's own
\* message), or tryToMarkCheckpointStableForFastPath.
CheckpointStable(s) ==
  /\ Idle /\ s > mem.stable /\ mem.ckpt[s] # "no"
  /\ mem' = StableMem(mem, s, TRUE)
  /\ disk' = StableWrites(disk, mem, s, TRUE)
  /\ UNCHANGED <<tran, up, sent, newViews, chain, crashes, transfers>>

(***************************************************************************)
(* Execution                                                               *)
(***************************************************************************)
\* Phase 1: the descriptor of the execution, unless there are no requests.
ExecStart ==
  LET s == mem.exec + 1
  IN  /\ Idle /\ mem.active /\ ~disk.fetching
      /\ InWindow(mem, s) /\ s <= MaxSeq /\ mem.log[s].d # None
      /\ mem.log[s].commit \/ mem.log[s].fast
      /\ mem' = [mem EXCEPT !.run = "exec", !.added = IF mem.log[s].d = Null THEN Batch ELSE 0]
      /\ disk' = IF mem.log[s].d = Null THEN disk ELSE [disk EXCEPT !.desc = s]
      /\ UNCHANGED <<tran, up, sent, newViews, chain, crashes, transfers>>

\* Phase 2: each request of the batch adds its block.
ExecBlock ==
  /\ Ready /\ mem.run = "exec" /\ mem.added < Batch
  /\ chain' = Append(chain, mem.exec + 1)
  /\ mem' = [mem EXCEPT !.added = @ + 1]
  /\ UNCHANGED <<disk, tran, up, sent, newViews, crashes, transfers>>

\* Phase 3: finalizeExecution with tryToMarkSeqNumAsStable, up to the outer
\* endWriteTran.  cert: the checkpoint certificate is complete.  d: what the
\* self-adjusting batching of onSeqNumIsStable proposes at once, or None.
ExecFinish(cert, d, path) ==
  LET s == mem.exec + 1
      at == s % C = 0
      m1 == [mem EXCEPT !.exec = s, !.run = "finish",
               !.fully = IF @ < mem.view /\ s >= mem.max THEN mem.view ELSE @,
               !.ckpt = IF at THEN [@ EXCEPT ![s] = "own"] ELSE @]
      p1 == [disk EXCEPT !.exec = s, !.fully = m1.fully,
               !.ckpt = IF at THEN [@ EXCEPT ![s] = "own"] ELSE @]
      m2 == IF cert THEN StableMem(m1, s, TRUE) ELSE m1
      p2 == IF cert THEN StableWrites(p1, m1, s, TRUE) ELSE p1
      e == Proposal(d, path)
  IN  /\ Ready /\ mem.run = "exec" /\ mem.added = Batch
      /\ cert => at /\ s > mem.stable
      /\ d # None => SelfAdjusted /\ cert /\ MayPropose(m2)
      /\ mem' = IF d = None THEN m2 ELSE AfterPropose(m2, e)
      /\ tran' = [(IF d = None THEN p2 ELSE ProposeWrites(p2, m2, e))
                    EXCEPT !.blocks = IF mem.log[s].d = Null THEN @ ELSE Len(chain)]
      /\ sent' = IF d = None THEN sent ELSE sent \cup ProposeSends(m2, e)
      /\ UNCHANGED <<disk, up, newViews, chain, crashes, transfers>>

\* The outer endWriteTran.
Commit ==
  /\ up /\ tran # NoTran
  /\ disk' = tran /\ tran' = NoTran
  /\ mem' = [mem EXCEPT !.run = "idle", !.added = 0]
  /\ UNCHANGED <<up, sent, newViews, chain, crashes, transfers>>

(***************************************************************************)
(* View change                                                             *)
(***************************************************************************)
\* MoveToHigherView from an active view: the PrePrepares of the window go to
\* the descriptor and to the ViewChangeMsg.
Elements(m) == [s \in Seqs |-> IF m.log[s].ok THEN m.log[s] ELSE Empty]

LeaveView ==
  /\ Idle /\ mem.active /\ mem.view < MaxView
  /\ mem' = [mem EXCEPT !.active = FALSE, !.view = @ + 1, !.log = NoLog]
  /\ disk' = [disk EXCEPT !.exit = [view |-> mem.view, elems |-> Elements(mem)], !.log = NoLog]
  /\ UNCHANGED <<tran, up, sent, newViews, chain, crashes, transfers>>

\* MoveToHigherView when no view is active: nothing is stored.
SkipView ==
  /\ Idle /\ ~mem.active /\ mem.view < MaxView
  /\ mem' = [mem EXCEPT !.view = @ + 1]
  /\ UNCHANGED <<disk, tran, up, sent, newViews, chain, crashes, transfers>>

\* onNewView with the PrePrepares lo..hi, a memory and a storage.
Entered(m, lo, hi, ds) ==
  [m EXCEPT !.active = TRUE,
            !.used = IF lo > hi THEN m.stable ELSE hi,
            !.max = IF lo > hi THEN m.stable ELSE hi,
            !.lower = IF lo > hi THEN m.stable ELSE lo - 1,
            !.log = [s \in Seqs |-> IF s \in lo..hi THEN Proposal(ds[s], "slow") ELSE @[s]]]
EnterWrites(p, n) ==
  [p EXCEPT !.new = [view |-> n.view, max |-> n.max], !.used = n.used, !.lower = n.lower,
            !.log = [s \in Seqs |-> IF n.log[s].d # None THEN Stored(n.log[s]) ELSE @[s]]]
EnterSends(n) ==
  /\ sent' = sent \cup {Msg("prepare", n, s) : s \in {x \in Seqs : n.log[x].d # None}}
  /\ newViews' = newViews \cup {[view |-> n.view, log |-> n.log]}
  \* another primary is correct: its NewViewMsg is always the same
  /\ n.view \notin Mine => \A a \in newViews : a.view = n.view => a.log = n.log

EnterView(lo, hi, ds) ==
  /\ Idle /\ ~mem.active /\ ~disk.fetching
  /\ lo > mem.stable /\ hi <= mem.stable + W
  /\ LET n == Entered(mem, lo, hi, ds)
     IN  mem' = n /\ disk' = EnterWrites(disk, n) /\ EnterSends(n)
  /\ UNCHANGED <<tran, up, chain, crashes, transfers>>

(***************************************************************************)
(* State transfer                                                          *)
(***************************************************************************)
\* The blocks of a later checkpoint arrive.
TransferBlocks(s) ==
  /\ Idle /\ ~disk.fetching /\ transfers < MaxTransfers /\ s > mem.exec
  /\ disk' = [disk EXCEPT !.fetching = TRUE]
  /\ chain' = chain \o [i \in 1..(s - mem.exec) * Batch |-> mem.exec + 1 + ((i - 1) \div Batch)]
  /\ transfers' = transfers + 1
  /\ UNCHANGED <<mem, tran, up, sent, newViews, crashes>>

\* onTransferringCompleteImp up to its outer endWriteTran.  The fetched
\* checkpoint is that of the last block.  enter: the inactive view is entered
\* inside the transaction, by onSeqNumIsStable.
TransferDone(enter, lo, hi, ds) ==
  LET s == chain[Len(chain)]
      ref == s - W
      withRef == ref \in Ckpts /\ ref >= mem.stable /\ mem.ckpt[ref] # "no"
      beyond == s > mem.stable + W
      m1 == [mem EXCEPT !.exec = s]
      p1 == [disk EXCEPT !.exec = s]
      m2 == IF beyond THEN StableMem(m1, ref, withRef) ELSE m1
      p2 == IF beyond THEN StableWrites(p1, m1, ref, withRef) ELSE p1
      m3 == IF enter THEN Entered(m2, lo, hi, ds) ELSE m2
      p3 == IF enter THEN EnterWrites(p2, m3) ELSE p2
      used == IF s > m3.used THEN s ELSE m3.used
  IN  /\ Idle /\ disk.fetching /\ s > mem.exec
      /\ enter => beyond /\ ~mem.active /\ lo > m2.stable /\ hi <= m2.stable + W
      /\ mem' = [m3 EXCEPT !.used = used, !.ckpt[s] = "own", !.run = "transfer"]
      /\ tran' = [p3 EXCEPT !.used = used, !.ckpt[s] = "own"]
      /\ IF enter THEN EnterSends(m3) ELSE UNCHANGED <<sent, newViews>>
      /\ UNCHANGED <<disk, up, chain, crashes, transfers>>

\* The callback of the key-value blockchain stores the last block, then
\* finalizeCycle marks the transfer as completed.
TransferBlockId ==
  /\ Idle /\ disk.fetching /\ chain[Len(chain)] <= mem.exec /\ disk.blocks # Len(chain)
  /\ disk' = [disk EXCEPT !.blocks = Len(chain)]
  /\ UNCHANGED <<mem, tran, up, sent, newViews, chain, crashes, transfers>>
TransferEnds ==
  /\ Idle /\ disk.fetching /\ disk.blocks = Len(chain)
  /\ disk' = [disk EXCEPT !.fetching = FALSE]
  /\ UNCHANGED <<mem, tran, up, sent, newViews, chain, crashes, transfers>>

(***************************************************************************)
(* Crash and restart                                                       *)
(***************************************************************************)
Crash ==
  /\ up /\ crashes < MaxCrashes
  /\ up' = FALSE /\ tran' = NoTran /\ crashes' = crashes + 1
  /\ UNCHANGED <<mem, disk, sent, newViews, chain, transfers>>

\* loadViewInfo: the view that was active last, and whether it still is.
HasExit(p) == p.exit.view >= 0
HasNew(p) == p.new.view >= 0
LastView(p) == IF ~HasExit(p) THEN 0 ELSE IF HasNew(p) THEN p.new.view ELSE p.exit.view
IsInView(p) == ~HasExit(p) \/ (HasNew(p) /\ p.exit.view < p.new.view)
ViewsConsistent(p) ==
  \/ ~HasExit(p) /\ ~HasNew(p)
  \/ HasExit(p) /\ ~HasNew(p) /\ p.exit.view = 0
  \/ HasExit(p) /\ HasNew(p) /\ p.exit.view <= p.new.view /\ p.new.view >= 1

\* The Verify(...)s of loadReplicaData.
NumbersConsistent(p) ==
  /\ p.used <= p.stable + W
  /\ p.stable <= p.exec /\ p.exec <= p.stable + W
  /\ p.lower < p.stable + W
  /\ p.fully <= LastView(p)
  /\ HasNew(p) => p.new.max <= p.stable + W
CheckpointsConsistent(p) ==
  \A s \in Ckpts : s >= p.stable /\ s <= p.stable + W =>
    /\ s > 0 /\ s = (p.exec \div C) * C => p.ckpt[s] # "no"
    /\ s = 0 => p.ckpt[s] = "no"
    /\ s > 0 /\ s = p.stable /\ p.ckpt[s] # "no" => p.ckpt[s] = "stable"
    \* the constructor of ReplicaImp
    /\ s > 0 /\ s = p.stable /\ p.ckpt[s] = "no" => p.exec = p.stable + W
ExecutionConsistent(p) ==
  p.desc > p.exec =>
    /\ p.desc = p.exec + 1 /\ IsInView(p) /\ InWindow(p, p.desc)
    /\ p.log[p.desc].d \notin {None, Null}
\* The constructor of ReplicaImp: a PrePrepare of the slow path has the flag.
SlotsConsistent(p) ==
  IsInView(p) => \A s \in Seqs : p.log[s].d # None /\ p.log[s].path = "slow" => p.log[s].slow

\* executeBasedOnBlockId of the state sync: how many blocks it deletes, and
\* whether it gives up.
ToDelete == IF Len(chain) > disk.blocks THEN Len(chain) - disk.blocks ELSE 0
SyncGivesUpEarly == ToDelete + 1 >= MaxDelete
SyncGivesUp == ToDelete >= MaxDelete
NotTrimmed == chain
TrimmedChain == SubSeq(chain, 1, Len(chain) - ToDelete)

\* getSeqNumWindow, getCheckWindow
LoadedWindow(p) == IF IsInView(p) THEN p.log ELSE NoLog
LoadedCheckpoints(p) == [s \in Ckpts |-> IF s >= p.stable THEN p.ckpt[s] ELSE "no"]

\* ReplicaLoader, the constructor of ReplicaImp, recoverRequests.
Restart ==
  /\ ~up
  /\ up' = TRUE
  /\ LET v == LastView(disk)
         in == IsInView(disk)
     IN  mem' = [view |-> IF in THEN v ELSE v + 1, active |-> in,
                 stable |-> disk.stable, exec |-> disk.exec, used |-> disk.used, lower |-> disk.lower,
                 max |-> IF HasNew(disk) THEN disk.new.max ELSE 0, fully |-> disk.fully,
                 log |-> LoadedWindow(disk), ckpt |-> LoadedCheckpoints(disk),
                 run |-> IF disk.desc > disk.exec THEN "exec" ELSE "idle", added |-> 0]
  /\ chain' = IF disk.fetching THEN chain ELSE TrimmedChain
  /\ UNCHANGED <<disk, tran, sent, newViews, crashes, transfers>>

Next ==
  \/ \E d \in Digests, path \in Paths : Propose(d, path)
  \/ \E s \in Seqs, d \in Digests, path \in Paths, ok \in BOOLEAN : AcceptPrePrepare(s, d, path, ok)
  \/ \E s \in Seqs : StartSlow(s) \/ Prepared(s) \/ CommittedSlow(s) \/ CommittedFast(s)
  \/ \E s \in Ckpts : CheckpointStable(s) \/ TransferBlocks(s)
  \/ ExecStart \/ ExecBlock
  \/ \E cert \in BOOLEAN, d \in Digests \cup {None}, path \in Paths : ExecFinish(cert, d, path)
  \/ Commit
  \/ LeaveView \/ SkipView
  \/ \E lo \in Seqs, hi \in 0..MaxSeq : \E ds \in [lo..hi -> Digests \cup {Null}] :
       EnterView(lo, hi, ds) \/ TransferDone(TRUE, lo, hi, ds)
  \/ TransferDone(FALSE, 1, 0, <<>>) \/ TransferBlockId \/ TransferEnds
  \/ Crash \/ Restart

Spec == Init /\ [][Next]_vars

(***************************************************************************)
(* Properties                                                              *)
(***************************************************************************)
\* Whatever the moment of a crash, ReplicaLoader accepts what is stored and
\* the assertions of the constructor hold.
LoadSucceeds ==
  /\ ViewsConsistent(disk) /\ NumbersConsistent(disk) /\ CheckpointsConsistent(disk)
  /\ ExecutionConsistent(disk) /\ SlotsConsistent(disk)

\* In one view the replica never proposes, or votes for, two contents of one
\* sequence number, not even across restarts (startConsensusProcess and
\* onMessage<PrePrepareMsg> store the PrePrepare before they send).
NoEquivocation ==
  /\ \A a, b \in sent : a.view = b.view /\ a.seq = b.seq => a.d = b.d
  /\ \A a, b \in newViews : a.view = b.view => a = b

\* A commit vote for a sequence number that is not stable is backed by a
\* stored certificate: in the window of the view, or in the descriptor of the
\* exit from it, from which the ViewChangeMsg is made.
CommitVoteIsRemembered ==
  \A a \in sent : a.kind = "commit" /\ a.seq > disk.stable /\ a.view = LastView(disk) =>
    LET e == IF IsInView(disk) THEN disk.log[a.seq] ELSE disk.exit.elems[a.seq]
    IN  e.d = a.d /\ e.prep

\* The requests of a sequence number are applied once, in order, even when the
\* replica crashes while it executes them.
AppliedOnce ==
  /\ \A i \in 1..Len(chain) - 1 : chain[i] <= chain[i + 1]
  /\ \A s \in Seqs : Cardinality({i \in 1..Len(chain) : chain[i] = s}) <= Batch
  /\ up /\ ~disk.fetching => \A i \in 1..Len(chain) : chain[i] <= mem.exec + 1

\* The slot that the primary uses next is free (SeqNumInfo::addSelfMsg asserts it).
NextSlotIsFree == Ready /\ MayPropose(mem) => mem.log[mem.used + 1].d = None

\* Nothing the replica said is forgotten or contradicted after a crash.
VotesSurvive == NoEquivocation /\ CommitVoteIsRemembered /\ NextSlotIsFree

\* The blocks of one interrupted execution never stop the next start.
StartsAfterCrash == ~up /\ ~disk.fetching => ~SyncGivesUp \/ ToDelete = 0
============================================================================
