--------------------------- MODULE Restart_proofs ---------------------------
(***************************************************************************)
(* Proofs about Restart: whatever the moment of a crash, the storage can   *)
(* be loaded, and what the replica said before the crash is backed by what *)
(* it stored.  For every size of the windows, any number of views, crashes *)
(* and sequence numbers, every set of views with this replica as primary.  *)
(*   KvBlockchain (Kv, below): what the chain of blocks says is what the   *)
(*     categories and the tree store, however blocks were added, linked,   *)
(*     pruned and deleted.  For every set of keys and number of blocks.    *)
(***************************************************************************)
EXTENDS Restart, SequenceTheorems, FiniteSetTheorems, WellFoundedInduction, TLAPS

(* What the sizes and the bounds range over *)
Setup ==
    /\ W \in Nat \ {0} /\ C \in Nat \ {0} /\ Batch \in Nat
    /\ MaxView \in Nat /\ MaxSeq \in Nat /\ MaxCrashes \in Nat
    /\ None \notin Digests /\ Null \notin Digests

(* The replicas these theorems are about: outside of it a proposal or a    *)
(* new view is sent before it is stored, or a rejected time is forgotten.  *)
InScope == ~SelfAdjusted /\ ~BadTimes /\ MaxTransfers = 0

-----------------------------------------------------------------------------
(* The parts of the inductive invariant *)

Contents == Digests \cup {Null}

Slots ==
    {e \in [d : Contents \cup {None}, slow : BOOLEAN, path : Paths \cup {"slow"}, ok : {TRUE},
            prep : BOOLEAN, commit : BOOLEAN, fast : BOOLEAN] :
        /\ e.d # None /\ e.path = "slow" => e.slow
        /\ e.prep => e.d # None}

Logs == [Seqs -> Slots]
CheckpointLogs == [Ckpts -> {"no", "own", "stable"}]

Memories ==
    [view : Nat, active : BOOLEAN, stable : 0 .. MaxSeq, exec : 0 .. MaxSeq, used : Nat,
     lower : Nat, max : Nat, fully : Nat, log : Logs, ckpt : CheckpointLogs,
     run : {"idle", "exec", "finish"}, added : Nat]

Storages ==
    [stable : 0 .. MaxSeq, exec : 0 .. MaxSeq, used : Nat, lower : Nat, fully : Nat, log : Logs,
     ckpt : CheckpointLogs, exit : [view : Int, elems : Logs], new : [view : Int, max : Nat],
     desc : 0 .. MaxSeq, blocks : Nat, fetching : {FALSE}]

(* What loadReplicaData asks of the numbers, and that no slot up to the    *)
(* stable point is used again                                              *)
NumbersFit(p) == NumbersConsistent(p) /\ p.stable <= p.used

(* The checkpoints of the window: the stable one, and those executed since *)
CheckpointsFit(p) ==
    /\ p.stable \in Ckpts
    /\ p.stable > 0 => p.ckpt[p.stable] = "stable"
    /\ \A c \in Ckpts :
          /\ p.ckpt[c] # "no" => 0 < c /\ p.stable <= c /\ c <= p.exec
          /\ 0 < c /\ c = (p.exec \div C) * C => p.ckpt[c] # "no"

(* Outside a view there is no log; as the primary the replica has used no  *)
(* slot above the last one it counted.                                     *)
LogFits(p) ==
    /\ ~IsInView(p) => p.log = NoLog
    /\ IsInView(p) /\ LastView(p) \in Mine => \A s \in Seqs : s > p.used => p.log[s].d = None

StorageFits(p) ==
    /\ p \in Storages
    /\ ViewsConsistent(p) /\ NumbersFit(p) /\ CheckpointsFit(p) /\ ExecutionConsistent(p)
    /\ LogFits(p)

(* The record of a vote: the slot of the log, or of the exit descriptor *)
RecordOf(p, s) == IF IsInView(p) THEN p.log[s] ELSE p.exit.elems[s]

(* What was sent is backed by the storage p. *)
MessageBacked(a, p) ==
    /\ a.view <= LastView(p)
    /\ a.view = LastView(p) /\ a.seq > p.stable =>
          /\ IsInView(p) => p.log[a.seq].d = a.d
          /\ a.kind = "commit" => RecordOf(p, a.seq).d = a.d /\ RecordOf(p, a.seq).prep

Backed(p) ==
    /\ \A a \in sent : MessageBacked(a, p)
    /\ \A a \in newViews : a.view <= LastView(p)

(* The memory m is what would be loaded from p, but for views that were    *)
(* skipped.                                                                *)
Mirrors(m, p) ==
    /\ m.stable = p.stable /\ m.exec = p.exec /\ m.used = p.used /\ m.lower = p.lower
    /\ m.fully = p.fully /\ m.log = p.log /\ m.ckpt = p.ckpt
    /\ m.max = IF HasNew(p) THEN p.new.max ELSE 0
    /\ m.active = IsInView(p)
    /\ IF m.active THEN m.view = LastView(p) ELSE m.view > LastView(p)

(* An execution under way is that of the next slot. *)
Running(m, p) ==
    /\ m.run \in {"idle", "exec"}
    /\ p.desc > p.exec => m.run = "exec"
    /\ m.run = "exec" => /\ m.active /\ m.exec + 1 \in Seqs /\ InWindow(m, m.exec + 1)
                         /\ m.log[m.exec + 1].d # None

Types ==
    /\ mem \in Memories /\ up \in BOOLEAN /\ chain \in Seq(Nat) /\ transfers = 0
    /\ \A a \in sent : a.view \in Nat /\ a.seq \in Seqs /\ a.d \in Contents
    /\ \A a \in newViews : a.view \in Nat

RInv ==
    /\ Types /\ StorageFits(disk) /\ Backed(disk)
    /\ tran # NoTran => up /\ StorageFits(tran) /\ Backed(tran) /\ tran.desc <= tran.exec
    /\ up => IF tran = NoTran THEN Mirrors(mem, disk) /\ Running(mem, disk)
             ELSE Mirrors(mem, tran) /\ mem.run = "finish"
    /\ NoEquivocation

-----------------------------------------------------------------------------
(* Slots, logs and checkpoints *)

(* A stored slot is the slot: no time is rejected. *)
LEMMA StoredIsSlot == ASSUME NEW e \in Slots PROVE Stored(e) = e
BY DEF Stored, Slots

(* The log of a view that was just left holds nothing. *)
LEMMA EmptyLog == Empty \in Slots /\ Empty.d = None /\ NoLog \in Logs
BY DEF NoLog, Logs, Slots, Empty

(* A slot with a PrePrepare and nothing else *)
LEMMA ProposalIsSlot ==
    ASSUME NEW d \in Contents, NEW path \in Paths \cup {"slow"}
    PROVE  /\ Proposal(d, path) \in Slots /\ Proposal(d, path).d = d
           /\ Proposal(d, path).prep = FALSE
BY DEF Proposal, Slots, Empty

(* The log without the slots up to the stable point *)
LEMMA ClearedLog ==
    ASSUME NEW log \in Logs, NEW n
    PROVE  /\ Cleared(log, n) \in Logs
           /\ \A s \in Seqs : Cleared(log, n)[s] = IF s <= n THEN Empty ELSE log[s]
           /\ log = NoLog => Cleared(log, n) = NoLog
<1>1. \A s \in Seqs : Cleared(log, n)[s] = IF s <= n THEN Empty ELSE log[s]
  BY DEF Cleared
<1>2. Cleared(log, n) \in Logs
  BY EmptyLog DEF Cleared, Logs
<1>3. ASSUME log = NoLog PROVE Cleared(log, n) = NoLog
  BY <1>3 DEF Cleared, NoLog
<1> QED BY <1>1, <1>2, <1>3

(* Quotient and remainder *)
LEMMA Division ==
    ASSUME NEW c \in Nat \ {0}, NEW n \in Nat
    PROVE  /\ n % c \in 0 .. c - 1 /\ n \div c \in Nat
           /\ n = c * (n \div c) + (n % c) /\ (n \div c) * c = c * (n \div c)
<1>1. n % c \in 0 .. c - 1
  BY SMTT(30)
<1>2. n \div c \in Nat
  BY SMTT(30)
<1>3. n = c * (n \div c) + (n % c)
  BY SMTT(30)
<1>4. (n \div c) * c = c * (n \div c)
  BY <1>2, SMTT(30)
<1> QED BY <1>1, <1>2, <1>3, <1>4

(* Different quotients are at least a divisor apart. *)
LEMMA QuotientsApart ==
    ASSUME NEW c \in Nat \ {0}, NEW x \in Nat, NEW y \in Nat, x < y
    PROVE  c * x + c <= c * y
<1>1. y - x >= 1 /\ y - x \in Nat
  OBVIOUS
<1>2. c * (y - x) >= c
  BY <1>1, SMTT(30)
<1>3. c * (y - x) = c * y - c * x
  BY SMTT(30)
<1>4. c * x \in Nat /\ c * y \in Nat /\ c * (y - x) \in Int
  BY <1>1, SMTT(30)
<1> QED BY <1>2, <1>3, <1>4

(* The last checkpoint moves exactly when one is executed. *)
LEMMA LastCheckpointMoves ==
    ASSUME NEW c \in Nat \ {0}, NEW n \in Nat, NEW m \in Nat, m = n + 1
    PROVE  /\ m % c = 0 => (m \div c) * c = m
           /\ m % c # 0 => (m \div c) * c = (n \div c) * c
<1> DEFINE q == n \div c
           p == m \div c
<1>1. /\ n % c \in 0 .. c - 1 /\ q \in Nat /\ n = c * q + (n % c) /\ q * c = c * q
  BY Division
<1>2. /\ m % c \in 0 .. c - 1 /\ p \in Nat /\ m = c * p + (m % c) /\ p * c = c * p
  BY Division
<1> HIDE DEF p, q
<1>3. c * p \in Nat /\ c * q \in Nat
  BY <1>1, <1>2, SMTT(30)
<1>4. m % c = 0 => p * c = m
  BY <1>2, <1>3
<1>5. ASSUME m % c # 0 PROVE p = q
  <2>1. CASE p < q
    <3>1. c * p + c <= c * q
      BY <1>1, <1>2, <2>1, QuotientsApart
    <3> QED BY <1>1, <1>2, <1>3, <3>1
  <2>2. CASE q < p
    <3>1. c * q + c <= c * p
      BY <1>1, <1>2, <2>2, QuotientsApart
    <3> QED BY <1>1, <1>2, <1>3, <1>5, <3>1
  <2> QED BY <1>1, <1>2, <2>1, <2>2
<1> QED BY <1>4, <1>5 DEF p, q

-----------------------------------------------------------------------------
(* Writing one slot of the window *)

(* The storage q is p with the slot s written as e: a content that was     *)
(* there, or a prepared certificate, is kept.                              *)
Writes(p, s, e, q) ==
    /\ q \in Storages /\ s \in Seqs /\ e \in Slots
    /\ p.stable < s /\ s <= p.stable + W /\ IsInView(p)
    /\ q.log = [p.log EXCEPT ![s] = e]
    /\ q.stable = p.stable /\ q.exec = p.exec /\ q.lower = p.lower /\ q.fully = p.fully
    /\ q.ckpt = p.ckpt /\ q.exit = p.exit /\ q.new = p.new /\ q.desc = p.desc
    /\ p.used <= q.used /\ q.used <= p.stable + W
    /\ p.log[s].d # None => e.d = p.log[s].d
    /\ p.log[s].prep => e.prep
    /\ LastView(p) \in Mine /\ e.d # None => s <= q.used

(* The memory n is m with the log and the counter of the storage q. *)
Follows(m, n, q) ==
    /\ n \in Memories /\ n.log = q.log /\ n.used = q.used
    /\ n.view = m.view /\ n.active = m.active /\ n.stable = m.stable /\ n.exec = m.exec
    /\ n.lower = m.lower /\ n.max = m.max /\ n.fully = m.fully /\ n.ckpt = m.ckpt
    /\ n.run = m.run

(* What was sent about the slot s of the view of p, with the content of e *)
SentAbout(msgs, p, s, e) ==
    \A a \in msgs : /\ a.view = LastView(p) /\ a.seq = s /\ a.d = e.d /\ e.d # None
                    /\ a.kind = "commit" => e.prep

(* Such a write keeps the view ... *)
LEMMA WritesView ==
    ASSUME NEW p, NEW q, NEW s, NEW e, Writes(p, s, e, q)
    PROVE  LastView(q) = LastView(p) /\ IsInView(q) /\ IsInView(p)
BY DEF Writes, LastView, IsInView, HasExit, HasNew

(* ... and what a slot contains ... *)
LEMMA WritesSlots ==
    ASSUME NEW p, NEW q, NEW s, NEW e, p.log \in Logs, Writes(p, s, e, q)
    PROVE  \A x \in Seqs : /\ q.log[x] = IF x = s THEN e ELSE p.log[x]
                           /\ p.log[x].d # None => q.log[x].d = p.log[x].d
                           /\ p.log[x].prep => q.log[x].prep
BY DEF Writes, Logs

(* ... so the storage can still be loaded ... *)
LEMMA WritesFit ==
    ASSUME Setup, NEW p, NEW q, NEW s, NEW e, StorageFits(p), Writes(p, s, e, q)
    PROVE  StorageFits(q)
<1>1. LastView(q) = LastView(p) /\ IsInView(q) /\ IsInView(p)
  BY WritesView
<1>2. p \in Storages /\ q \in Storages /\ s \in Seqs /\ e \in Slots /\ s \in Nat
  BY DEF StorageFits, Writes, Seqs
<1>3. \A x \in Seqs : /\ q.log[x] = IF x = s THEN e ELSE p.log[x]
                      /\ p.log[x].d # None => q.log[x].d = p.log[x].d
  BY <1>2, WritesSlots DEF Storages
<1>4. ViewsConsistent(q)
  BY DEF StorageFits, Writes, ViewsConsistent, HasExit, HasNew
<1>5. NumbersFit(q)
  BY <1>1, <1>2 DEF StorageFits, Writes, NumbersFit, NumbersConsistent, HasNew, Storages, Setup
<1>6. CheckpointsFit(q)
  BY DEF StorageFits, Writes, CheckpointsFit
<1>7. ExecutionConsistent(q)
  <2> SUFFICES ASSUME q.desc > q.exec PROVE ExecutionConsistent(q)
    BY DEF ExecutionConsistent
  <2>1. /\ p.desc = p.exec + 1 /\ IsInView(p) /\ InWindow(p, p.desc)
        /\ p.log[p.desc].d \notin {None, Null}
    BY DEF StorageFits, ExecutionConsistent, Writes
  <2>2. p.desc \in Seqs
    BY <1>2, <2>1 DEF Storages, Seqs, InWindow
  <2>3. q.log[q.desc].d = p.log[p.desc].d
    BY <1>3, <2>1, <2>2 DEF Writes
  <2> QED BY <1>1, <2>1, <2>3 DEF ExecutionConsistent, InWindow, Writes
<1>8. LogFits(q)
  <2> SUFFICES ASSUME LastView(p) \in Mine, NEW x \in Seqs, x > q.used PROVE q.log[x].d = None
    BY <1>1 DEF LogFits
  <2>1. x > p.used
    BY <1>2 DEF Writes, Storages, Seqs
  <2>2. p.log[x].d = None
    BY <1>1, <2>1 DEF StorageFits, LogFits
  <2>3. CASE x = s
    BY <1>2, <1>3, <2>3 DEF Writes, Storages, Seqs
  <2> QED BY <1>3, <2>2, <2>3
<1> QED BY <1>2, <1>4, <1>5, <1>6, <1>7, <1>8 DEF StorageFits

(* ... and still backs what was sent. *)
LEMMA WritesBack ==
    ASSUME NEW p, NEW q, NEW s, NEW e, p.log \in Logs, Writes(p, s, e, q),
           NEW a, MessageBacked(a, p), a.seq \in Seqs, a.d # None
    PROVE  MessageBacked(a, q)
<1>1. LastView(q) = LastView(p) /\ IsInView(q) /\ IsInView(p)
  BY WritesView
<1>2. /\ p.log[a.seq].d # None => q.log[a.seq].d = p.log[a.seq].d
      /\ p.log[a.seq].prep => q.log[a.seq].prep
  BY WritesSlots
<1>3. q.stable = p.stable
  BY DEF Writes
<1> QED BY <1>1, <1>2, <1>3 DEF MessageBacked, RecordOf

(* An action that writes one slot, and sends what the slot says *)
LEMMA SlotStep ==
    ASSUME Setup, RInv, InView, NEW s, NEW e, NEW msgs,
           Writes(disk, s, e, disk'), Follows(mem, mem', disk'), SentAbout(msgs, disk, s, e),
           sent' = sent \cup msgs, UNCHANGED <<tran, up, newViews, chain, crashes, transfers>>
    PROVE  RInv'
<1>1. /\ StorageFits(disk) /\ Backed(disk) /\ Types /\ Mirrors(mem, disk) /\ Running(mem, disk)
      /\ tran = NoTran /\ up /\ NoEquivocation
  BY DEF RInv, InView, Ready
<1>2. /\ disk \in Storages /\ disk.log \in Logs /\ s \in Seqs /\ e \in Slots /\ s > disk.stable
      /\ disk.stable \in Nat /\ s \in Nat
  <2>1. disk \in Storages /\ s \in Seqs /\ e \in Slots /\ disk.stable < s
    BY <1>1 DEF StorageFits, Writes
  <2>2. disk.log \in Logs /\ disk.stable \in 0 .. MaxSeq
    BY <2>1 DEF Storages
  <2> QED BY <2>1, <2>2 DEF Seqs, Setup
<1>3. LastView(disk') = LastView(disk) /\ IsInView(disk') /\ IsInView(disk)
  BY WritesView
<1>4. LastView(disk) \in Nat
  BY <1>1, <1>3 DEF Mirrors, Types, Memories
<1>5. StorageFits(disk')
  BY <1>1, WritesFit
<1>6. \A x \in Seqs : /\ disk'.log[x] = IF x = s THEN e ELSE disk.log[x]
                      /\ disk.log[x].d # None => disk'.log[x].d = disk.log[x].d
  BY <1>2, WritesSlots
<1>7. /\ HasNew(disk') = HasNew(disk) /\ disk'.stable = disk.stable /\ disk'.exec = disk.exec
      /\ disk'.new = disk.new /\ disk'.desc = disk.desc
  BY DEF Writes, HasNew
<1>8. Mirrors(mem', disk')
  BY <1>1, <1>3, <1>7 DEF Mirrors, Follows, Writes
<1>9. Running(mem', disk')
  <2>1. mem'.run \in {"idle", "exec"} /\ (disk'.desc > disk'.exec => mem'.run = "exec")
    BY <1>1, <1>7 DEF Running, Follows
  <2>2. ASSUME mem'.run = "exec"
        PROVE  /\ mem'.active /\ mem'.exec + 1 \in Seqs /\ InWindow(mem', mem'.exec + 1)
               /\ mem'.log[mem'.exec + 1].d # None
    <3>1. /\ mem.active /\ mem.exec + 1 \in Seqs /\ InWindow(mem, mem.exec + 1)
          /\ mem.log[mem.exec + 1].d # None
      BY <1>1, <2>2 DEF Running, Follows
    <3>2. disk'.log[mem.exec + 1].d # None
      BY <1>1, <1>6, <3>1 DEF Mirrors
    <3> QED BY <3>1, <3>2 DEF Follows, InWindow
  <2> QED BY <2>1, <2>2 DEF Running
<1>10. \A a \in sent : MessageBacked(a, disk') /\ a.d \in Contents /\ a.d # None /\ a.seq \in Seqs
  <2> SUFFICES ASSUME NEW a \in sent
               PROVE  MessageBacked(a, disk') /\ a.d \in Contents /\ a.d # None /\ a.seq \in Seqs
    OBVIOUS
  <2>1. a.d \in Contents /\ a.d # None /\ a.seq \in Seqs /\ MessageBacked(a, disk)
    BY <1>1 DEF Types, Backed, Contents, Setup, None, Null
  <2> QED BY <1>2, <2>1, WritesBack
<1>11. \A a \in msgs : /\ MessageBacked(a, disk') /\ a.view \in Nat /\ a.seq \in Seqs
                       /\ a.d \in Contents /\ a.d # None
  <2> SUFFICES ASSUME NEW a \in msgs
               PROVE  /\ MessageBacked(a, disk') /\ a.view \in Nat /\ a.seq \in Seqs
                      /\ a.d \in Contents /\ a.d # None
    OBVIOUS
  <2>1. /\ a.view = LastView(disk) /\ a.seq = s /\ a.d = e.d /\ e.d # None
        /\ a.kind = "commit" => e.prep
    BY DEF SentAbout
  <2>2. a.view \in Nat /\ a.d \in Contents
    BY <1>2, <1>4, <2>1 DEF Slots
  <2>3. disk'.log[s] = e
    BY <1>2, <1>6
  <2>4. MessageBacked(a, disk')
    BY <1>3, <1>4, <2>1, <2>3 DEF MessageBacked, RecordOf
  <2> QED BY <1>2, <2>1, <2>2, <2>4
<1>12. Backed(disk)'
  BY <1>1, <1>3, <1>10, <1>11 DEF Backed
<1>13. Types'
  BY <1>1, <1>11 DEF Types, Follows
<1>14. ASSUME NEW a \in sent, NEW b \in msgs, a.view = b.view, a.seq = b.seq PROVE a.d = b.d
  <2>1. b.view = LastView(disk) /\ b.seq = s /\ b.d = e.d
    BY DEF SentAbout
  <2>2. disk.log[s].d = a.d
    BY <1>1, <1>2, <1>3, <1>14, <2>1 DEF Backed, MessageBacked
  <2>3. disk.log[s].d # None
    BY <1>10, <2>2
  <2> QED BY <2>1, <2>2, <2>3 DEF Writes
<1>15. NoEquivocation'
  <2>1. ASSUME NEW a \in msgs, NEW b \in msgs PROVE a.d = b.d
    BY DEF SentAbout
  <2> QED BY <1>1, <1>14, <2>1 DEF NoEquivocation
<1> QED BY <1>1, <1>5, <1>8, <1>9, <1>12, <1>13, <1>15 DEF RInv

-----------------------------------------------------------------------------
(* The actions of a view *)

(* The state of a replica in a view *)
LEMMA InViewState ==
    ASSUME Setup, RInv, InView
    PROVE  /\ StorageFits(disk) /\ Types /\ Mirrors(mem, disk) /\ Running(mem, disk)
           /\ mem \in Memories /\ disk \in Storages /\ IsInView(disk)
           /\ mem.view = LastView(disk) /\ mem.view \in Nat /\ mem.log = disk.log
           /\ mem.log \in Logs /\ mem.stable = disk.stable /\ disk.stable \in 0 .. MaxSeq
           /\ disk.used \in Nat /\ mem.used = disk.used /\ disk.used <= disk.stable + W
           /\ disk.stable <= disk.used /\ mem.lower = disk.lower
<1>1. /\ StorageFits(disk) /\ Types /\ Mirrors(mem, disk) /\ Running(mem, disk)
  BY DEF RInv, InView, Ready
<1>2. mem \in Memories /\ disk \in Storages
  BY <1>1 DEF StorageFits, Types
<1>3. mem.active = TRUE
  BY <1>2 DEF Memories, InView
<1> QED BY <1>1, <1>2, <1>3 DEF Mirrors, Memories, Storages, StorageFits, NumbersFit, NumbersConsistent

(* One slot of a memory and of a storage *)
LEMMA SetSlotStep ==
    ASSUME Setup, RInv, InView, NEW s \in Seqs, NEW e \in Slots, NEW msgs,
           InWindow(mem, s), SetSlot(s, e, msgs), SentAbout(msgs, disk, s, e),
           mem.log[s].d # None => e.d = mem.log[s].d, mem.log[s].prep => e.prep,
           mem.log[s].d = None /\ e.d # None => mem.view \notin Mine
    PROVE  RInv'
<1>1. /\ StorageFits(disk) /\ mem \in Memories /\ disk \in Storages /\ IsInView(disk)
      /\ mem.view = LastView(disk) /\ mem.log = disk.log /\ mem.log \in Logs
      /\ mem.stable = disk.stable /\ disk.used \in Nat /\ disk.used <= disk.stable + W
      /\ mem.used = disk.used
  BY InViewState
<1>2. Stored(e) = e
  BY StoredIsSlot
<1> DEFINE log == [disk.log EXCEPT ![s] = e]
<1>3. log \in Logs
  BY <1>1 DEF Logs
<1>4. disk' = [disk EXCEPT !.log = log] /\ mem' = [mem EXCEPT !.log = log]
  BY <1>1, <1>2 DEF SetSlot, Persisted
<1>5. disk'.log = log /\ mem'.log = log /\ disk' \in Storages /\ mem' \in Memories
  BY <1>1, <1>3, <1>4 DEF Storages, Memories
<1>6. disk.log[s].d # None /\ LastView(disk) \in Mine => s <= disk.used
  <2> SUFFICES ASSUME s > disk.used, LastView(disk) \in Mine PROVE disk.log[s].d = None
    BY <1>1 DEF Seqs
  <2> QED BY <1>1 DEF StorageFits, LogFits
<1>7. Writes(disk, s, e, disk')
  <2>1. /\ disk.stable < s /\ s <= disk.stable + W
    BY <1>1 DEF InWindow
  <2>2. /\ disk'.stable = disk.stable /\ disk'.exec = disk.exec /\ disk'.lower = disk.lower
        /\ disk'.fully = disk.fully /\ disk'.ckpt = disk.ckpt /\ disk'.exit = disk.exit
        /\ disk'.new = disk.new /\ disk'.desc = disk.desc /\ disk'.used = disk.used
    BY <1>1, <1>4 DEF Storages
  <2>3. LastView(disk) \in Mine /\ e.d # None => s <= disk'.used
    BY <1>1, <1>6, <2>2
  <2>4. disk.used <= disk'.used /\ disk'.used <= disk.stable + W
    BY <1>1, <2>2
  <2> QED BY <1>1, <1>5, <2>1, <2>2, <2>3, <2>4 DEF Writes
<1>8. Follows(mem, mem', disk')
  BY <1>1, <1>4, <1>5 DEF Follows, Memories, Storages
<1>9. sent' = sent \cup msgs /\ UNCHANGED <<tran, up, newViews, chain, crashes, transfers>>
  BY DEF SetSlot
<1> QED BY <1>7, <1>8, <1>9, SlotStep

(* The next PrePrepare of the primary *)
LEMMA ProposeStep ==
    ASSUME Setup, RInv, NEW d \in Digests, NEW path \in Paths, Propose(d, path)
    PROVE  RInv'
<1> DEFINE e == Proposal(d, path)
           s == mem.used + 1
           msgs == ProposeSends(mem, e)
           log == [disk.log EXCEPT ![s] = e]
<1>1. InView /\ MayPropose(mem) /\ mem' = AfterPropose(mem, e)
      /\ disk' = ProposeWrites(disk, mem, e) /\ sent' = sent \cup msgs
      /\ UNCHANGED <<tran, up, newViews, chain, crashes, transfers>>
  BY DEF Propose
<1>2. /\ StorageFits(disk) /\ mem \in Memories /\ disk \in Storages /\ IsInView(disk)
      /\ mem.view = LastView(disk) /\ mem.log = disk.log /\ mem.log \in Logs
      /\ mem.stable = disk.stable /\ disk.used \in Nat /\ disk.used <= disk.stable + W
      /\ mem.used = disk.used /\ disk.stable \in 0 .. MaxSeq /\ disk.stable <= disk.used
  BY <1>1, InViewState
<1>3. e \in Slots /\ e.d = d /\ d # None /\ Stored(e) = e
  BY ProposalIsSlot, StoredIsSlot DEF Contents, Setup
<1>4. /\ s \in Seqs /\ s \in Nat /\ s > disk.stable /\ s <= disk.stable + W /\ s > disk.used
  BY <1>1, <1>2 DEF MayPropose, Seqs, Setup
<1>5. disk.log[s].d = None
  BY <1>1, <1>2, <1>4 DEF MayPropose, StorageFits, LogFits
<1>6. ~disk.log[s].prep
  <2>1. disk.log[s] \in Slots
    BY <1>2, <1>4 DEF Logs
  <2> QED BY <1>5, <2>1 DEF Slots
<1> HIDE DEF e
<1>7. disk' = [disk EXCEPT !.log = log, !.used = s] /\ mem' = [mem EXCEPT !.log = log, !.used = s]
  BY <1>1, <1>2, <1>3 DEF AfterPropose, ProposeWrites, Persisted
<1>8. log \in Logs
  BY <1>2, <1>3, <1>4 DEF Logs
<1>9. disk'.log = log /\ mem'.log = log /\ disk' \in Storages /\ mem' \in Memories
  BY <1>2, <1>4, <1>7, <1>8 DEF Storages, Memories
<1>10. Writes(disk, s, e, disk')
  <2>1. /\ disk'.stable = disk.stable /\ disk'.exec = disk.exec /\ disk'.lower = disk.lower
        /\ disk'.fully = disk.fully /\ disk'.ckpt = disk.ckpt /\ disk'.exit = disk.exit
        /\ disk'.new = disk.new /\ disk'.desc = disk.desc /\ disk'.used = s
    BY <1>2, <1>7 DEF Storages
  <2>2. disk.used <= disk'.used /\ disk'.used <= disk.stable + W /\ s <= disk'.used
    BY <1>2, <1>4, <2>1
  <2> QED BY <1>2, <1>3, <1>4, <1>5, <1>6, <1>9, <2>1, <2>2 DEF Writes
<1>11. Follows(mem, mem', disk')
  BY <1>2, <1>7, <1>9 DEF Follows, Memories, Storages
<1>12. SentAbout(msgs, disk, s, e)
  <2> DEFINE n == AfterPropose(mem, e)
  <2>1. n.view = mem.view /\ n.used = s /\ n.log = log /\ log[s] = e
    BY <1>1, <1>2, <1>4, <1>7 DEF Memories, Logs
  <2> HIDE DEF n
  <2>2. \A a \in msgs : a.view = n.view /\ a.seq = n.used /\ a.d = n.log[n.used].d /\ a.kind # "commit"
    BY DEF ProposeSends, Msg, n
  <2> QED BY <1>2, <1>3, <2>1, <2>2 DEF SentAbout
<1> QED BY <1>1, <1>10, <1>11, <1>12, SlotStep

(* The PrePrepare of another primary: its time is accepted. *)
LEMMA AcceptStep ==
    ASSUME Setup, InScope, RInv, NEW s \in Seqs, NEW d \in Digests, NEW path \in Paths,
           NEW ok \in BOOLEAN, AcceptPrePrepare(s, d, path, ok)
    PROVE  RInv'
<1> DEFINE o == mem.log[s]
           e == [o EXCEPT !.d = d, !.path = path, !.ok = ok, !.slow = @ \/ path = "slow"]
           msgs == {[kind |-> IF e.slow THEN "prepare" ELSE "fast", view |-> mem.view, seq |-> s, d |-> d]}
<1>1. /\ InView /\ mem.view \notin Mine /\ InWindow(mem, s) /\ o.d = None
      /\ ok /\ SetSlot(s, e, IF ~ok THEN {} ELSE msgs)
  BY DEF AcceptPrePrepare, InScope
<1>2. mem.view = LastView(disk) /\ mem.log \in Logs
  BY <1>1, InViewState
<1>3. o \in Slots
  BY <1>2 DEF Logs
<1>4. d \in Contents /\ d # None /\ ok = TRUE
  BY <1>1 DEF Contents, Setup
<1> HIDE DEF o
<1>5. e \in Slots /\ e.d = d /\ e.prep = o.prep
  BY <1>3, <1>4 DEF Slots
<1>6. SetSlot(s, e, msgs)
  BY <1>1
<1>7. SentAbout(msgs, disk, s, e)
  <2> DEFINE a == [kind |-> IF e.slow THEN "prepare" ELSE "fast", view |-> mem.view, seq |-> s, d |-> d]
  <2>1. a.view = mem.view /\ a.seq = s /\ a.d = d /\ a.kind # "commit"
    OBVIOUS
  <2>2. \A x \in msgs : x = a
    OBVIOUS
  <2> HIDE DEF a, msgs
  <2> QED BY <1>2, <1>4, <1>5, <2>1, <2>2 DEF SentAbout
<1> HIDE DEF e, msgs
<1> QED BY <1>1, <1>3, <1>5, <1>6, <1>7, SetSlotStep DEF o

(* A message about a slot has its content. *)
LEMMA MsgFields ==
    ASSUME NEW kind, NEW m, NEW s
    PROVE  /\ Msg(kind, m, s).kind = kind /\ Msg(kind, m, s).view = m.view
           /\ Msg(kind, m, s).seq = s /\ Msg(kind, m, s).d = m.log[s].d
BY DEF Msg

(* The slow path, and the certificates *)
LEMMA StartSlowStep ==
    ASSUME Setup, RInv, NEW s \in Seqs, StartSlow(s)
    PROVE  RInv'
<1> DEFINE o == mem.log[s]
           e == [o EXCEPT !.slow = TRUE]
           msgs == IF o.d # None /\ o.ok THEN {Msg("prepare", mem, s)} ELSE {}
<1>1. InView /\ InWindow(mem, s) /\ SetSlot(s, e, msgs)
  BY DEF StartSlow
<1>2. mem.view = LastView(disk) /\ mem.log \in Logs
  BY <1>1, InViewState
<1>3. o \in Slots
  BY <1>2 DEF Logs
<1>4. e \in Slots /\ e.d = o.d /\ e.prep = o.prep
  BY <1>3 DEF Slots
<1>5. SentAbout(msgs, disk, s, e)
  BY <1>2, <1>4, MsgFields DEF SentAbout
<1> HIDE DEF e, msgs
<1> QED BY <1>1, <1>4, <1>5, SetSlotStep

(* The prepared certificate, with the commit vote *)
LEMMA PreparedStep ==
    ASSUME Setup, RInv, NEW s \in Seqs, Prepared(s)
    PROVE  RInv'
<1> DEFINE o == mem.log[s]
           e == [o EXCEPT !.prep = TRUE]
           msgs == {Msg("commit", mem, s)}
<1>1. InView /\ InWindow(mem, s) /\ SetSlot(s, e, msgs) /\ o.d # None
  BY DEF Prepared
<1>2. mem.view = LastView(disk) /\ mem.log \in Logs
  BY <1>1, InViewState
<1>3. o \in Slots
  BY <1>2 DEF Logs
<1>4. e \in Slots /\ e.d = o.d /\ e.prep
  BY <1>1, <1>3 DEF Slots
<1>5. SentAbout(msgs, disk, s, e)
  BY <1>1, <1>2, <1>4, MsgFields DEF SentAbout
<1> HIDE DEF e, msgs
<1> QED BY <1>1, <1>4, <1>5, SetSlotStep

(* The certificate of the slow path *)
LEMMA CommittedSlowStep ==
    ASSUME Setup, RInv, NEW s \in Seqs, CommittedSlow(s)
    PROVE  RInv'
<1> DEFINE o == mem.log[s]
           e == [o EXCEPT !.commit = TRUE]
<1>1. InView /\ InWindow(mem, s) /\ SetSlot(s, e, {})
  BY DEF CommittedSlow
<1>2. mem.log \in Logs
  BY <1>1, InViewState
<1>3. o \in Slots
  BY <1>2 DEF Logs
<1>4. e \in Slots /\ e.d = o.d /\ e.prep = o.prep
  BY <1>3 DEF Slots
<1>5. SentAbout({}, disk, s, e)
  BY DEF SentAbout
<1> HIDE DEF e
<1> QED BY <1>1, <1>4, <1>5, SetSlotStep

(* The certificate of the fast path *)
LEMMA CommittedFastStep ==
    ASSUME Setup, RInv, NEW s \in Seqs, CommittedFast(s)
    PROVE  RInv'
<1> DEFINE o == mem.log[s]
           e == [o EXCEPT !.fast = TRUE]
<1>1. InView /\ InWindow(mem, s) /\ SetSlot(s, e, {})
  BY DEF CommittedFast
<1>2. mem.log \in Logs
  BY <1>1, InViewState
<1>3. o \in Slots
  BY <1>2 DEF Logs
<1>4. e \in Slots /\ e.d = o.d /\ e.prep = o.prep
  BY <1>3 DEF Slots
<1>5. SentAbout({}, disk, s, e)
  BY DEF SentAbout
<1> HIDE DEF e
<1> QED BY <1>1, <1>4, <1>5, SetSlotStep

-----------------------------------------------------------------------------
(* A stable checkpoint *)

(* A checkpoint that is executed is not above the last one executed. *)
LEMMA LastCheckpointBounds ==
    ASSUME NEW c \in Nat \ {0}, NEW n \in Nat, NEW s \in Nat, s <= n, s % c = 0
    PROVE  s <= (n \div c) * c
<1> DEFINE q == n \div c
           x == s \div c
<1>1. n % c \in 0 .. c - 1 /\ q \in Nat /\ n = c * q + (n % c) /\ q * c = c * q
  BY Division
<1>2. x \in Nat /\ s = c * x + (s % c)
  BY Division
<1> HIDE DEF q, x
<1>3. c * x \in Nat /\ c * q \in Nat /\ s = c * x
  BY <1>1, <1>2, SMTT(30)
<1>4. CASE q < x
  <2>1. c * q + c <= c * x
    BY <1>1, <1>2, <1>4, QuotientsApart
  <2> QED BY <1>1, <1>3, <2>1
<1>5. CASE x < q
  <2>1. c * x + c <= c * q
    BY <1>1, <1>2, <1>5, QuotientsApart
  <2> QED BY <1>1, <1>3, <2>1 DEF q
<1>6. CASE x = q
  BY <1>1, <1>3, <1>6 DEF q
<1> QED BY <1>1, <1>2, <1>4, <1>5, <1>6

(* The storage q is p with the executed checkpoint s as the stable one. *)
Stabilised(p, s, q) ==
    /\ q \in Storages /\ s \in Ckpts /\ s > p.stable /\ s <= p.exec
    /\ q.stable = s /\ q.exec = p.exec
    /\ q.lower = (IF s > p.lower THEN s ELSE p.lower)
    /\ q.used = (IF s > p.used THEN s ELSE p.used)
    /\ q.log = Cleared(p.log, s) /\ q.ckpt = KeptCkpts(p.ckpt, s, TRUE)
    /\ q.fully = p.fully /\ q.exit = p.exit /\ q.new = p.new /\ q.desc = p.desc

(* It keeps the view, ... *)
LEMMA StabilisedView ==
    ASSUME NEW p, NEW q, NEW s, Stabilised(p, s, q)
    PROVE  LastView(q) = LastView(p) /\ IsInView(q) = IsInView(p) /\ HasNew(q) = HasNew(p)
BY DEF Stabilised, LastView, IsInView, HasExit, HasNew

(* ... can be loaded ... *)
LEMMA StabilisedFits ==
    ASSUME Setup, NEW p, NEW q, NEW s, StorageFits(p), Stabilised(p, s, q)
    PROVE  StorageFits(q)
<1>1. LastView(q) = LastView(p) /\ IsInView(q) = IsInView(p) /\ HasNew(q) = HasNew(p)
  BY StabilisedView
<1>2. /\ p \in Storages /\ q \in Storages /\ s \in Ckpts /\ s \in Nat /\ s % C = 0
      /\ s > p.stable /\ s <= p.exec /\ W \in Nat \ {0}
  BY DEF StorageFits, Stabilised, Ckpts, Setup
<1>3. /\ p.stable \in Nat /\ p.exec \in Nat /\ p.lower \in Nat /\ p.used \in Nat /\ p.log \in Logs
      /\ p.desc \in 0 .. MaxSeq /\ p.ckpt \in CheckpointLogs
  BY <1>2 DEF Storages, Setup
<1>4. /\ \A x \in Seqs : q.log[x] = IF x <= s THEN Empty ELSE p.log[x]
      /\ p.log = NoLog => q.log = NoLog
  <2>1. q.log = Cleared(p.log, s)
    BY DEF Stabilised
  <2> QED BY <1>2, <1>3, <2>1, ClearedLog
<1>5. ViewsConsistent(q)
  BY DEF StorageFits, Stabilised, ViewsConsistent, HasExit, HasNew
<1>6. NumbersFit(q)
  <2>1. /\ p.used <= p.stable + W /\ p.exec <= p.stable + W /\ p.lower < p.stable + W
        /\ p.fully <= LastView(p) /\ (HasNew(p) => p.new.max <= p.stable + W)
        /\ p.stable <= p.used
    BY DEF StorageFits, NumbersFit, NumbersConsistent
  <2>2. q.used <= s + W /\ q.lower < s + W /\ s <= q.used /\ s <= p.exec /\ p.exec <= s + W
    BY <1>2, <1>3, <2>1 DEF Stabilised
  <2>3. HasNew(p) => p.new.max <= s + W
    BY <1>2, <1>3, <2>1 DEF Storages
  <2> QED BY <1>1, <2>1, <2>2, <2>3 DEF NumbersFit, NumbersConsistent, Stabilised
<1>7. CheckpointsFit(q)
  <2>1. \A c \in Ckpts : q.ckpt[c] = IF c < s THEN "no" ELSE IF c = s THEN "stable" ELSE p.ckpt[c]
    BY DEF Stabilised, KeptCkpts
  <2>2. s <= (p.exec \div C) * C
    BY <1>2, <1>3, LastCheckpointBounds DEF Setup
  <2>3. ASSUME NEW c \in Ckpts
        PROVE  /\ q.ckpt[c] # "no" => 0 < c /\ s <= c /\ c <= p.exec
               /\ 0 < c /\ c = (p.exec \div C) * C => q.ckpt[c] # "no"
    <3>1. c \in Nat
      BY DEF Ckpts, Setup
    <3>2. /\ p.ckpt[c] # "no" => c <= p.exec
          /\ 0 < c /\ c = (p.exec \div C) * C => p.ckpt[c] # "no"
      BY DEF StorageFits, CheckpointsFit
    <3>3. CASE c < s
      BY <1>2, <2>1, <2>2, <3>1, <3>3
    <3>4. CASE c = s
      BY <1>2, <1>3, <2>1, <3>1, <3>4
    <3>5. CASE c > s
      BY <1>2, <1>3, <2>1, <3>1, <3>2, <3>5
    <3> QED BY <1>2, <3>1, <3>3, <3>4, <3>5
  <2>4. q.stable = s /\ q.exec = p.exec
    BY DEF Stabilised
  <2>5. q.ckpt[s] = "stable"
    BY <1>2, <2>1
  <2> QED BY <1>2, <2>3, <2>4, <2>5 DEF CheckpointsFit
<1>8. ExecutionConsistent(q)
  <2> SUFFICES ASSUME q.desc > q.exec PROVE ExecutionConsistent(q)
    BY DEF ExecutionConsistent
  <2>1. /\ p.desc = p.exec + 1 /\ IsInView(p) /\ p.desc <= p.stable + W
        /\ p.log[p.desc].d \notin {None, Null}
    BY DEF StorageFits, ExecutionConsistent, Stabilised, InWindow
  <2>2. p.desc \in Seqs /\ p.desc > s /\ p.desc <= s + W
    BY <1>2, <1>3, <2>1 DEF Seqs
  <2>3. q.log[p.desc] = p.log[p.desc]
    BY <1>2, <1>4, <2>2 DEF Seqs
  <2> QED BY <1>1, <2>1, <2>2, <2>3 DEF ExecutionConsistent, InWindow, Stabilised
<1>9. LogFits(q)
  <2>1. ASSUME IsInView(p), LastView(p) \in Mine, NEW x \in Seqs, x > q.used PROVE q.log[x].d = None
    <3>1. x > p.used
      BY <1>2, <1>3, <2>1 DEF Stabilised, Seqs
    <3>2. p.log[x].d = None
      BY <2>1, <3>1 DEF StorageFits, LogFits
    <3> QED BY <1>4, <3>2, EmptyLog
  <2> QED BY <1>1, <1>4, <2>1 DEF LogFits, StorageFits
<1> QED BY <1>2, <1>5, <1>6, <1>7, <1>8, <1>9 DEF StorageFits

(* ... and backs what was sent. *)
LEMMA StabilisedBacks ==
    ASSUME Setup, NEW p, NEW q, NEW s, StorageFits(p), Stabilised(p, s, q),
           NEW a, MessageBacked(a, p), a.seq \in Seqs
    PROVE  MessageBacked(a, q)
<1>1. LastView(q) = LastView(p) /\ IsInView(q) = IsInView(p) /\ HasNew(q) = HasNew(p)
  BY StabilisedView
<1>2. p \in Storages /\ s \in Nat /\ s > p.stable /\ q.stable = s /\ q.exit = p.exit
  BY DEF StorageFits, Stabilised, Ckpts, Setup
<1>3. p.stable \in Nat /\ a.seq \in Nat /\ p.log \in Logs
  BY <1>2 DEF Storages, Seqs, Setup
<1>4. ASSUME a.seq > s PROVE q.log[a.seq] = p.log[a.seq]
  <2>1. q.log = Cleared(p.log, s)
    BY DEF Stabilised
  <2> QED BY <1>2, <1>3, <1>4, <2>1, ClearedLog
<1>5. a.seq > s => a.seq > p.stable
  BY <1>2, <1>3
<1> QED BY <1>1, <1>2, <1>4, <1>5 DEF MessageBacked, RecordOf

(* onSeqNumIsStable on the memory and on the storage *)
LEMMA StableBoth ==
    ASSUME Setup, NEW m \in Memories, NEW p, NEW s \in Ckpts, NEW n, NEW q,
           StorageFits(p), Mirrors(m, p), s > p.stable, p.ckpt[s] # "no",
           n = StableMem(m, s, TRUE), q = StableWrites(p, m, s, TRUE)
    PROVE  Stabilised(p, s, q) /\ Mirrors(n, q) /\ n \in Memories /\ n.run = m.run
<1>1. /\ p \in Storages /\ s \in 0 .. MaxSeq /\ s \in Nat /\ s <= p.exec
  BY DEF StorageFits, CheckpointsFit, Ckpts, Setup
<1>2. /\ m.lower = p.lower /\ m.used = p.used /\ m.exec = p.exec /\ m.log = p.log /\ m.ckpt = p.ckpt
      /\ p.lower \in Nat /\ p.used \in Nat /\ p.exec \in Nat /\ p.log \in Logs
      /\ p.ckpt \in CheckpointLogs /\ p.exec \in 0 .. MaxSeq
  BY <1>1 DEF Mirrors, Storages, Setup
<1> DEFINE lower == IF s > p.lower THEN s ELSE p.lower
           used == IF s > p.used THEN s ELSE p.used
           log == Cleared(p.log, s)
           ckpt == KeptCkpts(p.ckpt, s, TRUE)
<1>3. lower \in Nat /\ used \in Nat
  BY <1>1, <1>2
<1>4. log \in Logs
  BY <1>1, <1>2, ClearedLog
<1>5. ckpt \in CheckpointLogs
  BY <1>2 DEF KeptCkpts, CheckpointLogs
<1>6. ~(s > p.exec)
  BY <1>1, <1>2
<1> HIDE DEF lower, used, log, ckpt
<1>7. q = [p EXCEPT !.stable = s, !.lower = lower, !.used = used, !.exec = p.exec, !.log = log, !.ckpt = ckpt]
  BY <1>1, <1>2, <1>6 DEF StableWrites, Storages, lower, used, log, ckpt
<1>8. n = [m EXCEPT !.stable = s, !.lower = lower, !.used = used, !.exec = p.exec, !.log = log, !.ckpt = ckpt]
  BY <1>1, <1>2, <1>6 DEF StableMem, Memories, lower, used, log, ckpt
<1>9. q \in Storages
  BY ONLY <1>1, <1>2, <1>3, <1>4, <1>5, <1>7 DEF Storages
<1>10. n \in Memories
  BY <1>1, <1>2, <1>3, <1>4, <1>5, <1>8 DEF Memories
<1>11. /\ q.stable = s /\ q.lower = lower /\ q.used = used /\ q.exec = p.exec /\ q.log = log
       /\ q.ckpt = ckpt /\ q.fully = p.fully /\ q.exit = p.exit /\ q.new = p.new /\ q.desc = p.desc
  BY <1>1, <1>7 DEF Storages
<1>12. /\ n.stable = s /\ n.lower = lower /\ n.used = used /\ n.exec = p.exec /\ n.log = log
       /\ n.ckpt = ckpt /\ n.fully = m.fully /\ n.max = m.max /\ n.active = m.active
       /\ n.view = m.view /\ n.run = m.run
  BY <1>8 DEF Memories
<1>13. Stabilised(p, s, q)
  BY <1>1, <1>9, <1>11 DEF Stabilised, lower, used, log, ckpt
<1>14. LastView(q) = LastView(p) /\ IsInView(q) = IsInView(p) /\ HasNew(q) = HasNew(p)
  BY <1>13, StabilisedView
<1>15. Mirrors(n, q)
  BY <1>11, <1>12, <1>14 DEF Mirrors
<1> QED BY <1>10, <1>12, <1>13, <1>15

(* A step that sends nothing and leaves no transaction open *)
LEMMA QuietStep ==
    ASSUME RInv, Ready, StorageFits(disk'), mem' \in Memories, chain' \in Seq(Nat),
           Mirrors(mem', disk'), Running(mem', disk'), LastView(disk') = LastView(disk),
           \A a \in sent : MessageBacked(a, disk'),
           UNCHANGED <<tran, up, sent, newViews, transfers>>
    PROVE  RInv'
<1>1. Types'
  BY DEF RInv, Types
<1>2. Backed(disk)'
  BY DEF RInv, Backed
<1>3. NoEquivocation'
  BY DEF RInv, NoEquivocation
<1>4. tran' = NoTran /\ up'
  BY DEF Ready
<1> QED BY <1>1, <1>2, <1>3, <1>4 DEF RInv

(* What holds when the replica is up and no transaction is open *)
LEMMA ReadyState ==
    ASSUME Setup, RInv, Ready
    PROVE  /\ StorageFits(disk) /\ Types /\ Mirrors(mem, disk) /\ Running(mem, disk) /\ Backed(disk)
           /\ mem \in Memories /\ disk \in Storages /\ chain \in Seq(Nat)
           /\ \A a \in sent : MessageBacked(a, disk) /\ a.seq \in Seqs
BY DEF RInv, Ready, Types, StorageFits, Backed

(* A checkpoint becomes stable *)
LEMMA CheckpointStableStep ==
    ASSUME Setup, RInv, NEW s \in Ckpts, CheckpointStable(s)
    PROVE  RInv'
<1>1. /\ Ready /\ mem.run = "idle" /\ s > mem.stable /\ mem.ckpt[s] # "no"
      /\ mem' = StableMem(mem, s, TRUE) /\ disk' = StableWrites(disk, mem, s, TRUE)
      /\ UNCHANGED <<tran, up, sent, newViews, chain, transfers>>
  BY DEF CheckpointStable, Idle
<1>2. /\ StorageFits(disk) /\ Mirrors(mem, disk) /\ Running(mem, disk)
      /\ mem \in Memories /\ disk \in Storages /\ chain \in Seq(Nat)
      /\ \A a \in sent : MessageBacked(a, disk) /\ a.seq \in Seqs
  BY <1>1, ReadyState
<1>3. s > disk.stable /\ disk.ckpt[s] # "no"
  BY <1>1, <1>2 DEF Mirrors
<1>4. Stabilised(disk, s, disk') /\ Mirrors(mem', disk') /\ mem' \in Memories /\ mem'.run = mem.run
  BY <1>1, <1>2, <1>3, StableBoth
<1>5. StorageFits(disk')
  BY <1>2, <1>4, StabilisedFits
<1>6. LastView(disk') = LastView(disk)
  BY <1>4, StabilisedView
<1>7. \A a \in sent : MessageBacked(a, disk')
  BY <1>2, <1>4, StabilisedBacks
<1>8. Running(mem', disk')
  BY <1>1, <1>2, <1>4 DEF Running, Stabilised
<1> QED BY <1>1, <1>2, <1>4, <1>5, <1>6, <1>7, <1>8, QuietStep

-----------------------------------------------------------------------------
(* Execution *)

(* Phase 1 *)
LEMMA ExecStartStep ==
    ASSUME Setup, RInv, ExecStart
    PROVE  RInv'
<1> DEFINE s == mem.exec + 1
           null == mem.log[s].d = Null
<1>1. /\ Ready /\ mem.run = "idle" /\ mem.active /\ InWindow(mem, s) /\ s <= MaxSeq /\ mem.log[s].d # None
      /\ mem' = [mem EXCEPT !.run = "exec", !.added = IF null THEN Batch ELSE 0]
      /\ disk' = IF null THEN disk ELSE [disk EXCEPT !.desc = s]
      /\ UNCHANGED <<tran, up, sent, newViews, chain, transfers>>
  BY DEF ExecStart, Idle
<1>2. /\ StorageFits(disk) /\ Mirrors(mem, disk) /\ Running(mem, disk)
      /\ mem \in Memories /\ disk \in Storages /\ chain \in Seq(Nat)
      /\ \A a \in sent : MessageBacked(a, disk) /\ a.seq \in Seqs
  BY <1>1, ReadyState
<1>3. /\ s \in Seqs /\ s \in 0 .. MaxSeq /\ s \in Nat /\ mem.exec = disk.exec /\ s = disk.exec + 1
      /\ mem.stable = disk.stable /\ mem.log = disk.log
  BY <1>1, <1>2 DEF Memories, Seqs, Mirrors, Setup
<1>4. /\ mem' \in Memories /\ mem'.run = "exec" /\ mem'.view = mem.view /\ mem'.active = mem.active
      /\ mem'.stable = mem.stable /\ mem'.exec = mem.exec /\ mem'.used = mem.used
      /\ mem'.lower = mem.lower /\ mem'.max = mem.max /\ mem'.fully = mem.fully
      /\ mem'.log = mem.log /\ mem'.ckpt = mem.ckpt
  BY <1>1, <1>2 DEF Memories, Setup
<1>5. /\ disk' \in Storages /\ disk'.desc = (IF null THEN disk.desc ELSE s)
      /\ disk'.stable = disk.stable /\ disk'.exec = disk.exec /\ disk'.used = disk.used
      /\ disk'.lower = disk.lower /\ disk'.fully = disk.fully /\ disk'.log = disk.log
      /\ disk'.ckpt = disk.ckpt /\ disk'.exit = disk.exit /\ disk'.new = disk.new
  BY <1>1, <1>2, <1>3 DEF Storages
<1> HIDE DEF s, null
<1>6. /\ LastView(disk') = LastView(disk) /\ IsInView(disk') = IsInView(disk)
      /\ HasNew(disk') = HasNew(disk) /\ HasExit(disk') = HasExit(disk)
  BY <1>5 DEF LastView, IsInView, HasExit, HasNew
<1>7. Mirrors(mem', disk')
  BY <1>2, <1>4, <1>5, <1>6 DEF Mirrors
<1>8. Running(mem', disk')
  BY <1>1, <1>3, <1>4 DEF Running, InWindow, s
<1>9. StorageFits(disk')
  <2>1. ViewsConsistent(disk') /\ NumbersFit(disk') /\ CheckpointsFit(disk') /\ LogFits(disk')
    BY <1>2, <1>5, <1>6 DEF StorageFits, ViewsConsistent, NumbersFit, NumbersConsistent,
       CheckpointsFit, LogFits
  <2>2. CASE null
    BY <1>1, <1>2, <2>2
  <2>3. CASE ~null
    <3>1. IsInView(disk') /\ InWindow(disk', s) /\ disk'.log[s].d \notin {None, Null}
      BY <1>1, <1>2, <1>3, <1>5, <1>6, <2>3 DEF Mirrors, InWindow, null
    <3>2. ExecutionConsistent(disk')
      BY <1>3, <1>5, <2>3, <3>1 DEF ExecutionConsistent
    <3> QED BY <1>5, <2>1, <3>2 DEF StorageFits
  <2> QED BY <2>2, <2>3
<1>10. \A a \in sent : MessageBacked(a, disk')
  BY <1>2, <1>5, <1>6 DEF MessageBacked, RecordOf
<1> QED BY <1>1, <1>2, <1>4, <1>6, <1>7, <1>8, <1>9, <1>10, QuietStep

(* Phase 2 *)
LEMMA ExecBlockStep ==
    ASSUME Setup, RInv, ExecBlock
    PROVE  RInv'
<1>1. /\ Ready /\ chain' = Append(chain, mem.exec + 1) /\ mem' = [mem EXCEPT !.added = @ + 1]
      /\ UNCHANGED <<disk, tran, up, sent, newViews, transfers>>
  BY DEF ExecBlock
<1>2. /\ StorageFits(disk) /\ Mirrors(mem, disk) /\ Running(mem, disk)
      /\ mem \in Memories /\ disk \in Storages /\ chain \in Seq(Nat)
      /\ \A a \in sent : MessageBacked(a, disk)
  BY <1>1, ReadyState
<1>3. /\ mem' \in Memories /\ mem'.run = mem.run /\ mem'.view = mem.view /\ mem'.active = mem.active
      /\ mem'.stable = mem.stable /\ mem'.exec = mem.exec /\ mem'.used = mem.used
      /\ mem'.lower = mem.lower /\ mem'.max = mem.max /\ mem'.fully = mem.fully
      /\ mem'.log = mem.log /\ mem'.ckpt = mem.ckpt
  BY <1>1, <1>2 DEF Memories
<1>4. mem.exec + 1 \in Nat
  BY <1>2 DEF Memories, Setup
<1>5. chain' \in Seq(Nat)
  BY <1>1, <1>2, <1>4
<1>6. Mirrors(mem', disk') /\ Running(mem', disk')
  BY <1>1, <1>2, <1>3 DEF Mirrors, Running, InWindow
<1> QED BY <1>1, <1>2, <1>3, <1>5, <1>6, QuietStep

(* The storage q is p after the execution of the slot s. *)
Executes(p, s, q) ==
    /\ q \in Storages /\ s \in Seqs /\ s = p.exec + 1 /\ s <= p.stable + W
    /\ q.exec = s /\ q.fully <= LastView(p)
    /\ q.ckpt = (IF s % C = 0 THEN [p.ckpt EXCEPT ![s] = "own"] ELSE p.ckpt)
    /\ q.stable = p.stable /\ q.used = p.used /\ q.lower = p.lower /\ q.log = p.log
    /\ q.exit = p.exit /\ q.new = p.new /\ q.desc = p.desc

(* It keeps the view, ... *)
LEMMA ExecutesView ==
    ASSUME NEW p, NEW q, NEW s, Executes(p, s, q)
    PROVE  /\ LastView(q) = LastView(p) /\ IsInView(q) = IsInView(p)
           /\ HasNew(q) = HasNew(p) /\ HasExit(q) = HasExit(p)
BY DEF Executes, LastView, IsInView, HasExit, HasNew

(* ... can be loaded, ... *)
LEMMA ExecutesFits ==
    ASSUME Setup, NEW p, NEW q, NEW s, StorageFits(p), Executes(p, s, q)
    PROVE  StorageFits(q) /\ q.desc <= q.exec
<1>1. /\ LastView(q) = LastView(p) /\ IsInView(q) = IsInView(p)
      /\ HasNew(q) = HasNew(p) /\ HasExit(q) = HasExit(p)
  BY ExecutesView
<1>2. /\ p \in Storages /\ q \in Storages /\ s \in Seqs /\ s = p.exec + 1 /\ s <= p.stable + W
      /\ q.exec = s
  BY DEF StorageFits, Executes
<1>3. /\ p.stable \in Nat /\ p.exec \in Nat /\ s \in Nat /\ p.ckpt \in CheckpointLogs
      /\ p.desc \in Nat /\ 0 < s
  BY <1>2 DEF Storages, Setup, Seqs
<1>4. ViewsConsistent(q)
  BY <1>1 DEF StorageFits, Executes, ViewsConsistent
<1>5. p.stable <= p.exec
  BY DEF StorageFits, NumbersFit, NumbersConsistent
<1>6. NumbersFit(q)
  BY <1>1, <1>2, <1>3, <1>5 DEF StorageFits, NumbersFit, NumbersConsistent, Executes
<1>7. q.desc <= q.exec
  <2>1. p.desc > p.exec => p.desc = p.exec + 1
    BY DEF StorageFits, ExecutionConsistent
  <2> QED BY <1>2, <1>3, <2>1 DEF Executes
<1>8. ExecutionConsistent(q)
  BY <1>2, <1>3, <1>7 DEF ExecutionConsistent, Executes
<1>9. LogFits(q)
  BY <1>1 DEF StorageFits, LogFits, Executes
<1>10. CheckpointsFit(q)
  <2>1. /\ p.stable \in Ckpts /\ q.stable = p.stable /\ p.stable < s
        /\ p.stable > 0 => p.ckpt[p.stable] = "stable"
    BY <1>2, <1>3, <1>5 DEF StorageFits, CheckpointsFit, Executes
  <2>2. \A c \in Ckpts :
          /\ p.ckpt[c] # "no" => 0 < c /\ p.stable <= c /\ c <= p.exec
          /\ 0 < c /\ c = (p.exec \div C) * C => p.ckpt[c] # "no"
    BY DEF StorageFits, CheckpointsFit
  <2>3. CASE s % C = 0
    <3>1. s \in Ckpts
      BY <1>2, <2>3 DEF Ckpts, Seqs, Setup
    <3>2. \A c \in Ckpts : q.ckpt[c] = IF c = s THEN "own" ELSE p.ckpt[c]
      BY <1>3, <2>3, <3>1 DEF Executes, CheckpointLogs
    <3>3. (s \div C) * C = s
      BY <1>2, <1>3, <2>3, LastCheckpointMoves DEF Setup
    <3>4. ASSUME NEW c \in Ckpts
          PROVE  /\ q.ckpt[c] # "no" => 0 < c /\ p.stable <= c /\ c <= s
                 /\ 0 < c /\ c = (s \div C) * C => q.ckpt[c] # "no"
      <4>1. c \in Nat
        BY DEF Ckpts, Setup
      <4>2. CASE c = s
        BY <1>3, <2>1, <3>2, <4>2
      <4>3. CASE c # s
        BY <1>2, <1>3, <2>2, <3>2, <3>3, <4>1, <4>3
      <4> QED BY <4>2, <4>3
    <3>5. p.stable > 0 => q.ckpt[p.stable] = "stable"
      BY <1>3, <2>1, <3>2
    <3> QED BY <1>2, <2>1, <3>4, <3>5 DEF CheckpointsFit
  <2>4. CASE s % C # 0
    <3>1. (s \div C) * C = (p.exec \div C) * C
      BY <1>2, <1>3, <2>4, LastCheckpointMoves DEF Setup
    <3>2. q.ckpt = p.ckpt
      BY <2>4 DEF Executes
    <3>3. ASSUME NEW c \in Ckpts
          PROVE  /\ p.ckpt[c] # "no" => 0 < c /\ p.stable <= c /\ c <= s
                 /\ 0 < c /\ c = (s \div C) * C => p.ckpt[c] # "no"
      <4>1. c \in Nat
        BY DEF Ckpts, Setup
      <4> QED BY <1>2, <1>3, <2>2, <3>1, <4>1
    <3> QED BY <1>2, <2>1, <3>2, <3>3 DEF CheckpointsFit
  <2> QED BY <2>3, <2>4
<1> QED BY <1>2, <1>4, <1>6, <1>7, <1>8, <1>9, <1>10 DEF StorageFits

(* ... and backs what was sent. *)
LEMMA ExecutesBacks ==
    ASSUME NEW p, NEW q, NEW s, Executes(p, s, q), NEW a, MessageBacked(a, p)
    PROVE  MessageBacked(a, q)
<1>1. /\ LastView(q) = LastView(p) /\ IsInView(q) = IsInView(p)
  BY ExecutesView
<1>2. q.stable = p.stable /\ q.log = p.log /\ q.exit = p.exit
  BY DEF Executes
<1> QED BY <1>1, <1>2 DEF MessageBacked, RecordOf

(* The number of blocks is of no concern here. *)
LEMMA BlocksOnly ==
    ASSUME NEW p, NEW b \in Nat, NEW q, StorageFits(p), q = [p EXCEPT !.blocks = b]
    PROVE  /\ StorageFits(q) /\ q.desc = p.desc /\ q.exec = p.exec /\ LastView(q) = LastView(p)
           /\ q.stable \in 0 .. MaxSeq
           /\ \A m : Mirrors(m, p) => Mirrors(m, q)
           /\ \A a : MessageBacked(a, p) => MessageBacked(a, q)
<1>1. p \in Storages
  BY DEF StorageFits
<1>2. /\ q \in Storages /\ q.desc = p.desc /\ q.exec = p.exec /\ q.stable = p.stable /\ q.used = p.used
      /\ q.lower = p.lower /\ q.fully = p.fully /\ q.log = p.log /\ q.ckpt = p.ckpt
      /\ q.exit = p.exit /\ q.new = p.new
  BY <1>1 DEF Storages
<1>3. q.stable \in 0 .. MaxSeq
  BY <1>2 DEF Storages
<1>4. /\ LastView(q) = LastView(p) /\ IsInView(q) = IsInView(p)
      /\ HasNew(q) = HasNew(p) /\ HasExit(q) = HasExit(p)
  BY <1>2 DEF LastView, IsInView, HasExit, HasNew
<1>5. StorageFits(q)
  BY <1>2, <1>4 DEF StorageFits, ViewsConsistent, NumbersFit, NumbersConsistent,
     CheckpointsFit, LogFits, ExecutionConsistent, InWindow
<1>6. \A m : Mirrors(m, p) => Mirrors(m, q)
  BY <1>2, <1>4 DEF Mirrors
<1>7. \A a : MessageBacked(a, p) => MessageBacked(a, q)
  BY <1>2, <1>4 DEF MessageBacked, RecordOf
<1> QED BY <1>2, <1>3, <1>4, <1>5, <1>6, <1>7

(* Phase 3, which leaves its transaction open *)
LEMMA ExecFinishStep ==
    ASSUME Setup, InScope, RInv, NEW cert \in BOOLEAN, NEW d \in Digests \cup {None},
           NEW path \in Paths, ExecFinish(cert, d, path)
    PROVE  RInv'
<1> DEFINE s == mem.exec + 1
           at == s % C = 0
           full == IF mem.fully < mem.view /\ s >= mem.max THEN mem.view ELSE mem.fully
           k == IF at THEN [mem.ckpt EXCEPT ![s] = "own"] ELSE mem.ckpt
           m1 == [mem EXCEPT !.exec = s, !.run = "finish", !.fully = full, !.ckpt = k]
           p1 == [disk EXCEPT !.exec = s, !.fully = full, !.ckpt = k]
           m2 == IF cert THEN StableMem(m1, s, TRUE) ELSE m1
           p2 == IF cert THEN StableWrites(p1, m1, s, TRUE) ELSE p1
           b == IF mem.log[s].d = Null THEN p2.blocks ELSE Len(chain)
<1>1. /\ Ready /\ mem.run = "exec" /\ d = None
  BY DEF ExecFinish, InScope
<1>2. /\ StorageFits(disk) /\ Mirrors(mem, disk) /\ Running(mem, disk) /\ Types
      /\ mem \in Memories /\ disk \in Storages /\ chain \in Seq(Nat)
      /\ \A a \in sent : MessageBacked(a, disk) /\ a.seq \in Seqs
  BY <1>1, ReadyState
<1>3. /\ s \in Seqs /\ InWindow(mem, s) /\ mem.active /\ mem.active = TRUE
  BY <1>1, <1>2 DEF Running, Memories
<1>4. /\ mem.exec = disk.exec /\ mem.stable = disk.stable /\ mem.ckpt = disk.ckpt
      /\ mem.fully = disk.fully /\ mem.view = LastView(disk) /\ IsInView(disk)
  BY <1>2, <1>3 DEF Mirrors
<1>5. /\ s \in Nat /\ s \in 0 .. MaxSeq /\ mem.view \in Nat /\ mem.fully \in Nat /\ mem.max \in Nat
      /\ mem.ckpt \in CheckpointLogs
  <2>1. mem.view \in Nat /\ mem.fully \in Nat /\ mem.max \in Nat /\ mem.ckpt \in CheckpointLogs
    BY <1>2 DEF Memories
  <2> HIDE DEF s
  <2>2. s \in Nat /\ s \in 0 .. MaxSeq
    BY <1>3 DEF Seqs, Setup
  <2> QED BY <2>1, <2>2
<1>6. /\ mem' = m2 /\ tran' = [p2 EXCEPT !.blocks = b] /\ sent' = sent
      /\ cert => at /\ s > mem.stable
      /\ UNCHANGED <<disk, up, newViews, chain, crashes, transfers>>
  <2>1. m1.fully = full /\ p1.fully = full
    BY <1>2 DEF Memories, Storages
  <2>2. m1 = [mem EXCEPT !.exec = s, !.run = "finish",
               !.fully = IF @ < mem.view /\ s >= mem.max THEN mem.view ELSE @,
               !.ckpt = IF at THEN [@ EXCEPT ![s] = "own"] ELSE @]
    BY <1>2 DEF Memories
  <2>3. p1 = [disk EXCEPT !.exec = s, !.fully = m1.fully,
               !.ckpt = IF at THEN [@ EXCEPT ![s] = "own"] ELSE @]
    BY <1>2, <1>4, <2>1 DEF Storages
  <2> HIDE DEF m1, p1
  <2> QED BY <1>1, <2>2, <2>3 DEF ExecFinish
<1>7. k \in CheckpointLogs
  BY <1>3, <1>5 DEF CheckpointLogs
<1>8. full \in Nat /\ full <= mem.view
  <2>1. mem.fully <= mem.view
    BY <1>2, <1>4 DEF StorageFits, NumbersFit, NumbersConsistent
  <2> QED BY <1>5, <2>1
<1>9. m1 \in Memories /\ p1 \in Storages
  <2> HIDE DEF s, full, k
  <2>1. m1 \in Memories
    BY <1>2, <1>5, <1>7, <1>8 DEF Memories
  <2>2. p1 \in Storages
    BY <1>2, <1>5, <1>7, <1>8 DEF Storages
  <2> QED BY <2>1, <2>2
<1>10. /\ m1.exec = s /\ m1.run = "finish" /\ m1.fully = full /\ m1.ckpt = k /\ m1.view = mem.view
       /\ m1.active = mem.active /\ m1.stable = mem.stable /\ m1.used = mem.used
       /\ m1.lower = mem.lower /\ m1.max = mem.max /\ m1.log = mem.log
  <2> HIDE DEF s, full, k
  <2> QED BY <1>2 DEF Memories
<1>11. /\ p1.exec = s /\ p1.fully = full /\ p1.ckpt = k /\ p1.stable = disk.stable
       /\ p1.used = disk.used /\ p1.lower = disk.lower /\ p1.log = disk.log /\ p1.exit = disk.exit
       /\ p1.new = disk.new /\ p1.desc = disk.desc /\ p1.blocks = disk.blocks
  <2> HIDE DEF s, full, k
  <2> QED BY <1>2 DEF Storages
<1> HIDE DEF m1, p1, full
<1>12. Executes(disk, s, p1)
  BY <1>3, <1>4, <1>8, <1>9, <1>11 DEF Executes, InWindow
<1>13. /\ StorageFits(p1) /\ p1.desc <= p1.exec
  BY <1>2, <1>12, ExecutesFits
<1>14. /\ LastView(p1) = LastView(disk) /\ IsInView(p1) = IsInView(disk)
       /\ HasNew(p1) = HasNew(disk)
  BY <1>12, ExecutesView
<1>15. Mirrors(m1, p1)
  BY <1>2, <1>10, <1>11, <1>14 DEF Mirrors
<1>16. \A a \in sent : MessageBacked(a, p1)
  BY <1>2, <1>12, ExecutesBacks
<1>17. /\ StorageFits(p2) /\ p2.desc <= p2.exec /\ LastView(p2) = LastView(disk)
       /\ Mirrors(m2, p2) /\ m2 \in Memories /\ m2.run = "finish"
       /\ \A a \in sent : MessageBacked(a, p2)
  <2>1. CASE ~cert
    BY <1>9, <1>10, <1>13, <1>14, <1>15, <1>16, <2>1
  <2>2. CASE cert
    <3>1. s \in Ckpts /\ s > p1.stable /\ p1.ckpt[s] # "no"
      <4>1. at /\ s > mem.stable
        BY <1>6, <2>2
      <4>2. s \in Ckpts
        BY <1>5, <4>1 DEF Ckpts
      <4>3. k[s] = "own"
        BY <1>5, <4>1, <4>2 DEF CheckpointLogs
      <4> QED BY <1>4, <1>11, <4>1, <4>2, <4>3
    <3>2. p2 = StableWrites(p1, m1, s, TRUE) /\ m2 = StableMem(m1, s, TRUE)
      BY <2>2
    <3> HIDE DEF p2, m2, s
    <3>3. Stabilised(p1, s, p2) /\ Mirrors(m2, p2) /\ m2 \in Memories /\ m2.run = m1.run
      BY <1>9, <1>13, <1>15, <3>1, <3>2, StableBoth
    <3>4. StorageFits(p2)
      BY <1>13, <3>3, StabilisedFits
    <3>5. LastView(p2) = LastView(p1)
      BY <3>3, StabilisedView
    <3>6. \A a \in sent : MessageBacked(a, p2)
      BY <1>2, <1>13, <1>16, <3>3, StabilisedBacks
    <3>7. p2.desc <= p2.exec
      BY <1>13, <3>3 DEF Stabilised
    <3> QED BY <1>10, <1>14, <3>3, <3>4, <3>5, <3>6, <3>7
  <2> QED BY <2>1, <2>2
<1>18. b \in Nat
  <2>1. p2.blocks \in Nat
    BY <1>17 DEF StorageFits, Storages
  <2>2. Len(chain) \in Nat
    BY <1>2, LenProperties
  <2> QED BY <2>1, <2>2
<1> HIDE DEF m2, p2, b, s
<1>19. /\ StorageFits(tran') /\ tran'.desc <= tran'.exec /\ LastView(tran') = LastView(disk)
       /\ Mirrors(mem', tran') /\ \A a \in sent : MessageBacked(a, tran')
       /\ tran'.stable \in 0 .. MaxSeq
  BY <1>6, <1>17, <1>18, BlocksOnly
<1>20. tran' # NoTran
  BY <1>19 DEF NoTran, Setup
<1>21. Backed(tran')
  <2>1. \A a \in newViews : a.view <= LastView(disk)
    BY DEF RInv, Backed
  <2> QED BY <1>19, <2>1 DEF Backed
<1>22. Backed(tran)' /\ Backed(disk)'
  BY <1>6, <1>19, <1>21 DEF Backed, RInv
<1>23. Types' /\ NoEquivocation'
  BY <1>2, <1>6, <1>17 DEF Types, NoEquivocation, RInv
<1>24. up' /\ StorageFits(disk') /\ mem'.run = "finish"
  BY <1>1, <1>2, <1>6, <1>17 DEF Ready
<1> QED BY <1>19, <1>20, <1>22, <1>23, <1>24 DEF RInv

(* The end of the transaction *)
LEMMA CommitTransaction ==
    ASSUME Setup, RInv, Commit
    PROVE  RInv'
<1>1. /\ up /\ tran # NoTran /\ disk' = tran /\ tran' = NoTran
      /\ mem' = [mem EXCEPT !.run = "idle", !.added = 0]
      /\ UNCHANGED <<up, sent, newViews, chain, crashes, transfers>>
  BY DEF Commit
<1>2. /\ StorageFits(tran) /\ Backed(tran) /\ tran.desc <= tran.exec /\ Mirrors(mem, tran)
      /\ Types /\ mem \in Memories /\ tran \in Storages /\ NoEquivocation
  BY <1>1 DEF RInv, Types, StorageFits
<1>3. /\ mem' \in Memories /\ mem'.run = "idle" /\ mem'.view = mem.view /\ mem'.active = mem.active
      /\ mem'.stable = mem.stable /\ mem'.exec = mem.exec /\ mem'.used = mem.used
      /\ mem'.lower = mem.lower /\ mem'.max = mem.max /\ mem'.fully = mem.fully
      /\ mem'.log = mem.log /\ mem'.ckpt = mem.ckpt
  BY <1>1, <1>2 DEF Memories
<1>4. tran.desc \in Nat /\ tran.exec \in Nat
  BY <1>2 DEF Storages, Setup
<1>5. Mirrors(mem', disk') /\ Running(mem', disk')
  BY <1>1, <1>2, <1>3, <1>4 DEF Mirrors, Running
<1>6. Types' /\ NoEquivocation' /\ Backed(disk)' /\ StorageFits(disk)'
  BY <1>1, <1>2, <1>3 DEF Types, NoEquivocation, Backed
<1> QED BY <1>1, <1>5, <1>6 DEF RInv

-----------------------------------------------------------------------------
(* View change *)

(* The views of a storage that can be loaded *)
LEMMA StoredViews ==
    ASSUME NEW p, p \in Storages, ViewsConsistent(p)
    PROVE  /\ LastView(p) \in Nat /\ p.exit.view \in Int /\ p.exit.view <= LastView(p)
           /\ p.new.view \in Int /\ HasNew(p) => HasExit(p)
           /\ ~HasExit(p) => IsInView(p)
<1>1. p.exit.view \in Int /\ p.new.view \in Int
  BY DEF Storages
<1> QED BY <1>1 DEF ViewsConsistent, LastView, HasExit, HasNew, IsInView

(* The slots of the window go to the descriptor of the exit. *)
LEMMA LeaveViewStep ==
    ASSUME Setup, RInv, LeaveView
    PROVE  RInv'
<1> DEFINE x == [view |-> mem.view, elems |-> Elements(mem)]
<1>1. /\ Ready /\ mem.run = "idle" /\ mem.active
      /\ mem' = [mem EXCEPT !.active = FALSE, !.view = @ + 1, !.log = NoLog]
      /\ disk' = [disk EXCEPT !.exit = x, !.log = NoLog]
      /\ UNCHANGED <<tran, up, sent, newViews, chain, transfers>>
  BY DEF LeaveView, Idle
<1>2. /\ StorageFits(disk) /\ Mirrors(mem, disk) /\ Running(mem, disk)
      /\ mem \in Memories /\ disk \in Storages /\ chain \in Seq(Nat)
      /\ \A a \in sent : MessageBacked(a, disk) /\ a.seq \in Seqs
  BY <1>1, ReadyState
<1>3. /\ IsInView(disk) /\ mem.view = LastView(disk) /\ mem.view \in Nat /\ mem.log = disk.log
      /\ mem.log \in Logs
  BY <1>1, <1>2 DEF Mirrors, Memories
<1>4. Elements(mem) = disk.log
  BY <1>3 DEF Elements, Logs, Slots
<1>5. x.view = mem.view /\ x.elems = disk.log /\ x \in [view : Int, elems : Logs]
  BY <1>3, <1>4
<1> HIDE DEF x
<1>6. /\ disk' \in Storages /\ disk'.exit = x /\ disk'.log = NoLog
      /\ disk'.stable = disk.stable /\ disk'.exec = disk.exec /\ disk'.used = disk.used
      /\ disk'.lower = disk.lower /\ disk'.fully = disk.fully /\ disk'.desc = disk.desc
      /\ disk'.ckpt = disk.ckpt /\ disk'.new = disk.new
  BY <1>1, <1>2, <1>5, EmptyLog DEF Storages
<1>7. /\ mem' \in Memories /\ mem'.run = mem.run /\ mem'.view = mem.view + 1 /\ mem'.active = FALSE
      /\ mem'.stable = mem.stable /\ mem'.exec = mem.exec /\ mem'.used = mem.used
      /\ mem'.lower = mem.lower /\ mem'.max = mem.max /\ mem'.fully = mem.fully
      /\ mem'.log = NoLog /\ mem'.ckpt = mem.ckpt
  <2>1. mem.view + 1 \in Nat
    BY <1>3
  <2> QED BY <1>1, <1>2, <2>1, EmptyLog DEF Memories
<1>8. ViewsConsistent(disk) /\ NumbersFit(disk) /\ CheckpointsFit(disk)
  BY <1>2 DEF StorageFits
<1>9. /\ LastView(disk') = LastView(disk) /\ IsInView(disk') = FALSE /\ HasNew(disk') = HasNew(disk)
      /\ ViewsConsistent(disk')
  <2>1. disk.new.view \in Int /\ disk.exit.view \in Int
    BY <1>2 DEF Storages
  <2> QED BY <1>3, <1>5, <1>6, <1>8, <2>1 DEF LastView, IsInView, HasNew, HasExit, ViewsConsistent
<1>10. Mirrors(mem', disk')
  <2>1. /\ mem'.stable = disk'.stable /\ mem'.exec = disk'.exec /\ mem'.used = disk'.used
        /\ mem'.lower = disk'.lower /\ mem'.fully = disk'.fully /\ mem'.log = disk'.log
        /\ mem'.ckpt = disk'.ckpt
    BY <1>2, <1>6, <1>7 DEF Mirrors
  <2>2. mem'.max = IF HasNew(disk') THEN disk'.new.max ELSE 0
    BY <1>2, <1>6, <1>7, <1>9 DEF Mirrors
  <2>3. mem'.active = FALSE /\ IsInView(disk') = FALSE /\ mem'.view > LastView(disk')
    BY <1>3, <1>7, <1>9
  <2> QED BY <2>1, <2>2, <2>3 DEF Mirrors
<1>11. disk'.desc <= disk'.exec /\ ~(disk'.desc > disk'.exec)
  <2>1. disk.desc \in Nat /\ disk.exec \in Nat
    BY <1>2 DEF Storages, Setup
  <2> QED BY <1>1, <1>2, <1>6, <2>1 DEF Running
<1>12. Running(mem', disk')
  BY <1>1, <1>7, <1>11 DEF Running
<1>13. StorageFits(disk')
  <2>1. NumbersFit(disk') /\ CheckpointsFit(disk')
    BY <1>6, <1>8, <1>9 DEF NumbersFit, NumbersConsistent, CheckpointsFit
  <2>2. ExecutionConsistent(disk') /\ LogFits(disk')
    BY <1>6, <1>9, <1>11 DEF ExecutionConsistent, LogFits
  <2> QED BY <1>6, <1>9, <2>1, <2>2 DEF StorageFits
<1>14. \A a \in sent : MessageBacked(a, disk')
  BY <1>2, <1>3, <1>5, <1>6, <1>9 DEF MessageBacked, RecordOf
<1> QED BY <1>1, <1>2, <1>7, <1>9, <1>10, <1>12, <1>13, <1>14, QuietStep

(* Nothing is stored when a view is skipped. *)
LEMMA SkipViewStep ==
    ASSUME Setup, RInv, SkipView
    PROVE  RInv'
<1>1. /\ Ready /\ mem.run = "idle" /\ ~mem.active /\ mem' = [mem EXCEPT !.view = @ + 1]
      /\ UNCHANGED <<disk, tran, up, sent, newViews, chain, transfers>>
  BY DEF SkipView, Idle
<1>2. /\ StorageFits(disk) /\ Mirrors(mem, disk) /\ Running(mem, disk)
      /\ mem \in Memories /\ disk \in Storages /\ chain \in Seq(Nat)
      /\ \A a \in sent : MessageBacked(a, disk)
  BY <1>1, ReadyState
<1>3. /\ mem' \in Memories /\ mem'.run = mem.run /\ mem'.view = mem.view + 1 /\ mem'.active = mem.active
      /\ mem'.stable = mem.stable /\ mem'.exec = mem.exec /\ mem'.used = mem.used
      /\ mem'.lower = mem.lower /\ mem'.max = mem.max /\ mem'.fully = mem.fully
      /\ mem'.log = mem.log /\ mem'.ckpt = mem.ckpt
  BY <1>1, <1>2 DEF Memories
<1>4. LastView(disk) \in Nat /\ mem.view \in Nat
  BY <1>2, StoredViews DEF StorageFits, Memories
<1>5. Mirrors(mem', disk')
  BY <1>1, <1>2, <1>3, <1>4 DEF Mirrors
<1>6. Running(mem', disk')
  BY <1>1, <1>2, <1>3 DEF Running
<1> QED BY <1>1, <1>2, <1>3, <1>5, <1>6, QuietStep

(* The PrePrepares lo .. hi that a new view starts with *)
Restricts(lo, hi, ds) ==
    lo \in Seqs /\ hi \in 0 .. MaxSeq /\ ds \in [lo .. hi -> Digests \cup {Null}]

(* The memory n is m in a view that starts with them. *)
IsEntered(m, lo, hi, n) ==
    /\ n \in Memories /\ n.log \in Logs
    /\ n.used = (IF lo > hi THEN m.stable ELSE hi) /\ n.max = n.used
    /\ n.lower = (IF lo > hi THEN m.stable ELSE lo - 1)
    /\ \A s \in Seqs : s \notin lo .. hi => n.log[s] = Empty
    /\ \A s \in Seqs : s \in lo .. hi => n.log[s].d # None
    /\ n.view = m.view /\ n.active = TRUE /\ n.stable = m.stable /\ n.exec = m.exec
    /\ n.fully = m.fully /\ n.ckpt = m.ckpt /\ n.run = m.run

(* The memory of an entered view *)
LEMMA EnteredLog ==
    ASSUME Setup, NEW lo, NEW hi, NEW ds, Restricts(lo, hi, ds),
           NEW m \in Memories, m.log = NoLog, NEW n, n = Entered(m, lo, hi, ds)
    PROVE  IsEntered(m, lo, hi, n)
<1> DEFINE top == IF lo > hi THEN m.stable ELSE hi
           low == IF lo > hi THEN m.stable ELSE lo - 1
           log == [s \in Seqs |-> IF s \in lo .. hi THEN Proposal(ds[s], "slow") ELSE m.log[s]]
<1>1. top \in Nat /\ low \in Nat
  <2>1. m.stable \in Nat
    BY DEF Memories, Setup
  <2> QED BY <2>1 DEF Seqs, Setup, Restricts
<1>2. \A s \in Seqs : m.log[s] = Empty
  BY DEF NoLog
<1>3. ASSUME NEW s \in Seqs, s \in lo .. hi
      PROVE  log[s] \in Slots /\ log[s].d # None
  <2>1. ds[s] \in Contents /\ ds[s] # None
    BY <1>3 DEF Contents, Setup, None, Null, Restricts
  <2>2. log[s] = Proposal(ds[s], "slow")
    BY <1>3
  <2> HIDE DEF log
  <2>3. Proposal(ds[s], "slow") \in Slots /\ Proposal(ds[s], "slow").d = ds[s]
    BY <2>1, ProposalIsSlot
  <2> QED BY <2>1, <2>2, <2>3
<1>4. ASSUME NEW s \in Seqs, s \notin lo .. hi PROVE log[s] = Empty
  BY <1>2, <1>4
<1>5. log \in Logs
  <2>1. \A s \in Seqs : log[s] \in Slots
    BY <1>3, <1>4, EmptyLog
  <2> QED BY <2>1 DEF Logs
<1>6. n = [m EXCEPT !.active = TRUE, !.used = top, !.max = top, !.lower = low, !.log = log]
  BY DEF Entered, Memories
<1> HIDE DEF top, low, log
<1>7. /\ n \in Memories /\ n.used = top /\ n.max = top /\ n.lower = low /\ n.log = log
      /\ n.view = m.view /\ n.active = TRUE /\ n.stable = m.stable /\ n.exec = m.exec
      /\ n.fully = m.fully /\ n.ckpt = m.ckpt /\ n.run = m.run
  BY <1>1, <1>5, <1>6 DEF Memories
<1>8. top = (IF lo > hi THEN m.stable ELSE hi) /\ low = (IF lo > hi THEN m.stable ELSE lo - 1)
  BY DEF top, low
<1> QED BY <1>3, <1>4, <1>5, <1>7, <1>8 DEF IsEntered

(* A view is entered: its number is above that of every view before. *)
LEMMA EnterViewStep ==
    ASSUME Setup, RInv, NEW lo \in Seqs, NEW hi \in 0 .. MaxSeq,
           NEW ds \in [lo .. hi -> Digests \cup {Null}], EnterView(lo, hi, ds)
    PROVE  RInv'
<1> DEFINE v == [view |-> mem'.view, max |-> mem'.max]
           msgs == {Msg("prepare", mem', s) : s \in {y \in Seqs : mem'.log[y].d # None}}
           nv == [view |-> mem'.view, log |-> mem'.log]
<1>1. /\ Ready /\ mem.run = "idle" /\ ~mem.active /\ lo > mem.stable /\ hi <= mem.stable + W
      /\ mem' = Entered(mem, lo, hi, ds) /\ disk' = EnterWrites(disk, mem')
      /\ sent' = sent \cup msgs /\ newViews' = newViews \cup {nv}
      /\ UNCHANGED <<tran, up, chain, crashes, transfers>>
  BY DEF EnterView, EnterSends, Idle
<1>2. /\ StorageFits(disk) /\ Mirrors(mem, disk) /\ Running(mem, disk) /\ Types
      /\ mem \in Memories /\ disk \in Storages /\ chain \in Seq(Nat) /\ Backed(disk)
  BY <1>1, ReadyState
<1>3. /\ ~IsInView(disk) /\ mem.view > LastView(disk) /\ mem.log = disk.log /\ disk.log = NoLog
      /\ mem.stable = disk.stable /\ disk.stable \in Nat /\ mem.view \in Nat
  <2>1. disk.log = NoLog /\ ~IsInView(disk)
    BY <1>1, <1>2 DEF Mirrors, StorageFits, LogFits
  <2>2. mem.view > LastView(disk) /\ mem.log = disk.log /\ mem.stable = disk.stable
    BY <1>1, <1>2 DEF Mirrors
  <2>3. disk.stable \in Nat /\ mem.view \in Nat
    BY <1>2 DEF Storages, Memories, Setup
  <2> QED BY <2>1, <2>2, <2>3
<1>4. /\ mem' \in Memories /\ mem'.log \in Logs
      /\ mem'.used = (IF lo > hi THEN mem.stable ELSE hi) /\ mem'.max = mem'.used
      /\ mem'.lower = (IF lo > hi THEN mem.stable ELSE lo - 1)
      /\ \A s \in Seqs : s \notin lo .. hi => mem'.log[s] = Empty
      /\ \A s \in Seqs : s \in lo .. hi => mem'.log[s].d # None
      /\ mem'.view = mem.view /\ mem'.active = TRUE /\ mem'.stable = mem.stable
      /\ mem'.exec = mem.exec /\ mem'.fully = mem.fully /\ mem'.ckpt = mem.ckpt /\ mem'.run = mem.run
  <2>1. mem.log = NoLog /\ Restricts(lo, hi, ds)
    BY <1>3 DEF Restricts
  <2>2. mem' = Entered(mem, lo, hi, ds) /\ mem \in Memories
    BY <1>1, <1>2
  <2>3. IsEntered(mem, lo, hi, mem')
    BY <2>1, <2>2, EnteredLog
  <2> QED BY <2>3 DEF IsEntered
<1>5. mem'.used \in Nat /\ mem'.max \in Nat /\ mem'.lower \in Nat /\ mem'.view \in Nat
  BY <1>4 DEF Memories
<1>6. [s \in Seqs |-> IF mem'.log[s].d # None THEN Stored(mem'.log[s]) ELSE disk.log[s]] = mem'.log
  <2>1. ASSUME NEW s \in Seqs
        PROVE  (IF mem'.log[s].d # None THEN Stored(mem'.log[s]) ELSE disk.log[s]) = mem'.log[s]
    <3>1. mem'.log[s] \in Slots
      BY <1>4 DEF Logs
    <3>2. Stored(mem'.log[s]) = mem'.log[s]
      BY <3>1, StoredIsSlot
    <3>3. mem'.log[s].d = None => mem'.log[s] = Empty
      BY <1>4
    <3>4. disk.log[s] = Empty
      BY <1>3 DEF NoLog
    <3> QED BY <3>2, <3>3, <3>4
  <2> QED BY <1>4, <2>1 DEF Logs
<1>7. v \in [view : Int, max : Nat] /\ v.view = mem'.view /\ v.max = mem'.max
  BY <1>5
<1> HIDE DEF v
<1>8. disk' = [disk EXCEPT !.new = v, !.used = mem'.used, !.lower = mem'.lower, !.log = mem'.log]
  BY <1>1, <1>2, <1>6 DEF EnterWrites, Storages, v
<1>9. /\ disk' \in Storages /\ disk'.new = v /\ disk'.used = mem'.used /\ disk'.lower = mem'.lower
      /\ disk'.log = mem'.log /\ disk'.stable = disk.stable /\ disk'.exec = disk.exec
      /\ disk'.fully = disk.fully /\ disk'.desc = disk.desc /\ disk'.ckpt = disk.ckpt
      /\ disk'.exit = disk.exit
  BY <1>2, <1>4, <1>5, <1>7, <1>8 DEF Storages
<1>10. /\ LastView(disk') = mem.view /\ IsInView(disk') = TRUE /\ HasNew(disk') = TRUE
       /\ ViewsConsistent(disk') /\ LastView(disk) \in Nat
  <2>1. /\ LastView(disk) \in Nat /\ disk.exit.view \in Int /\ disk.exit.view <= LastView(disk)
        /\ HasExit(disk)
    BY <1>2, <1>3, StoredViews DEF StorageFits
  <2>2. disk.exit.view >= 0 /\ disk.exit.view < mem.view
    BY <1>3, <2>1 DEF HasExit
  <2>3. disk'.exit.view = disk.exit.view /\ disk'.new.view = mem.view
    BY <1>4, <1>7, <1>9
  <2> QED BY <1>3, <2>1, <2>2, <2>3 DEF LastView, IsInView, HasNew, HasExit, ViewsConsistent
<1>11. Mirrors(mem', disk')
  <2>1. /\ mem'.stable = disk'.stable /\ mem'.exec = disk'.exec /\ mem'.used = disk'.used
        /\ mem'.lower = disk'.lower /\ mem'.fully = disk'.fully /\ mem'.log = disk'.log
        /\ mem'.ckpt = disk'.ckpt
    BY <1>2, <1>4, <1>9 DEF Mirrors
  <2>2. mem'.max = IF HasNew(disk') THEN disk'.new.max ELSE 0
    BY <1>7, <1>9, <1>10
  <2>3. mem'.active = TRUE /\ IsInView(disk') = TRUE /\ mem'.view = LastView(disk')
    BY <1>4, <1>10
  <2> QED BY <2>1, <2>2, <2>3 DEF Mirrors
<1>12. ~(disk'.desc > disk'.exec)
  BY <1>1, <1>2, <1>9 DEF Running
<1>13. Running(mem', disk')
  BY <1>1, <1>4, <1>12 DEF Running
<1>14. StorageFits(disk')
  <2>1. NumbersFit(disk')
    <3>1. /\ disk'.used <= disk.stable + W /\ disk.stable <= disk'.used
          /\ disk'.lower < disk.stable + W /\ mem'.max <= disk.stable + W
      BY <1>1, <1>3, <1>4, <1>9 DEF Seqs, Setup
    <3>2. disk.fully <= mem.view
      <4>1. disk.fully <= LastView(disk) /\ disk.fully \in Nat
        BY <1>2 DEF StorageFits, NumbersFit, NumbersConsistent, Storages
      <4> QED BY <1>3, <1>10, <4>1
    <3>3. disk.stable <= disk.exec /\ disk.exec <= disk.stable + W
      BY <1>2 DEF StorageFits, NumbersFit, NumbersConsistent
    <3> QED BY <1>7, <1>9, <1>10, <3>1, <3>2, <3>3 DEF NumbersFit, NumbersConsistent
  <2>2. CheckpointsFit(disk')
    BY <1>2, <1>9 DEF StorageFits, CheckpointsFit
  <2>3. ExecutionConsistent(disk')
    BY <1>12 DEF ExecutionConsistent
  <2>4. LogFits(disk')
    <3>1. ASSUME NEW s \in Seqs, s > disk'.used PROVE disk'.log[s].d = None
      <4>1. s \notin lo .. hi
        BY <1>4, <1>9, <3>1 DEF Seqs
      <4> QED BY <1>4, <1>9, <4>1, EmptyLog
    <3> QED BY <1>10, <3>1 DEF LogFits
  <2> QED BY <1>9, <1>10, <2>1, <2>2, <2>3, <2>4 DEF StorageFits
<1>15. \A a \in sent : a.view < mem.view /\ a.view \in Nat /\ MessageBacked(a, disk')
  <2> SUFFICES ASSUME NEW a \in sent PROVE a.view < mem.view /\ a.view \in Nat /\ MessageBacked(a, disk')
    OBVIOUS
  <2>1. a.view \in Nat /\ a.view <= LastView(disk)
    BY <1>2 DEF Types, Backed, MessageBacked
  <2> QED BY <1>3, <1>10, <2>1 DEF MessageBacked
<1>16. \A a \in newViews : a.view < mem.view /\ a.view \in Nat
  BY <1>2, <1>3, <1>10 DEF Types, Backed
<1>17. \A a \in msgs : /\ a.view = mem.view /\ a.seq \in Seqs /\ a.d = mem'.log[a.seq].d
                       /\ a.d # None /\ a.kind = "prepare"
  BY <1>4, MsgFields
<1>18. \A a \in msgs : a.d \in Contents /\ MessageBacked(a, disk')
  <2> SUFFICES ASSUME NEW a \in msgs PROVE a.d \in Contents /\ MessageBacked(a, disk')
    OBVIOUS
  <2>1. /\ a.view = mem.view /\ a.seq \in Seqs /\ a.d = mem'.log[a.seq].d
        /\ a.d # None /\ a.kind = "prepare"
    BY <1>17
  <2>2. a.d \in Contents
    BY <1>4, <2>1 DEF Logs, Slots
  <2>3. MessageBacked(a, disk')
    BY <1>3, <1>9, <1>10, <2>1 DEF MessageBacked
  <2> QED BY <2>2, <2>3
<1>19. nv.view = mem.view
  BY <1>4
<1> HIDE DEF msgs, nv
<1>20. Types'
  BY <1>1, <1>2, <1>3, <1>4, <1>17, <1>18, <1>19 DEF Types
<1>21. Backed(disk)'
  BY <1>1, <1>3, <1>10, <1>15, <1>16, <1>18, <1>19 DEF Backed
<1>22. NoEquivocation'
  <2>1. ASSUME NEW a \in sent', NEW b \in sent', a.view = b.view, a.seq = b.seq PROVE a.d = b.d
    <3>1. CASE a \in sent /\ b \in sent
      BY <2>1, <3>1 DEF RInv, NoEquivocation
    <3>2. CASE a \in msgs /\ b \in msgs
      BY <1>17, <2>1, <3>2
    <3>3. CASE a \in sent /\ b \in msgs
      BY <1>3, <1>15, <1>17, <2>1, <3>3
    <3>4. CASE a \in msgs /\ b \in sent
      BY <1>3, <1>15, <1>17, <2>1, <3>4
    <3> QED BY <1>1, <3>1, <3>2, <3>3, <3>4
  <2>2. ASSUME NEW a \in newViews', NEW b \in newViews', a.view = b.view PROVE a = b
    <3>1. CASE a \in newViews /\ b \in newViews
      BY <2>2, <3>1 DEF RInv, NoEquivocation
    <3>2. CASE a = nv \/ b = nv
      BY <1>1, <1>3, <1>16, <1>19, <2>2, <3>2
    <3> QED BY <1>1, <3>1, <3>2
  <2> QED BY <2>1, <2>2 DEF NoEquivocation
<1>23. up' /\ tran' = NoTran
  BY <1>1 DEF Ready
<1> QED BY <1>11, <1>13, <1>14, <1>20, <1>21, <1>22, <1>23 DEF RInv

-----------------------------------------------------------------------------
(* Crash and restart *)

(* A crash loses the open transaction and nothing else. *)
LEMMA CrashStep == ASSUME RInv, Crash PROVE RInv'
<1>1. up' = FALSE /\ tran' = NoTran /\ UNCHANGED <<mem, disk, sent, newViews, chain, transfers>>
  BY DEF Crash
<1>2. Types' /\ NoEquivocation' /\ Backed(disk)' /\ StorageFits(disk)'
  BY <1>1 DEF RInv, Types, NoEquivocation, Backed
<1> QED BY <1>1, <1>2 DEF RInv

(* What is loaded mirrors the storage. *)
LEMMA RestartStep ==
    ASSUME Setup, RInv, Restart
    PROVE  RInv'
<1> DEFINE v == LastView(disk)
           in == IsInView(disk)
           view == IF in THEN v ELSE v + 1
           max == IF HasNew(disk) THEN disk.new.max ELSE 0
           run == IF disk.desc > disk.exec THEN "exec" ELSE "idle"
<1>1. /\ ~up /\ up' = TRUE /\ UNCHANGED <<disk, tran, sent, newViews, transfers>>
      /\ mem' = [view |-> view, active |-> in,
                 stable |-> disk.stable, exec |-> disk.exec, used |-> disk.used, lower |-> disk.lower,
                 max |-> max, fully |-> disk.fully,
                 log |-> LoadedWindow(disk), ckpt |-> LoadedCheckpoints(disk),
                 run |-> run, added |-> 0]
      /\ chain' = IF disk.fetching THEN chain ELSE TrimmedChain
  BY DEF Restart
<1>2. StorageFits(disk) /\ disk \in Storages /\ tran = NoTran /\ Types /\ NoEquivocation /\ Backed(disk)
  BY <1>1 DEF RInv, StorageFits
<1>3. LoadedWindow(disk) = disk.log
  BY <1>2 DEF LoadedWindow, StorageFits, LogFits
<1>4. LoadedCheckpoints(disk) = disk.ckpt
  <2>1. ASSUME NEW c \in Ckpts PROVE (IF c >= disk.stable THEN disk.ckpt[c] ELSE "no") = disk.ckpt[c]
    <3>1. disk.ckpt[c] # "no" => disk.stable <= c
      BY <1>2 DEF StorageFits, CheckpointsFit
    <3>2. c \in Nat /\ disk.stable \in Nat
      BY <1>2 DEF Ckpts, Setup, Storages
    <3> QED BY <3>1, <3>2
  <2>2. disk.ckpt \in [Ckpts -> {"no", "own", "stable"}]
    BY <1>2 DEF Storages, CheckpointLogs
  <2> QED BY <2>1, <2>2 DEF LoadedCheckpoints
<1>5. v \in Nat /\ in \in BOOLEAN
  BY <1>2, StoredViews DEF StorageFits, IsInView
<1>6. view \in Nat /\ max \in Nat /\ run \in {"idle", "exec"}
  BY <1>2, <1>5 DEF Storages
<1>7. /\ disk.stable \in 0 .. MaxSeq /\ disk.exec \in 0 .. MaxSeq /\ disk.used \in Nat
      /\ disk.lower \in Nat /\ disk.fully \in Nat /\ disk.log \in Logs
      /\ disk.ckpt \in CheckpointLogs
  BY <1>2 DEF Storages
<1> HIDE DEF view, max, run, in
<1>8. mem' \in Memories
  BY <1>1, <1>3, <1>4, <1>5, <1>6, <1>7 DEF Memories
<1>9. /\ mem'.view = view /\ mem'.active = in /\ mem'.stable = disk.stable /\ mem'.exec = disk.exec
      /\ mem'.used = disk.used /\ mem'.lower = disk.lower /\ mem'.max = max
      /\ mem'.fully = disk.fully /\ mem'.log = disk.log /\ mem'.ckpt = disk.ckpt /\ mem'.run = run
  BY <1>1, <1>3, <1>4
<1>10. Mirrors(mem', disk)
  BY <1>5, <1>9 DEF Mirrors, view, max, in
<1>11. Running(mem', disk)
  <2>1. CASE disk.desc > disk.exec
    <3>1. /\ disk.desc = disk.exec + 1 /\ IsInView(disk) /\ InWindow(disk, disk.desc)
          /\ disk.log[disk.desc].d # None
      BY <1>2, <2>1 DEF StorageFits, ExecutionConsistent
    <3>2. disk.desc \in Seqs
      BY <1>2, <1>7, <3>1 DEF Storages, Seqs
    <3> QED BY <1>9, <2>1, <3>1, <3>2 DEF Running, InWindow, run, in
  <2>2. CASE ~(disk.desc > disk.exec)
    BY <1>9, <2>2 DEF Running, run
  <2> QED BY <2>1, <2>2
<1>12. chain' \in Seq(Nat)
  <2>1. chain \in Seq(Nat) /\ Len(chain) \in Nat
    BY <1>2, LenProperties DEF Types
  <2>2. disk.blocks \in Nat
    BY <1>2 DEF Storages
  <2>3. Len(chain) - ToDelete \in Int /\ Len(chain) - ToDelete <= Len(chain)
    BY <2>1, <2>2 DEF ToDelete
  <2>4. \A i \in 1 .. Len(chain) - ToDelete : chain[i] \in Nat
    BY <2>1, <2>3
  <2>5. TrimmedChain \in Seq(Nat)
    BY <2>1, <2>3, <2>4, SubSeqProperties DEF TrimmedChain
  <2> QED BY <1>1, <2>1, <2>5
<1>13. Types'
  BY <1>1, <1>2, <1>8, <1>12 DEF Types
<1>14. NoEquivocation' /\ Backed(disk)' /\ StorageFits(disk)'
  BY <1>1, <1>2 DEF NoEquivocation, Backed
<1>15. Mirrors(mem', disk') /\ Running(mem', disk')
  BY <1>1, <1>10, <1>11
<1> QED BY <1>1, <1>2, <1>13, <1>14, <1>15 DEF RInv

(* Without state transfers none of its actions is possible. *)
LEMMA NoTransfers ==
    ASSUME InScope, RInv
    PROVE  /\ \A s : ~TransferBlocks(s)
           /\ \A enter, lo, hi, ds : ~TransferDone(enter, lo, hi, ds)
           /\ ~TransferBlockId /\ ~TransferEnds
<1>1. disk.fetching = FALSE
  BY DEF RInv, StorageFits, Storages
<1>2. transfers = 0 /\ MaxTransfers = 0
  BY DEF RInv, Types, InScope
<1>3. \A s : ~TransferBlocks(s)
  BY <1>2 DEF TransferBlocks
<1>4. ASSUME NEW enter, NEW lo, NEW hi, NEW ds, TransferDone(enter, lo, hi, ds) PROVE disk.fetching
  BY <1>4 DEF TransferDone
<1>5. ~TransferBlockId /\ ~TransferEnds
  BY <1>1 DEF TransferBlockId, TransferEnds
<1> QED BY <1>1, <1>3, <1>4, <1>5

-----------------------------------------------------------------------------
(* The theorems *)

(* The storage that setDefaultsInMetadataStorage writes can be loaded. *)
LEMMA RInvInit == ASSUME Setup, Init PROVE RInv
<1>1. /\ mem = Fresh /\ disk = Defaults /\ tran = NoTran /\ up = TRUE
      /\ sent = {} /\ newViews = {} /\ chain = <<>> /\ transfers = 0
  BY DEF Init
<1>2. NoLog \in Logs /\ [s \in Ckpts |-> "no"] \in CheckpointLogs
  BY EmptyLog DEF CheckpointLogs
<1>3. Fresh \in Memories
  BY <1>2 DEF Fresh, Memories, Setup
<1>4. Defaults \in Storages
  BY <1>2 DEF Defaults, Storages, Setup
<1>5. IsInView(Defaults) = TRUE /\ LastView(Defaults) = 0 /\ ~HasNew(Defaults) /\ ViewsConsistent(Defaults)
  BY DEF Defaults, IsInView, LastView, HasExit, HasNew, ViewsConsistent
<1>6. NumbersFit(Defaults)
  BY <1>5 DEF NumbersFit, NumbersConsistent, Defaults, Setup
<1>7. CheckpointsFit(Defaults)
  <2>1. 0 \in Ckpts
    BY Division DEF Ckpts, Setup
  <2>2. (0 \div C) * C = 0
    BY Division DEF Setup
  <2> QED BY <2>1, <2>2 DEF CheckpointsFit, Defaults
<1>8. ExecutionConsistent(Defaults)
  BY DEF ExecutionConsistent, Defaults
<1>9. LogFits(Defaults)
  BY <1>5, EmptyLog DEF LogFits, Defaults, NoLog
<1>10. StorageFits(Defaults)
  BY <1>4, <1>5, <1>6, <1>7, <1>8, <1>9 DEF StorageFits
<1>11. Mirrors(Fresh, Defaults) /\ Running(Fresh, Defaults)
  BY <1>5 DEF Mirrors, Running, Fresh, Defaults
<1>12. Types
  BY <1>1, <1>3 DEF Types
<1>13. Backed(disk) /\ NoEquivocation
  BY <1>1 DEF Backed, NoEquivocation
<1> QED BY <1>1, <1>10, <1>11, <1>12, <1>13 DEF RInv

(* Every step keeps the invariant. *)
LEMMA RInvStep == ASSUME Setup, InScope, RInv, [Next]_vars PROVE RInv'
<1>1. CASE UNCHANGED vars
  <2>1. UNCHANGED <<mem, disk, tran, up, sent, newViews, chain, crashes, transfers>>
    BY <1>1 DEF vars
  <2>2. Types' /\ NoEquivocation' /\ Backed(disk)' /\ Backed(tran)' = Backed(tran)
    BY <2>1 DEF RInv, Types, NoEquivocation, Backed
  <2> QED BY <2>1, <2>2 DEF RInv
<1>2. ASSUME NEW d \in Digests, NEW path \in Paths, Propose(d, path) PROVE RInv'
  BY <1>2, ProposeStep
<1>3. ASSUME NEW s \in Seqs, NEW d \in Digests, NEW path \in Paths, NEW ok \in BOOLEAN,
             AcceptPrePrepare(s, d, path, ok)
      PROVE  RInv'
  BY <1>3, AcceptStep
<1>4. ASSUME NEW s \in Seqs, StartSlow(s) \/ Prepared(s) \/ CommittedSlow(s) \/ CommittedFast(s)
      PROVE  RInv'
  BY <1>4, StartSlowStep, PreparedStep, CommittedSlowStep, CommittedFastStep
<1>5. ASSUME NEW s \in Ckpts, CheckpointStable(s) \/ TransferBlocks(s) PROVE RInv'
  BY <1>5, CheckpointStableStep, NoTransfers
<1>6. CASE ExecStart \/ ExecBlock
  BY <1>6, ExecStartStep, ExecBlockStep
<1>7. ASSUME NEW cert \in BOOLEAN, NEW d \in Digests \cup {None}, NEW path \in Paths,
             ExecFinish(cert, d, path)
      PROVE  RInv'
  BY <1>7, ExecFinishStep
<1>8. CASE Commit \/ LeaveView \/ SkipView
  BY <1>8, CommitTransaction, LeaveViewStep, SkipViewStep
<1>9. ASSUME NEW lo \in Seqs, NEW hi \in 0 .. MaxSeq, NEW ds \in [lo .. hi -> Digests \cup {Null}],
             EnterView(lo, hi, ds) \/ TransferDone(TRUE, lo, hi, ds)
      PROVE  RInv'
  BY <1>9, EnterViewStep, NoTransfers
<1>10. CASE TransferDone(FALSE, 1, 0, <<>>) \/ TransferBlockId \/ TransferEnds
  BY <1>10, NoTransfers
<1>11. CASE Crash \/ Restart
  BY <1>11, CrashStep, RestartStep
<1> QED BY <1>1, <1>2, <1>3, <1>4, <1>5, <1>6, <1>7, <1>8, <1>9, <1>10, <1>11 DEF Next

(* Whatever the moment of a crash, ReplicaLoader accepts what is stored    *)
(* and the assertions of the constructor of ReplicaImp hold.               *)
THEOREM StorageLoads == ASSUME Setup, InScope PROVE Spec => []LoadSucceeds
<1>1. Init => RInv
  BY RInvInit
<1>2. RInv /\ [Next]_vars => RInv'
  BY RInvStep
<1>3. RInv => LoadSucceeds
  <2> SUFFICES ASSUME RInv PROVE LoadSucceeds
    OBVIOUS
  <2>1. /\ disk \in Storages /\ ViewsConsistent(disk) /\ NumbersConsistent(disk)
        /\ CheckpointsFit(disk) /\ ExecutionConsistent(disk)
    BY DEF RInv, StorageFits, NumbersFit
  <2>2. CheckpointsConsistent(disk)
    <3> SUFFICES ASSUME NEW s \in Ckpts
                 PROVE  /\ s > 0 /\ s = (disk.exec \div C) * C => disk.ckpt[s] # "no"
                        /\ s = 0 => disk.ckpt[s] = "no"
                        /\ s > 0 /\ s = disk.stable => disk.ckpt[s] = "stable"
      BY DEF CheckpointsConsistent
    <3>1. s \in Nat
      BY DEF Ckpts, Setup
    <3> QED BY <2>1, <3>1 DEF CheckpointsFit
  <2>3. SlotsConsistent(disk)
    BY <2>1 DEF SlotsConsistent, Storages, Logs, Slots
  <2> QED BY <2>1, <2>2, <2>3 DEF LoadSucceeds
<1> QED BY <1>1, <1>2, <1>3, PTL DEF Spec

(* Nothing the replica said is forgotten or contradicted after a crash: no *)
(* two contents in one view, every commit vote backed by the stored        *)
(* certificate, and the next slot of the primary free.                     *)
THEOREM VotesAreKept == ASSUME Setup, InScope PROVE Spec => []VotesSurvive
<1>1. Init => RInv
  BY RInvInit
<1>2. RInv /\ [Next]_vars => RInv'
  BY RInvStep
<1>3. RInv => VotesSurvive
  <2> SUFFICES ASSUME RInv PROVE VotesSurvive
    OBVIOUS
  <2>1. NoEquivocation
    BY DEF RInv
  <2>2. CommitVoteIsRemembered
    BY DEF CommitVoteIsRemembered, RInv, Backed, MessageBacked, RecordOf
  <2>3. NextSlotIsFree
    <3> SUFFICES ASSUME Ready, MayPropose(mem) PROVE mem.log[mem.used + 1].d = None
      BY DEF NextSlotIsFree
    <3>1. StorageFits(disk) /\ Mirrors(mem, disk) /\ mem \in Memories
      BY ReadyState
    <3>2. /\ mem.active = TRUE /\ mem.view \in Mine /\ mem.used + 1 \in Seqs
          /\ mem.used + 1 > mem.used
      BY <3>1 DEF MayPropose, Memories, Seqs, Setup
    <3>3. IsInView(disk) /\ LastView(disk) \in Mine /\ mem.used = disk.used /\ mem.log = disk.log
      BY <3>1, <3>2 DEF Mirrors
    <3> QED BY <3>1, <3>2, <3>3 DEF StorageFits, LogFits
  <2> QED BY <2>1, <2>2, <2>3 DEF VotesSurvive
<1> QED BY <1>1, <1>2, <1>3, PTL DEF Spec

-----------------------------------------------------------------------------
(* The blocks *)

(* Where the slot s added blocks to the chain c *)
BlocksOf(c, s) == {i \in 1 .. Len(c) : c[i] = s}

(* Up to the stored number of blocks c holds those of the executed slots,  *)
(* above it those of the next slot.                                        *)
ChainFits(c, p) ==
    /\ p.blocks <= Len(c) /\ Len(c) <= p.blocks + Batch
    /\ \A i \in 1 .. Len(c) : IF i <= p.blocks THEN c[i] <= p.exec ELSE c[i] = p.exec + 1
    /\ \A i \in 1 .. Len(c) - 1 : c[i] <= c[i + 1]
    /\ \A s \in Seqs : Cardinality(BlocksOf(c, s)) <= Batch

(* How far the execution under way is *)
Progress(m, c, p) ==
    /\ m.run # "exec" => Len(c) = p.blocks
    /\ m.run = "exec" =>
          IF m.log[m.exec + 1].d = Null THEN m.added = Batch /\ Len(c) = p.blocks
          ELSE m.added <= Batch /\ Len(c) = p.blocks + m.added

BInv ==
    /\ RInv /\ ChainFits(chain, disk)
    /\ up /\ tran = NoTran => Progress(mem, chain, disk)
    /\ tran # NoTran => tran.exec = disk.exec + 1 /\ tran.blocks = Len(chain)

(* A step that neither executes nor stores blocks *)
Still ==
    /\ Ready /\ UNCHANGED <<chain, tran, up>>
    /\ disk'.blocks = disk.blocks /\ disk'.exec = disk.exec
    /\ mem'.run = mem.run /\ mem'.added = mem.added /\ mem'.exec = mem.exec
    /\ mem.run = "exec" => mem'.log[mem.exec + 1].d = mem.log[mem.exec + 1].d

(* It leaves the blocks as they are. *)
LEMMA StillStep == ASSUME BInv, RInv', Still PROVE BInv'
<1>1. ChainFits(chain, disk) /\ Progress(mem, chain, disk)
  BY DEF BInv, Still, Ready
<1>2. ChainFits(chain', disk') /\ Progress(mem', chain', disk')
  BY <1>1 DEF ChainFits, Progress, Still
<1> QED BY <1>2 DEF BInv, Still, Ready

(* One slot is written: what a slot contains stays. *)
LEMMA SetSlotIsStill ==
    ASSUME Setup, RInv, InView, NEW s \in Seqs, NEW e, NEW msgs, SetSlot(s, e, msgs),
           mem.log[s].d # None => e.d = mem.log[s].d
    PROVE  Still
<1>1. /\ mem \in Memories /\ disk \in Storages /\ mem.log \in Logs /\ Running(mem, disk)
  BY InViewState
<1>2. /\ mem' = [mem EXCEPT !.log[s] = e] /\ disk' = [disk EXCEPT !.log[s] = Stored(e)]
      /\ UNCHANGED <<chain, tran, up>> /\ Ready
  BY DEF SetSlot, Persisted, InView
<1>3. /\ disk'.blocks = disk.blocks /\ disk'.exec = disk.exec
      /\ mem'.run = mem.run /\ mem'.added = mem.added /\ mem'.exec = mem.exec
  BY <1>1, <1>2 DEF Memories, Storages
<1>4. ASSUME mem.run = "exec" PROVE mem'.log[mem.exec + 1].d = mem.log[mem.exec + 1].d
  <2>1. mem.exec + 1 \in Seqs /\ mem.log[mem.exec + 1].d # None
    BY <1>1, <1>4 DEF Running
  <2>2. mem'.log = [mem.log EXCEPT ![s] = e]
    BY <1>1, <1>2 DEF Memories
  <2> QED BY <1>1, <2>1, <2>2 DEF Logs
<1> QED BY <1>2, <1>3, <1>4 DEF Still

(* So it is with the messages of a consensus ... *)
LEMMA ConsensusIsStill ==
    ASSUME Setup, RInv, NEW s \in Seqs,
           \/ \E d \in Digests, path \in Paths, ok \in BOOLEAN : AcceptPrePrepare(s, d, path, ok)
           \/ StartSlow(s) \/ Prepared(s) \/ CommittedSlow(s) \/ CommittedFast(s)
    PROVE  Still
<1>1. InView
  BY DEF AcceptPrePrepare, StartSlow, Prepared, CommittedSlow, CommittedFast
<1>2. mem.log[s] \in Slots
  BY <1>1, InViewState DEF Logs
<1>3. ASSUME NEW d \in Digests, NEW path \in Paths, NEW ok \in BOOLEAN, AcceptPrePrepare(s, d, path, ok)
      PROVE  Still
  <2>1. mem.log[s].d = None
    BY <1>3 DEF AcceptPrePrepare
  <2>2. PICK e, msgs : SetSlot(s, e, msgs)
    BY <1>3 DEF AcceptPrePrepare
  <2> QED BY <1>1, <2>1, <2>2, SetSlotIsStill
<1>4. CASE StartSlow(s)
  <2> DEFINE e == [mem.log[s] EXCEPT !.slow = TRUE]
  <2>1. e.d = mem.log[s].d
    BY <1>2 DEF Slots
  <2>2. PICK msgs : SetSlot(s, e, msgs)
    BY <1>4 DEF StartSlow
  <2> HIDE DEF e
  <2> QED BY <1>1, <2>1, <2>2, SetSlotIsStill
<1>5. CASE Prepared(s)
  <2> DEFINE e == [mem.log[s] EXCEPT !.prep = TRUE]
  <2>1. e.d = mem.log[s].d
    BY <1>2 DEF Slots
  <2>2. PICK msgs : SetSlot(s, e, msgs)
    BY <1>5 DEF Prepared
  <2> HIDE DEF e
  <2> QED BY <1>1, <2>1, <2>2, SetSlotIsStill
<1>6. CASE CommittedSlow(s)
  <2> DEFINE e == [mem.log[s] EXCEPT !.commit = TRUE]
  <2>1. e.d = mem.log[s].d
    BY <1>2 DEF Slots
  <2>2. SetSlot(s, e, {})
    BY <1>6 DEF CommittedSlow
  <2> HIDE DEF e
  <2> QED BY <1>1, <2>1, <2>2, SetSlotIsStill
<1>7. CASE CommittedFast(s)
  <2> DEFINE e == [mem.log[s] EXCEPT !.fast = TRUE]
  <2>1. e.d = mem.log[s].d
    BY <1>2 DEF Slots
  <2>2. SetSlot(s, e, {})
    BY <1>7 DEF CommittedFast
  <2> HIDE DEF e
  <2> QED BY <1>1, <2>1, <2>2, SetSlotIsStill
<1> QED BY <1>3, <1>4, <1>5, <1>6, <1>7

(* ... with the proposal of the primary ... *)
LEMMA ProposeIsStill ==
    ASSUME Setup, RInv, NEW d \in Digests, NEW path \in Paths, Propose(d, path)
    PROVE  Still
<1> DEFINE e == Proposal(d, path)
<1>1. /\ InView /\ Ready /\ MayPropose(mem) /\ mem' = AfterPropose(mem, e)
      /\ disk' = ProposeWrites(disk, mem, e) /\ UNCHANGED <<chain, tran, up>>
  BY DEF Propose, InView
<1>2. /\ mem \in Memories /\ disk \in Storages /\ mem.log \in Logs /\ Running(mem, disk)
      /\ StorageFits(disk) /\ Mirrors(mem, disk) /\ mem.used \in Nat /\ mem.log = disk.log
      /\ mem.view = LastView(disk) /\ IsInView(disk) /\ mem.used = disk.used
  BY <1>1, InViewState
<1> HIDE DEF e
<1>3. /\ disk'.blocks = disk.blocks /\ disk'.exec = disk.exec
      /\ mem'.run = mem.run /\ mem'.added = mem.added /\ mem'.exec = mem.exec
  BY <1>1, <1>2 DEF Memories, Storages, AfterPropose, ProposeWrites, Persisted
<1>4. ASSUME mem.run = "exec" PROVE mem'.log[mem.exec + 1].d = mem.log[mem.exec + 1].d
  <2>1. mem.exec + 1 \in Seqs /\ mem.log[mem.exec + 1].d # None
    BY <1>2, <1>4 DEF Running
  <2>2. mem.used + 1 \in Seqs /\ mem.used + 1 > mem.used
    BY <1>1, <1>2 DEF MayPropose, Seqs, Setup
  <2>3. mem.log[mem.used + 1].d = None
    BY <1>1, <1>2, <2>2 DEF MayPropose, StorageFits, LogFits
  <2>4. mem'.log = [mem.log EXCEPT ![mem.used + 1] = e]
    BY <1>1, <1>2 DEF Memories, AfterPropose
  <2> QED BY <1>2, <2>1, <2>3, <2>4 DEF Logs
<1> QED BY <1>1, <1>3, <1>4 DEF Still

(* ... and with the steps of an idle replica. *)
LEMMA IdleIsStill ==
    ASSUME Setup, RInv,
           \/ \E s \in Ckpts : CheckpointStable(s)
           \/ LeaveView \/ SkipView
           \/ \E lo, hi, ds : EnterView(lo, hi, ds)
    PROVE  Still
<1>1. Ready /\ mem.run = "idle" /\ mem.run # "exec" /\ UNCHANGED <<chain, tran, up>>
  BY DEF CheckpointStable, LeaveView, SkipView, EnterView, Idle
<1>2. mem \in Memories /\ disk \in Storages /\ Mirrors(mem, disk) /\ StorageFits(disk)
  BY <1>1, ReadyState
<1>3. ASSUME NEW s \in Ckpts, CheckpointStable(s) PROVE Still
  <2>1. /\ s > disk.stable /\ disk.ckpt[s] # "no"
        /\ mem' = StableMem(mem, s, TRUE) /\ disk' = StableWrites(disk, mem, s, TRUE)
    BY <1>2, <1>3 DEF CheckpointStable, Mirrors
  <2>2. Stabilised(disk, s, disk') /\ Mirrors(mem', disk') /\ mem'.run = mem.run
    BY <1>2, <2>1, StableBoth
  <2>3. mem'.exec = mem.exec /\ disk'.exec = disk.exec
    BY <1>2, <2>2 DEF Stabilised, Mirrors
  <2>4. mem'.added = mem.added /\ disk'.blocks = disk.blocks
    BY <1>2, <2>1 DEF StableMem, StableWrites, Memories, Storages
  <2> QED BY <1>1, <2>2, <2>3, <2>4 DEF Still
<1>4. CASE LeaveView
  BY <1>1, <1>2, <1>4 DEF LeaveView, Still, Memories, Storages
<1>5. CASE SkipView
  BY <1>1, <1>2, <1>5 DEF SkipView, Still, Memories, Storages
<1>6. ASSUME NEW lo, NEW hi, NEW ds, EnterView(lo, hi, ds) PROVE Still
  <2>1. mem' = Entered(mem, lo, hi, ds) /\ disk' = EnterWrites(disk, mem')
    BY <1>6 DEF EnterView
  <2>2. mem'.run = mem.run /\ mem'.added = mem.added /\ mem'.exec = mem.exec
    BY <1>2, <2>1 DEF Entered, Memories
  <2>3. disk'.blocks = disk.blocks /\ disk'.exec = disk.exec
    BY <1>2, <2>1 DEF EnterWrites, Storages
  <2> QED BY <1>1, <2>2, <2>3 DEF Still
<1> QED BY <1>3, <1>4, <1>5, <1>6

(* The blocks of the slot after the last one stored are at most Batch. *)
LEMMA FewBlocks ==
    ASSUME NEW c \in Seq(Nat), NEW b \in Nat, NEW x \in Nat, Batch \in Nat,
           Len(c) <= b + Batch, \A i \in 1 .. Len(c) : i <= b => c[i] <= x
    PROVE  Cardinality(BlocksOf(c, x + 1)) <= Batch
<1> DEFINE n == Len(c)
<1>1. n \in Nat
  BY LenProperties
<1> HIDE DEF n
<1>2. IsFiniteSet(b + 1 .. n) /\ Cardinality(b + 1 .. n) = IF b + 1 > n THEN 0 ELSE n - (b + 1) + 1
  <2>1. b + 1 \in Int /\ n \in Int
    BY <1>1
  <2> QED BY <2>1, FS_Interval
<1>3. Cardinality(b + 1 .. n) <= Batch
  BY <1>1, <1>2 DEF n
<1>4. BlocksOf(c, x + 1) \subseteq b + 1 .. n
  <2> SUFFICES ASSUME NEW i \in 1 .. n, c[i] = x + 1 PROVE i \in b + 1 .. n
    BY DEF BlocksOf, n
  <2>1. ~(i <= b)
    BY <1>1 DEF n
  <2> QED BY <1>1, <2>1
<1>5. /\ IsFiniteSet(BlocksOf(c, x + 1))
      /\ Cardinality(BlocksOf(c, x + 1)) <= Cardinality(b + 1 .. n)
  BY <1>2, <1>4, FS_Subset
<1>6. Cardinality(BlocksOf(c, x + 1)) \in Nat /\ Cardinality(b + 1 .. n) \in Nat
  BY <1>2, <1>5, FS_CardinalityType
<1> QED BY <1>3, <1>5, <1>6

(* Phase 1 *)
LEMMA BlocksExecStart == ASSUME Setup, BInv, RInv', ExecStart PROVE BInv'
<1> DEFINE s == mem.exec + 1
<1>1. /\ Ready /\ mem.run = "idle" /\ mem.run # "exec" /\ s <= MaxSeq /\ UNCHANGED <<tran, up, chain>>
      /\ mem' = [mem EXCEPT !.run = "exec", !.added = IF mem.log[s].d = Null THEN Batch ELSE 0]
      /\ disk' = IF mem.log[s].d = Null THEN disk ELSE [disk EXCEPT !.desc = s]
  BY DEF ExecStart, Idle
<1>2. /\ mem \in Memories /\ disk \in Storages /\ chain \in Seq(Nat) /\ disk.blocks \in Nat
      /\ ChainFits(chain, disk) /\ Progress(mem, chain, disk)
  <2>1. mem \in Memories /\ disk \in Storages /\ chain \in Seq(Nat)
    BY <1>1, ReadyState DEF BInv
  <2> QED BY <1>1, <2>1 DEF BInv, Storages, Ready
<1>3. /\ disk'.blocks = disk.blocks /\ disk'.exec = disk.exec
  BY <1>1, <1>2 DEF Storages
<1>4. /\ mem'.run = "exec" /\ mem'.log = mem.log /\ mem'.exec = mem.exec
      /\ mem'.added = IF mem.log[s].d = Null THEN Batch ELSE 0
  BY <1>1, <1>2 DEF Memories
<1>5. ChainFits(chain', disk')
  BY <1>1, <1>2, <1>3 DEF ChainFits
<1>6. Len(chain) = disk.blocks
  BY <1>1, <1>2 DEF Progress
<1>7. Progress(mem', chain', disk')
  <2>1. 0 <= Batch /\ disk.blocks + 0 = disk.blocks
    BY <1>2 DEF Setup
  <2> HIDE DEF s
  <2> QED BY <1>1, <1>3, <1>4, <1>6, <2>1 DEF Progress, s
<1> QED BY <1>1, <1>5, <1>7 DEF BInv, Ready

(* Phase 2 *)
LEMMA BlocksExecBlock == ASSUME Setup, BInv, RInv', ExecBlock PROVE BInv'
<1> DEFINE x == disk.exec
           c == chain'
           n == Len(chain)
<1>1. /\ Ready /\ mem.run = "exec" /\ mem.added < Batch /\ chain' = Append(chain, mem.exec + 1)
      /\ mem' = [mem EXCEPT !.added = @ + 1] /\ UNCHANGED <<disk, tran, up>>
  BY DEF ExecBlock
<1>2. /\ mem \in Memories /\ disk \in Storages /\ chain \in Seq(Nat) /\ mem.exec = x
      /\ ChainFits(chain, disk) /\ Progress(mem, chain, disk)
  <2>1. mem \in Memories /\ disk \in Storages /\ chain \in Seq(Nat) /\ Mirrors(mem, disk)
    BY <1>1, ReadyState DEF BInv
  <2> QED BY <1>1, <2>1 DEF BInv, Ready, Mirrors
<1>3. x \in Nat /\ disk.blocks \in Nat /\ mem.added \in Nat /\ Batch \in Nat /\ n \in Nat
  BY <1>2, LenProperties DEF Memories, Storages, Setup
<1>4. n = disk.blocks + mem.added /\ mem.log[mem.exec + 1].d # Null
  BY <1>1, <1>2, <1>3 DEF Progress
<1>5. /\ c \in Seq(Nat) /\ Len(c) = n + 1 /\ c[n + 1] = x + 1
      /\ \A i \in 1 .. n : c[i] = chain[i]
  BY <1>1, <1>2, <1>3
<1> HIDE DEF n, c, x
<1>6. /\ disk.blocks <= n
      /\ \A i \in 1 .. n : IF i <= disk.blocks THEN chain[i] <= x ELSE chain[i] = x + 1
      /\ \A i \in 1 .. n - 1 : chain[i] <= chain[i + 1]
      /\ \A s \in Seqs : Cardinality(BlocksOf(chain, s)) <= Batch
  BY <1>2 DEF ChainFits, n, x
<1>7. disk.blocks <= Len(c) /\ Len(c) <= disk.blocks + Batch
  BY <1>1, <1>3, <1>4, <1>5
<1>8. \A i \in 1 .. Len(c) : IF i <= disk.blocks THEN c[i] <= x ELSE c[i] = x + 1
  <2> SUFFICES ASSUME NEW i \in 1 .. n + 1
               PROVE  IF i <= disk.blocks THEN c[i] <= x ELSE c[i] = x + 1
    BY <1>5
  <2>1. CASE i \in 1 .. n
    BY <1>5, <1>6, <2>1
  <2>2. CASE i = n + 1
    BY <1>3, <1>4, <1>5, <2>2
  <2> QED BY <1>3, <2>1, <2>2
<1>9. \A i \in 1 .. Len(c) - 1 : c[i] <= c[i + 1]
  <2> SUFFICES ASSUME NEW i \in 1 .. n PROVE c[i] <= c[i + 1]
    BY <1>3, <1>5
  <2>1. CASE i < n
    <3>1. i \in 1 .. n - 1 /\ i + 1 \in 1 .. n
      BY <1>3, <2>1
    <3>2. c[i] = chain[i] /\ c[i + 1] = chain[i + 1]
      BY <1>5, <3>1
    <3> QED BY <1>6, <3>1, <3>2
  <2>2. CASE i = n
    <3>1. c[i + 1] = x + 1 /\ c[i] = chain[i]
      BY <1>5, <2>2
    <3>2. chain[i] <= x \/ chain[i] = x + 1
      BY <1>6
    <3>3. chain[i] \in Nat
      BY <1>2, ElementOfSeq DEF n
    <3> QED BY <1>3, <3>1, <3>2, <3>3
  <2> QED BY <1>3, <2>1, <2>2
<1>10. ASSUME NEW s \in Seqs PROVE Cardinality(BlocksOf(c, s)) <= Batch
  <2>1. CASE s = x + 1
    BY <1>3, <1>5, <1>7, <1>8, <2>1, FewBlocks
  <2>2. CASE s # x + 1
    <3>1. BlocksOf(c, s) = BlocksOf(chain, s)
      BY <1>3, <1>5, <2>2 DEF BlocksOf, n
    <3> QED BY <1>6, <3>1
  <2> QED BY <2>1, <2>2
<1>11. ChainFits(chain', disk')
  BY <1>1, <1>7, <1>8, <1>9, <1>10 DEF ChainFits, c, x
<1>12. /\ mem'.run = "exec" /\ mem'.log = mem.log /\ mem'.exec = mem.exec /\ mem'.added = mem.added + 1
  BY <1>1, <1>2 DEF Memories
<1>13. Progress(mem', chain', disk')
  <2>1. mem.added + 1 <= Batch /\ Len(c) = disk.blocks + (mem.added + 1)
    BY <1>1, <1>3, <1>4, <1>5
  <2> QED BY <1>1, <1>4, <1>12, <2>1 DEF Progress, c
<1> QED BY <1>1, <1>11, <1>13 DEF BInv, Ready

(* Phase 3 *)
LEMMA BlocksExecFinish ==
    ASSUME Setup, InScope, BInv, RInv', NEW cert \in BOOLEAN, NEW d \in Digests \cup {None},
           NEW path \in Paths, ExecFinish(cert, d, path)
    PROVE  BInv'
<1> DEFINE s == mem.exec + 1
           k == IF s % C = 0 THEN [disk.ckpt EXCEPT ![s] = "own"] ELSE disk.ckpt
<1>1. /\ Ready /\ mem.run = "exec" /\ d = None /\ mem.added = Batch /\ UNCHANGED <<disk, up, chain>>
  BY DEF ExecFinish, InScope
<1>2. /\ mem \in Memories /\ disk \in Storages /\ chain \in Seq(Nat) /\ mem.exec = disk.exec
      /\ ChainFits(chain, disk) /\ Progress(mem, chain, disk)
  <2>1. mem \in Memories /\ disk \in Storages /\ chain \in Seq(Nat) /\ Mirrors(mem, disk)
    BY <1>1, ReadyState DEF BInv
  <2> QED BY <1>1, <2>1 DEF BInv, Ready, Mirrors
<1>3. s \in Nat /\ disk.blocks \in Nat
  BY <1>2 DEF Memories, Storages, Setup
<1>4. PICK m1, p1 :
        /\ m1.exec = s /\ p1.exec = s /\ p1.blocks = disk.blocks
        /\ DOMAIN p1 = DOMAIN disk
        /\ LET p2 == IF cert THEN StableWrites(p1, m1, s, TRUE) ELSE p1
           IN  tran' = [p2 EXCEPT !.blocks = IF mem.log[s].d = Null THEN @ ELSE Len(chain)]
  <2> DEFINE m1 == [mem EXCEPT !.exec = s, !.run = "finish",
                      !.fully = IF @ < mem.view /\ s >= mem.max THEN mem.view ELSE @,
                      !.ckpt = IF s % C = 0 THEN [@ EXCEPT ![s] = "own"] ELSE @]
             p1 == [disk EXCEPT !.exec = s, !.fully = m1.fully,
                      !.ckpt = IF s % C = 0 THEN [@ EXCEPT ![s] = "own"] ELSE @]
  <2>1. m1.exec = s
    BY <1>2 DEF Memories
  <2>2. p1.exec = s /\ p1.blocks = disk.blocks /\ DOMAIN p1 = DOMAIN disk
    <3> HIDE DEF m1
    <3> QED BY <1>2 DEF Storages
  <2>3. LET p2 == IF cert THEN StableWrites(p1, m1, s, TRUE) ELSE p1
        IN  tran' = [p2 EXCEPT !.blocks = IF mem.log[s].d = Null THEN @ ELSE Len(chain)]
    BY <1>1 DEF ExecFinish
  <2> HIDE DEF m1, p1
  <2> QED BY <2>1, <2>2, <2>3
<1> DEFINE p2 == IF cert THEN StableWrites(p1, m1, s, TRUE) ELSE p1
<1>5. p2.exec = s /\ p2.blocks = disk.blocks /\ DOMAIN p2 = DOMAIN disk
  BY <1>2, <1>3, <1>4 DEF StableWrites, Storages
<1>6. tran' = [p2 EXCEPT !.blocks = IF mem.log[s].d = Null THEN p2.blocks ELSE Len(chain)]
  BY <1>4, <1>5 DEF Storages
<1> HIDE DEF p2
<1>7. tran'.exec = s /\ tran'.blocks = IF mem.log[s].d = Null THEN disk.blocks ELSE Len(chain)
  <2>1. "exec" \in DOMAIN p2 /\ "blocks" \in DOMAIN p2
    BY <1>2, <1>5 DEF Storages
  <2> QED BY <1>5, <1>6, <2>1
<1>8. mem.log[s].d = Null => Len(chain) = disk.blocks
  BY <1>1, <1>2 DEF Progress
<1>9. tran'.exec = disk'.exec + 1 /\ tran'.blocks = Len(chain')
  BY <1>1, <1>2, <1>7, <1>8
<1>10. tran' # NoTran
  <2>1. "exec" \in DOMAIN tran' /\ "exec" \notin DOMAIN NoTran
    BY <1>2, <1>5, <1>6 DEF Storages, NoTran
  <2> QED BY <2>1
<1>11. ChainFits(chain', disk')
  BY <1>1, <1>2
<1> QED BY <1>9, <1>10, <1>11 DEF BInv

(* The end of the transaction: the blocks are those of executed slots. *)
LEMMA BlocksCommit == ASSUME Setup, BInv, RInv', Commit PROVE BInv'
<1>1. /\ up /\ tran # NoTran /\ disk' = tran /\ tran' = NoTran /\ UNCHANGED <<up, chain>>
      /\ mem' = [mem EXCEPT !.run = "idle", !.added = 0]
  BY DEF Commit
<1>2. /\ ChainFits(chain, disk) /\ tran.exec = disk.exec + 1 /\ tran.blocks = Len(chain)
      /\ disk \in Storages /\ mem \in Memories /\ chain \in Seq(Nat)
  BY <1>1 DEF BInv, RInv, StorageFits, Types
<1>3. disk.exec \in Nat /\ Len(chain) \in Nat
  BY <1>2, LenProperties DEF Storages, Setup
<1>4. ASSUME NEW i \in 1 .. Len(chain) PROVE i <= tran.blocks /\ chain[i] <= tran.exec
  <2>1. chain[i] <= disk.exec \/ chain[i] = disk.exec + 1
    BY <1>2 DEF ChainFits
  <2>2. chain[i] \in Nat
    BY <1>2, ElementOfSeq
  <2> QED BY <1>2, <1>3, <2>1, <2>2
<1>5. ChainFits(chain', disk')
  <2>1. tran.blocks <= Len(chain) /\ Len(chain) <= tran.blocks + Batch
    BY <1>2, <1>3 DEF Setup
  <2>2. /\ \A i \in 1 .. Len(chain) - 1 : chain[i] <= chain[i + 1]
        /\ \A s \in Seqs : Cardinality(BlocksOf(chain, s)) <= Batch
    BY <1>2 DEF ChainFits
  <2> QED BY <1>1, <1>4, <2>1, <2>2 DEF ChainFits
<1>6. mem'.run # "exec"
  BY <1>1, <1>2 DEF Memories
<1>7. Progress(mem', chain', disk')
  BY <1>1, <1>2, <1>6 DEF Progress
<1> QED BY <1>1, <1>5, <1>7 DEF BInv

(* The state sync deletes the blocks of the interrupted execution. *)
LEMMA BlocksRestart == ASSUME Setup, BInv, RInv', Restart PROVE BInv'
<1> DEFINE b == disk.blocks
           c == chain'
<1>1. /\ ~up /\ up' = TRUE /\ UNCHANGED <<disk, tran>>
      /\ mem'.run = IF disk.desc > disk.exec THEN "exec" ELSE "idle"
      /\ mem'.added = 0 /\ mem'.exec = disk.exec
      /\ chain' = IF disk.fetching THEN chain ELSE TrimmedChain
  BY DEF Restart
<1>2. /\ ChainFits(chain, disk) /\ disk \in Storages /\ chain \in Seq(Nat) /\ tran = NoTran
      /\ StorageFits(disk)
  BY <1>1 DEF BInv, RInv, StorageFits, Types
<1>3. /\ b \in Nat /\ Len(chain) \in Nat /\ b <= Len(chain) /\ disk.fetching = FALSE /\ disk.exec \in Nat
      /\ Batch \in Nat
  <2>1. b \in Nat /\ disk.exec \in 0 .. MaxSeq
    BY <1>2 DEF Storages
  <2>2. Len(chain) \in Nat /\ b <= Len(chain)
    BY <1>2, LenProperties DEF ChainFits
  <2>3. disk.fetching = FALSE
    BY <1>2 DEF Storages
  <2> QED BY <2>1, <2>2, <2>3 DEF Setup
<1>4. Len(chain) - ToDelete = b
  BY <1>3 DEF ToDelete
<1>5. c = SubSeq(chain, 1, b)
  BY <1>1, <1>3, <1>4 DEF TrimmedChain
<1>6. Len(c) = b /\ \A i \in 1 .. b : c[i] = chain[i]
  BY <1>2, <1>3, <1>5, SubSeqProperties
<1> HIDE DEF b, c
<1>7. ASSUME NEW s \in Seqs PROVE Cardinality(BlocksOf(c, s)) <= Batch
  <2>1. IsFiniteSet(1 .. Len(chain))
    BY <1>3, FS_Interval
  <2>2. BlocksOf(chain, s) \subseteq 1 .. Len(chain)
    BY DEF BlocksOf
  <2>3. IsFiniteSet(BlocksOf(chain, s))
    BY <2>1, <2>2, FS_Subset
  <2>4. BlocksOf(c, s) \subseteq BlocksOf(chain, s)
    BY <1>3, <1>6 DEF BlocksOf
  <2>5. IsFiniteSet(BlocksOf(c, s)) /\ Cardinality(BlocksOf(c, s)) <= Cardinality(BlocksOf(chain, s))
    BY <2>3, <2>4, FS_Subset
  <2>6. Cardinality(BlocksOf(c, s)) \in Nat /\ Cardinality(BlocksOf(chain, s)) \in Nat
    BY <2>3, <2>5, FS_CardinalityType
  <2>7. Cardinality(BlocksOf(chain, s)) <= Batch
    BY <1>2 DEF ChainFits
  <2> QED BY <1>3, <2>5, <2>6, <2>7
<1>8. \A i \in 1 .. b : i <= b /\ c[i] <= disk.exec
  <2> SUFFICES ASSUME NEW i \in 1 .. b PROVE i <= b /\ c[i] <= disk.exec
    OBVIOUS
  <2>1. i \in 1 .. Len(chain) /\ i <= b
    BY <1>3
  <2> QED BY <1>2, <1>6, <2>1 DEF ChainFits, b
<1>9. \A i \in 1 .. b - 1 : c[i] <= c[i + 1]
  <2> SUFFICES ASSUME NEW i \in 1 .. b - 1 PROVE c[i] <= c[i + 1]
    OBVIOUS
  <2>1. i \in 1 .. b /\ i + 1 \in 1 .. b /\ i \in 1 .. Len(chain) - 1
    BY <1>3
  <2> QED BY <1>2, <1>6, <2>1 DEF ChainFits
<1>10. ChainFits(chain', disk')
  <2>1. b <= Len(c) /\ Len(c) <= b + Batch
    BY <1>3, <1>6
  <2> QED BY <1>1, <1>6, <1>7, <1>8, <1>9, <2>1 DEF ChainFits, b, c
<1>11. Progress(mem', chain', disk')
  <2>1. CASE disk.desc > disk.exec
    <3>1. /\ disk.desc = disk.exec + 1 /\ IsInView(disk) /\ disk.log[disk.desc].d # Null
      BY <1>2, <2>1 DEF StorageFits, ExecutionConsistent
    <3>2. mem'.log = disk.log
      BY <3>1 DEF Restart, LoadedWindow
    <3>3. Len(chain') = b + 0 /\ 0 <= Batch
      BY <1>3, <1>6 DEF c
    <3> QED BY <1>1, <2>1, <3>1, <3>2, <3>3 DEF Progress, b
  <2>2. CASE ~(disk.desc > disk.exec)
    BY <1>1, <1>6, <2>2 DEF Progress, b, c
  <2> QED BY <2>1, <2>2
<1> QED BY <1>1, <1>2, <1>10, <1>11 DEF BInv

(* Initially there are no blocks. *)
LEMMA BInvInit == ASSUME Setup, Init PROVE BInv
<1>1. RInv
  BY RInvInit
<1>2. chain = <<>> /\ Len(chain) = 0 /\ disk.blocks = 0 /\ mem.run = "idle" /\ tran = NoTran
  BY DEF Init, Defaults, Fresh
<1>3. ASSUME NEW s \in Seqs PROVE Cardinality(BlocksOf(chain, s)) <= Batch
  <2>1. BlocksOf(chain, s) = {}
    BY <1>2 DEF BlocksOf
  <2>2. Cardinality(BlocksOf(chain, s)) = 0
    BY <2>1, FS_EmptySet
  <2> QED BY <2>2 DEF Setup
<1>4. ChainFits(chain, disk)
  BY <1>2, <1>3 DEF ChainFits, Setup
<1>5. Progress(mem, chain, disk)
  BY <1>2 DEF Progress
<1> QED BY <1>1, <1>2, <1>4, <1>5 DEF BInv

(* Every step keeps the invariant. *)
LEMMA BInvStep == ASSUME Setup, InScope, BInv, [Next]_vars PROVE BInv'
<1> RInv /\ RInv'
  BY RInvStep DEF BInv
<1>1. CASE UNCHANGED vars
  BY <1>1 DEF vars, BInv, ChainFits, Progress
<1>2. ASSUME NEW d \in Digests, NEW path \in Paths, Propose(d, path) PROVE BInv'
  BY <1>2, ProposeIsStill, StillStep
<1>3. ASSUME NEW s \in Seqs, NEW d \in Digests, NEW path \in Paths, NEW ok \in BOOLEAN,
             AcceptPrePrepare(s, d, path, ok)
      PROVE  BInv'
  BY <1>3, ConsensusIsStill, StillStep
<1>4. ASSUME NEW s \in Seqs, StartSlow(s) \/ Prepared(s) \/ CommittedSlow(s) \/ CommittedFast(s)
      PROVE  BInv'
  BY <1>4, ConsensusIsStill, StillStep
<1>5. ASSUME NEW s \in Ckpts, CheckpointStable(s) \/ TransferBlocks(s) PROVE BInv'
  BY <1>5, IdleIsStill, StillStep, NoTransfers
<1>6. CASE ExecStart \/ ExecBlock
  BY <1>6, BlocksExecStart, BlocksExecBlock
<1>7. ASSUME NEW cert \in BOOLEAN, NEW d \in Digests \cup {None}, NEW path \in Paths,
             ExecFinish(cert, d, path)
      PROVE  BInv'
  BY <1>7, BlocksExecFinish
<1>8. CASE Commit
  BY <1>8, BlocksCommit
<1>9. CASE LeaveView \/ SkipView
  BY <1>9, IdleIsStill, StillStep
<1>10. ASSUME NEW lo \in Seqs, NEW hi \in 0 .. MaxSeq, NEW ds \in [lo .. hi -> Digests \cup {Null}],
              EnterView(lo, hi, ds) \/ TransferDone(TRUE, lo, hi, ds)
       PROVE  BInv'
  BY <1>10, IdleIsStill, StillStep, NoTransfers
<1>11. CASE TransferDone(FALSE, 1, 0, <<>>) \/ TransferBlockId \/ TransferEnds
  BY <1>11, NoTransfers
<1>12. CASE Crash
  BY <1>12 DEF Crash, BInv
<1>13. CASE Restart
  BY <1>13, BlocksRestart
<1> QED BY <1>1, <1>2, <1>3, <1>4, <1>5, <1>6, <1>7, <1>8, <1>9, <1>10, <1>11, <1>12, <1>13 DEF Next

(* The requests of a sequence number are applied once, in order, even when *)
(* the replica crashes while it executes them: the state sync deletes at   *)
(* the next start exactly the blocks whose number was not stored.          *)
THEOREM BlocksAreAppliedOnce == ASSUME Setup, InScope PROVE Spec => []AppliedOnce
<1>1. Init => BInv
  BY BInvInit
<1>2. BInv /\ [Next]_vars => BInv'
  BY BInvStep
<1>3. BInv => AppliedOnce
  <2> SUFFICES ASSUME BInv PROVE AppliedOnce
    OBVIOUS
  <2>1. ChainFits(chain, disk) /\ RInv /\ disk \in Storages /\ chain \in Seq(Nat)
    BY DEF BInv, RInv, StorageFits, Types
  <2>2. \A s \in Seqs : Cardinality({i \in 1 .. Len(chain) : chain[i] = s}) <= Batch
    BY <2>1 DEF ChainFits, BlocksOf
  <2>3. ASSUME up, NEW i \in 1 .. Len(chain) PROVE chain[i] <= mem.exec + 1
    <3>1. disk.exec \in Nat /\ chain[i] \in Nat
      BY <2>1, ElementOfSeq DEF Storages, Setup
    <3>2. chain[i] <= disk.exec \/ chain[i] = disk.exec + 1
      BY <2>1 DEF ChainFits
    <3>3. mem.exec = disk.exec \/ mem.exec = disk.exec + 1
      BY <2>1, <2>3 DEF BInv, RInv, Mirrors
    <3> QED BY <3>1, <3>2, <3>3
  <2> QED BY <2>1, <2>2, <2>3 DEF AppliedOnce, ChainFits
<1> QED BY <1>1, <1>2, <1>3, PTL DEF Spec

-----------------------------------------------------------------------------
(***************************************************************************)
(* The key-value blockchain, for every set of keys of the two categories,  *)
(* every kind of update and any number of blocks.                          *)
(***************************************************************************)
CONSTANTS VKeys, MKeys, Kinds, MaxBlock
VARIABLES genesis, last, log, ver, mer, pruned, trees, root, stale, lastDeleted, cache, raw,
          prunedAt, undone

Kv == INSTANCE KvBlockchain

ChainSizes == MaxBlock \in Nat \ {0} /\ Kinds \subseteq {"put", "del", "stale"}

(***************************************************************************)
(* A category c with the keys K.  U gives the updates of a block to them,  *)
(* P the last block that was there when a block was pruned, l is the last  *)
(* block and g the genesis block.                                          *)
(***************************************************************************)
CategoryTyped(c, K) ==
  /\ c = [values |-> c.values, latest |-> c.latest, active |-> c.active]
  /\ c.values \in [K -> [Kv!Blocks -> {"none", "put", "del"}]]
  /\ c.latest \in [K -> [ver : 0..MaxBlock, deleted : BOOLEAN]]
  /\ c.active \in [K -> 0..MaxBlock]

UpdatesOf(K) == [K -> {"no", "put", "del", "stale"}]
Written(x) == IF x = "no" THEN "none" ELSE IF x = "del" THEN "del" ELSE "put"

(* What is true of a category whichever blocks were deleted *)
KeysReadable(c, K, U, l, g) ==
  \A k \in K :
    /\ \A b \in 1..l : b >= g /\ U[b][k] # "no" =>
         c.values[k][b] = Written(U[b][k]) /\ c.latest[k].ver >= b
    /\ c.active[k] # 0 => c.active[k] < g /\ c.values[k][c.active[k]] = "put"

(* The newest version before b of a key with these values *)
LatestIs(row, b, v) ==
  \/ (\A x \in 1..(b - 1) : row[x] = "none") /\ v = Kv!NoVersion
  \/ \E x \in 1..(b - 1) :
       /\ row[x] # "none" /\ \A y \in (x + 1)..(b - 1) : row[y] = "none"
       /\ v = [ver |-> x, deleted |-> (row[x] = "del")]

(* Key k of the pruned block b is active. *)
KeyActive(U, P, l, g, k, b) ==
  /\ U[b][k] = "put"
  /\ \A x \in (b + 1)..l : U[x][k] # "no" => x > P[b] /\ x >= g

ValueOf(U, P, l, g, k, b) ==
  IF b > l THEN "none"
  ELSE IF b < g THEN (IF KeyActive(U, P, l, g, k, b) THEN "put" ELSE "none")
  ELSE Written(U[b][k])

KeysFollow(c, K, U, P, l, g) ==
  \A k \in K :
    /\ \A b \in Kv!Blocks : c.values[k][b] = ValueOf(U, P, l, g, k, b)
    /\ LatestIs(c.values[k], MaxBlock + 1, c.latest[k])
    /\ \A b \in Kv!Blocks : c.active[k] = b <=> b < g /\ KeyActive(U, P, l, g, k, b)

(***************************************************************************)
(* The parts of the inductive invariant                                    *)
(***************************************************************************)
VLog == [b \in Kv!Blocks |-> log[b].v]
MLog == [b \in Kv!Blocks |-> log[b].m]
SeenLast == [b \in Kv!Blocks |-> Kv!LastWhenPruned(b)]
HasLeaf(b) == Kv!Touched(log[b].m) # {}
Leaves == [kind : {"none", "whole", "active"}, keys : SUBSET MKeys]
Trees == {Kv!NoTree} \cup [Kv!Blocks -> Leaves]
Prunings == IF genesis = 0 THEN 0 ELSE genesis - 1

KvTyped ==
  /\ genesis \in 0..MaxBlock /\ last \in 0..MaxBlock /\ genesis <= last /\ (genesis = 0 => last = 0)
  /\ log = [b \in Kv!Blocks |-> log[b]]
  /\ \A b \in 1..last : /\ log[b].v \in Kv!VUpdates /\ log[b].m \in Kv!MUpdates
                        /\ log[b].version \in Nat /\ log[b].genesis \in Nat
  /\ CategoryTyped(ver, VKeys) /\ CategoryTyped(mer, MKeys)
  /\ pruned \in [Kv!Blocks -> SUBSET MKeys] /\ trees \in [Kv!Versions -> Trees]
  /\ root \in Nat /\ lastDeleted \in Nat /\ lastDeleted <= root
  /\ cache.id \in Nat /\ prunedAt \in Nat /\ undone \in BOOLEAN
  /\ raw # Kv!NoBlock =>
       raw.v \in Kv!VUpdates /\ raw.m \in Kv!MUpdates /\ raw.genesis \in genesis..last

(* Tree versions grow with the blocks that are left, and those not deleted *)
(* are there with their entries in the stale index.                        *)
VersionsGrow ==
  /\ \A b \in 1..last : b >= genesis /\ HasLeaf(b) =>
       /\ lastDeleted < log[b].version /\ log[b].version <= root
       /\ \A d \in (b + 1)..last : HasLeaf(d) => log[b].version < log[d].version
  /\ \A v \in 1..root : v >= lastDeleted => trees[v] # Kv!NoTree
  /\ \A v \in 1..root : v > lastDeleted => v \in stale

(* A version is taken by a block with leaves or by a pruning. *)
VersionsFit ==
  /\ \A x \in 0..last : (\A b \in (x + 1)..last : ~HasLeaf(b)) => root <= x + Prunings
  /\ \A d \in 1..last : HasLeaf(d) =>
       \A x \in 0..(d - 1) :
         (\A b \in (x + 1)..(d - 1) : ~HasLeaf(b)) => log[d].version <= x + 1 + Prunings

PrunedFits == \A b \in Kv!Blocks : pruned[b] = {k \in MKeys : mer.active[k] = b}

ParentsFit ==
  /\ \A b \in 2..last : b > genesis => log[b].parent = Kv!FromStorage(b - 1)
  /\ cache.id \in 1..last => cache = Kv!FromStorage(cache.id)

ReadInv ==
  /\ KvTyped /\ VersionsGrow /\ VersionsFit /\ PrunedFits /\ ParentsFit
  /\ KeysReadable(ver, VKeys, VLog, last, genesis) /\ KeysReadable(mer, MKeys, MLog, last, genesis)

(* Every block tells the genesis block of the time it was added. *)
GenesisRecorded ==
  /\ prunedAt <= last /\ genesis <= prunedAt + 1
  /\ \A x \in 1..last :
       /\ log[x].genesis <= genesis
       /\ IF x <= prunedAt THEN log[x].genesis < genesis ELSE genesis > 1 => log[x].genesis = genesis

(* Before a block added since the last pruning the leaves were the same. *)
OldTrees ==
  \A d \in 1..last : d > prunedAt /\ HasLeaf(d) =>
    \A b \in Kv!Blocks :
      Kv!LeavesAt(log[d].version - 1)[b] = IF b >= d THEN Kv!NoLeaf ELSE Kv!LeavesAt(root)[b]

LeafOf(b) ==
  IF b > last THEN Kv!NoLeaf
  ELSE IF b >= genesis
  THEN IF HasLeaf(b) THEN [kind |-> "whole", keys |-> Kv!Touched(log[b].m)] ELSE Kv!NoLeaf
  ELSE IF pruned[b] = {} THEN Kv!NoLeaf ELSE [kind |-> "active", keys |-> pruned[b]]

ChainInv ==
  undone \/ /\ GenesisRecorded /\ OldTrees
            /\ KeysFollow(ver, VKeys, VLog, SeenLast, last, genesis)
            /\ KeysFollow(mer, MKeys, MLog, SeenLast, last, genesis)
            /\ \A b \in Kv!Blocks : Kv!LeavesAt(root)[b] = LeafOf(b)

(* A non-empty set of natural numbers has a least element, and a greatest  *)
(* one if it has a bound.                                                  *)
LEMMA LeastNat ==
  ASSUME NEW S \in SUBSET Nat, S # {}
  PROVE  \E x \in S : \A y \in S : x <= y
<1> DEFINE R == OpToRel(<, Nat)
<1>1. IsWellFoundedOn(R, Nat)
  BY NatLessThanWellFounded
<1>2. PICK x \in S : \A y \in S : ~(<<y, x>> \in R)
  <2> HIDE DEF R
  <2> QED BY <1>1, WFMin
<1>3. \A y \in S : ~(y < x)
  BY <1>2 DEF OpToRel
<1> QED BY <1>3

LEMMA GreatestNat ==
  ASSUME NEW b \in Nat, NEW S \in SUBSET (0..b), S # {}
  PROVE  \E x \in S : \A y \in S : x >= y
<1> DEFINE T == {n \in 0..b : b - n \in S}
<1>1. T \in SUBSET Nat /\ T # {}
  <2>1. PICK x \in S : TRUE
    OBVIOUS
  <2>2. b - x \in T
    BY <2>1
  <2> QED BY <2>2
<1>2. PICK n \in T : \A m \in T : n <= m
  <2> HIDE DEF T
  <2> QED BY <1>1, LeastNat
<1>3. ASSUME NEW y \in S
      PROVE  n <= b - y
  <2>1. b - y \in 0..b /\ b - (b - y) = y
    OBVIOUS
  <2>2. b - y \in T
    BY <2>1
  <2> HIDE DEF T
  <2> QED BY <1>2, <2>2
<1>4. n \in 0..b /\ b - n \in S
  OBVIOUS
<1>5. \A y \in S : b - n >= y
  <2> HIDE DEF T
  <2> QED BY <1>3, <1>4
<1> QED BY <1>4, <1>5

(***************************************************************************)
(* What the operations do to a category                                    *)
(***************************************************************************)
LEMMA CategoryIs ==
  ASSUME NEW K, NEW c, CategoryTyped(c, K), NEW k \in K
  PROVE  /\ c.values[k] \in [Kv!Blocks -> {"none", "put", "del"}]
         /\ c.latest[k] \in [ver : 0..MaxBlock, deleted : BOOLEAN]
         /\ c.latest[k].ver \in 0..MaxBlock /\ c.active[k] \in 0..MaxBlock
BY DEF CategoryTyped

LEMMA AddIs ==
  ASSUME ChainSizes, NEW K, NEW c, CategoryTyped(c, K), NEW u \in UpdatesOf(K), NEW n \in Kv!Blocks
  PROVE  LET d == Kv!Add(c, n, u)
         IN  /\ CategoryTyped(d, K) /\ d.active = c.active
             /\ \A k \in K :
                  /\ u[k] = "no" => d.values[k] = c.values[k] /\ d.latest[k] = c.latest[k]
                  /\ u[k] # "no" => /\ d.values[k] = [c.values[k] EXCEPT ![n] = Written(u[k])]
                                    /\ d.latest[k] = [ver |-> n, deleted |-> (u[k] = "del")]
<1> DEFINE d == Kv!Add(c, n, u)
           vs == [k \in K |-> IF u[k] = "no" THEN c.values[k]
                              ELSE [c.values[k] EXCEPT ![n] = Written(u[k])]]
           ls == [k \in K |-> IF u[k] = "no" THEN c.latest[k]
                              ELSE [ver |-> n, deleted |-> (u[k] = "del")]]
<1>0. DOMAIN u = K /\ n \in 0..MaxBlock
  BY DEF UpdatesOf, Kv!Blocks, ChainSizes
<1>1. c = [values |-> c.values, latest |-> c.latest, active |-> c.active]
  BY DEF CategoryTyped
<1>2. \A k \in K : u[k] # "no" => Written(u[k]) = IF u[k] = "del" THEN "del" ELSE "put"
  BY DEF Written
<1>3. d = [c EXCEPT !.values = vs, !.latest = ls]
  BY <1>0, <1>2 DEF Kv!Add
<1> HIDE DEF d
<1>4. d = [values |-> vs, latest |-> ls, active |-> c.active]
  BY <1>1, <1>3
<1>5. vs \in [K -> [Kv!Blocks -> {"none", "put", "del"}]]
  <2>1. \A k \in K : c.values[k] \in [Kv!Blocks -> {"none", "put", "del"}]
    BY CategoryIs
  <2>2. \A k \in K : Written(u[k]) \in {"none", "put", "del"}
    BY DEF Written
  <2> QED BY <2>1, <2>2
<1>6. ls \in [K -> [ver : 0..MaxBlock, deleted : BOOLEAN]]
  <2>1. \A k \in K : c.latest[k] \in [ver : 0..MaxBlock, deleted : BOOLEAN]
    BY CategoryIs
  <2> QED BY <1>0, <2>1
<1>7. CategoryTyped(d, K) /\ d.values = vs /\ d.latest = ls /\ d.active = c.active
  <2>1. c.active \in [K -> 0..MaxBlock]
    BY DEF CategoryTyped
  <2> HIDE DEF vs, ls
  <2> QED BY <1>4, <1>5, <1>6, <2>1 DEF CategoryTyped
<1> QED BY <1>7 DEF d

(* The version before b *)
LEMMA PreviousIs ==
  ASSUME ChainSizes, NEW K, NEW c, CategoryTyped(c, K), NEW k \in K, NEW b \in 1..MaxBlock + 1
  PROVE  /\ LatestIs(c.values[k], b, Kv!Previous(c, k, b))
         /\ \A v : LatestIs(c.values[k], b, v) => v = Kv!Previous(c, k, b)
<1> DEFINE row == c.values[k]
           found == {v \in 1..(b - 1) : row[v] # "none"}
<1>0. b \in Nat /\ b - 1 \in Nat /\ MaxBlock \in Nat
  BY DEF ChainSizes
<1>1. CASE found = {}
  <2>1. Kv!Previous(c, k, b) = Kv!NoVersion
    BY <1>1 DEF Kv!Previous
  <2>2. \A x \in 1..(b - 1) : row[x] = "none"
    BY <1>1
  <2> HIDE DEF row
  <2>3. LatestIs(row, b, Kv!NoVersion) /\ \A v : LatestIs(row, b, v) => v = Kv!NoVersion
    BY <2>2 DEF LatestIs
  <2> QED BY <2>1, <2>3 DEF row
<1>2. CASE found # {}
  <2>1. found \subseteq 1..(b - 1)
    OBVIOUS
  <2>2. \E x \in found : \A y \in found : x >= y
    <3> HIDE DEF found
    <3>1. found \in SUBSET (0..b)
      BY <1>0, <2>1
    <3> QED BY <1>0, <1>2, <3>1, GreatestNat
  <2>3. Kv!Max(found) \in found /\ \A y \in found : Kv!Max(found) >= y
    BY <2>2 DEF Kv!Max
  <2>4. PICK m \in 1..(b - 1) : m = Kv!Max(found)
    BY <2>1, <2>3
  <2>5. row[m] # "none" /\ \A y \in (m + 1)..(b - 1) : row[y] = "none"
    <3>1. m \in found /\ \A y \in found : m >= y
      BY <2>3, <2>4
    <3>2. \A y \in 1..(b - 1) : row[y] # "none" => m >= y
      BY <3>1
    <3>3. \A y \in (m + 1)..(b - 1) : y \in 1..(b - 1) /\ ~(m >= y)
      BY <1>0
    <3>4. row[m] # "none"
      BY <3>1
    <3> QED BY <3>2, <3>3, <3>4
  <2>6. Kv!Previous(c, k, b) = [ver |-> m, deleted |-> (row[m] = "del")]
    BY <1>2, <2>4 DEF Kv!Previous
  <2> HIDE DEF row
  <2>7. ASSUME NEW v, LatestIs(row, b, v)
        PROVE  v = Kv!Previous(c, k, b)
    <3>1. ~(\A x \in 1..(b - 1) : row[x] = "none")
      BY <2>4, <2>5
    <3>2. PICK x \in 1..(b - 1) : /\ row[x] # "none" /\ \A y \in (x + 1)..(b - 1) : row[y] = "none"
                                  /\ v = [ver |-> x, deleted |-> (row[x] = "del")]
      BY <2>7, <3>1 DEF LatestIs
    <3>3. x = m
      BY <1>0, <2>5, <3>2
    <3> QED BY <2>6, <3>2, <3>3
  <2>8. LatestIs(row, b, Kv!Previous(c, k, b))
    BY <2>4, <2>5, <2>6 DEF LatestIs
  <2> QED BY <2>7, <2>8 DEF row
<1> QED BY <1>1, <1>2

LEMMA DeleteLastIs ==
  ASSUME ChainSizes, NEW K, NEW c, CategoryTyped(c, K), NEW u \in UpdatesOf(K), NEW n \in Kv!Blocks
  PROVE  LET d == Kv!DeleteLastReachable(c, n, u)
         IN  /\ CategoryTyped(d, K) /\ d.active = c.active
             /\ \A k \in K :
                  /\ u[k] = "no" => d.values[k] = c.values[k] /\ d.latest[k] = c.latest[k]
                  /\ u[k] # "no" => /\ d.values[k] = [c.values[k] EXCEPT ![n] = "none"]
                                    /\ d.latest[k] = Kv!Previous(c, k, n)
<1> DEFINE d == Kv!DeleteLastReachable(c, n, u)
           vs == [k \in K |-> IF u[k] = "no" THEN c.values[k] ELSE [c.values[k] EXCEPT ![n] = "none"]]
           ls == [k \in K |-> IF u[k] = "no" THEN c.latest[k] ELSE Kv!Previous(c, k, n)]
<1>0. DOMAIN u = K /\ n \in 1..MaxBlock /\ MaxBlock \in Nat
  BY DEF UpdatesOf, Kv!Blocks, ChainSizes
<1>1. c = [values |-> c.values, latest |-> c.latest, active |-> c.active]
  BY DEF CategoryTyped
<1>3. d = [c EXCEPT !.values = vs, !.latest = ls]
  BY <1>0 DEF Kv!DeleteLastReachable
<1> HIDE DEF d
<1>4. d = [values |-> vs, latest |-> ls, active |-> c.active]
  BY <1>1, <1>3
<1>5. vs \in [K -> [Kv!Blocks -> {"none", "put", "del"}]]
  <2>1. \A k \in K : c.values[k] \in [Kv!Blocks -> {"none", "put", "del"}]
    BY CategoryIs
  <2> QED BY <2>1
<1>6. ls \in [K -> [ver : 0..MaxBlock, deleted : BOOLEAN]]
  <2>1. \A k \in K : c.latest[k] \in [ver : 0..MaxBlock, deleted : BOOLEAN]
    BY CategoryIs
  <2>2. ASSUME NEW k \in K PROVE Kv!Previous(c, k, n) \in [ver : 0..MaxBlock, deleted : BOOLEAN]
    <3>1. n \in 1..MaxBlock + 1
      BY <1>0
    <3>2. LatestIs(c.values[k], n, Kv!Previous(c, k, n))
      BY <3>1, PreviousIs
    <3>3. Kv!NoVersion \in [ver : 0..MaxBlock, deleted : BOOLEAN]
      BY <1>0 DEF Kv!NoVersion
    <3>4. \A x \in 1..(n - 1) : x \in 0..MaxBlock
      BY <1>0
    <3>5. CASE Kv!Previous(c, k, n) = Kv!NoVersion
      BY <3>3, <3>5
    <3>6. CASE Kv!Previous(c, k, n) # Kv!NoVersion
      <4>1. PICK x \in 1..(n - 1) :
              Kv!Previous(c, k, n) = [ver |-> x, deleted |-> (c.values[k][x] = "del")]
        BY <3>2, <3>6 DEF LatestIs
      <4>2. (c.values[k][x] = "del") \in BOOLEAN
        OBVIOUS
      <4> QED BY <3>4, <4>1, <4>2
    <3> QED BY <3>5, <3>6
  <2> QED BY <2>1, <2>2
<1>7. CategoryTyped(d, K) /\ d.values = vs /\ d.latest = ls /\ d.active = c.active
  <2>1. c.active \in [K -> 0..MaxBlock]
    BY DEF CategoryTyped
  <2> HIDE DEF vs, ls
  <2> QED BY <1>4, <1>5, <1>6, <2>1 DEF CategoryTyped
<1> QED BY <1>7 DEF d

LEMMA DeleteGenesisIs ==
  ASSUME ChainSizes, NEW K, NEW c, CategoryTyped(c, K), NEW u \in UpdatesOf(K), NEW n \in Kv!Blocks
  PROVE  LET d == Kv!DeleteGenesis(c, n, u)
         IN  /\ CategoryTyped(d, K)
             /\ \A k \in K :
                  /\ u[k] = "no" => /\ d.values[k] = c.values[k] /\ d.latest[k] = c.latest[k]
                                    /\ d.active[k] = c.active[k]
                  /\ u[k] # "no" =>
                       /\ \A b \in Kv!Blocks : d.values[k][b] =
                            IF b = c.active[k] \/ (b = n /\ Kv!Inactive(c, k, n, u)) THEN "none"
                            ELSE c.values[k][b]
                       /\ d.latest[k] = IF Kv!Inactive(c, k, n, u) /\ c.latest[k].ver = n
                                        THEN Kv!NoVersion ELSE c.latest[k]
                       /\ d.active[k] = IF Kv!Inactive(c, k, n, u) THEN 0 ELSE n
<1> DEFINE d == Kv!DeleteGenesis(c, n, u)
           gone(k) == IF Kv!Inactive(c, k, n, u) THEN {n} ELSE {}
           vs == [k \in K |-> IF u[k] = "no" THEN c.values[k]
                              ELSE Kv!Deleted(c.values[k], {c.active[k]} \cup gone(k))]
           ls == [k \in K |-> IF u[k] # "no" /\ Kv!Inactive(c, k, n, u) /\ c.latest[k].ver = n
                              THEN Kv!NoVersion ELSE c.latest[k]]
           as == [k \in K |-> IF u[k] = "no" THEN c.active[k]
                              ELSE IF Kv!Inactive(c, k, n, u) THEN 0 ELSE n]
<1>0. DOMAIN u = K /\ n \in 1..MaxBlock /\ MaxBlock \in Nat
  BY DEF UpdatesOf, Kv!Blocks, ChainSizes
<1>1. d = [values |-> vs, latest |-> ls, active |-> as]
  BY <1>0 DEF Kv!DeleteGenesis
<1>2. vs \in [K -> [Kv!Blocks -> {"none", "put", "del"}]]
  <2>1. \A k \in K : c.values[k] \in [Kv!Blocks -> {"none", "put", "del"}]
    BY CategoryIs
  <2> HIDE DEF gone
  <2>2. \A k \in K : Kv!Deleted(c.values[k], {c.active[k]} \cup gone(k))
                       \in [Kv!Blocks -> {"none", "put", "del"}]
    BY <2>1 DEF Kv!Deleted
  <2> QED BY <2>1, <2>2
<1>3. ls \in [K -> [ver : 0..MaxBlock, deleted : BOOLEAN]]
  <2>1. \A k \in K : c.latest[k] \in [ver : 0..MaxBlock, deleted : BOOLEAN]
    BY CategoryIs
  <2>2. Kv!NoVersion \in [ver : 0..MaxBlock, deleted : BOOLEAN]
    BY <1>0 DEF Kv!NoVersion
  <2> QED BY <2>1, <2>2
<1>4. as \in [K -> 0..MaxBlock]
  <2>1. \A k \in K : c.active[k] \in 0..MaxBlock
    BY CategoryIs
  <2>2. 0 \in 0..MaxBlock /\ n \in 0..MaxBlock
    BY <1>0
  <2> QED BY <2>1, <2>2
<1>5. CategoryTyped(d, K) /\ d.values = vs /\ d.latest = ls /\ d.active = as
  <2> HIDE DEF vs, ls, as, d
  <2> QED BY <1>1, <1>2, <1>3, <1>4 DEF CategoryTyped
<1>6. ASSUME NEW k \in K, u[k] # "no", NEW b \in Kv!Blocks
      PROVE  vs[k][b] = IF b = c.active[k] \/ (b = n /\ Kv!Inactive(c, k, n, u)) THEN "none"
                        ELSE c.values[k][b]
  <2>1. b \in {c.active[k]} \cup gone(k) <=> b = c.active[k] \/ (b = n /\ Kv!Inactive(c, k, n, u))
    OBVIOUS
  <2>2. vs[k] = Kv!Deleted(c.values[k], {c.active[k]} \cup gone(k))
    BY <1>6
  <2> HIDE DEF vs, gone
  <2> QED BY <2>1, <2>2 DEF Kv!Deleted
<1> HIDE DEF d
<1>7. \A k \in K : u[k] = "no" => vs[k] = c.values[k] /\ ls[k] = c.latest[k] /\ as[k] = c.active[k]
  OBVIOUS
<1>8. \A k \in K : u[k] # "no" =>
        /\ ls[k] = IF Kv!Inactive(c, k, n, u) /\ c.latest[k].ver = n THEN Kv!NoVersion ELSE c.latest[k]
        /\ as[k] = IF Kv!Inactive(c, k, n, u) THEN 0 ELSE n
  OBVIOUS
<1> HIDE DEF vs, ls, as
<1> QED BY <1>5, <1>6, <1>7, <1>8 DEF d

(***************************************************************************)
(* The keys of the blocks that are left can be read.                       *)
(***************************************************************************)
LEMMA ReadableAdd ==
  ASSUME ChainSizes, NEW K, NEW c, CategoryTyped(c, K), NEW U, NEW V, NEW l \in Nat, l + 1 \in Kv!Blocks,
         NEW g \in 0..l, NEW h \in {g, 1}, g <= h, NEW u \in UpdatesOf(K),
         \A b \in 1..l : V[b] = U[b], V[l + 1] = u, KeysReadable(c, K, U, l, g)
  PROVE  KeysReadable(Kv!Add(c, l + 1, u), K, V, l + 1, h)
<1> DEFINE d == Kv!Add(c, l + 1, u)
<1>1. /\ d.active = c.active
      /\ \A k \in K :
           /\ u[k] = "no" => d.values[k] = c.values[k] /\ d.latest[k] = c.latest[k]
           /\ u[k] # "no" => /\ d.values[k] = [c.values[k] EXCEPT ![l + 1] = Written(u[k])]
                             /\ d.latest[k] = [ver |-> l + 1, deleted |-> (u[k] = "del")]
  BY AddIs
<1> HIDE DEF d
<1> SUFFICES ASSUME NEW k \in K
             PROVE  /\ \A b \in 1..(l + 1) : b >= h /\ V[b][k] # "no" =>
                         d.values[k][b] = Written(V[b][k]) /\ d.latest[k].ver >= b
                    /\ d.active[k] # 0 => d.active[k] < h /\ d.values[k][d.active[k]] = "put"
  BY DEF KeysReadable, d
<1>2. /\ \A b \in 1..l : b >= g /\ U[b][k] # "no" =>
           c.values[k][b] = Written(U[b][k]) /\ c.latest[k].ver >= b
      /\ c.active[k] # 0 => c.active[k] < g /\ c.values[k][c.active[k]] = "put"
  BY DEF KeysReadable
<1>t. /\ c.values[k] \in [Kv!Blocks -> {"none", "put", "del"}] /\ c.active[k] \in Nat
      /\ MaxBlock \in Nat /\ Kv!Blocks = 1..MaxBlock
  BY CategoryIs DEF ChainSizes, Kv!Blocks
<1>v. u[k] # "no" => d.latest[k].ver = l + 1
  <2>1. u[k] # "no" => d.latest[k] = [ver |-> l + 1, deleted |-> (u[k] = "del")]
    BY <1>1
  <2>2. \A x : [ver |-> l + 1, deleted |-> x].ver = l + 1
    OBVIOUS
  <2> QED BY <2>1, <2>2
<1>w. u[k] = "no" => d.latest[k].ver = c.latest[k].ver
  BY <1>1, Zenon
<1>3. ASSUME NEW b \in 1..l PROVE d.values[k][b] = c.values[k][b]
  <2>1. b \in Kv!Blocks /\ b # l + 1
    BY <1>t
  <2> QED BY <1>1, <1>t, <2>1
<1>4. ASSUME NEW b \in 1..(l + 1), b >= h, V[b][k] # "no"
      PROVE  d.values[k][b] = Written(V[b][k]) /\ d.latest[k].ver >= b
  <2>1. CASE b = l + 1
    <3>1. d.values[k][l + 1] = Written(u[k])
      BY <1>1, <1>4, <1>t, <2>1
    <3>2. d.latest[k].ver = l + 1
      BY <1>v, <1>4, <2>1
    <3> QED BY <2>1, <3>1, <3>2
  <2>2. CASE b # l + 1
    <3>1. b \in 1..l /\ b >= g
      BY <1>4, <2>2
    <3>2. c.values[k][b] = Written(V[b][k]) /\ c.latest[k].ver >= b
      BY <1>2, <1>4, <3>1
    <3>3. d.latest[k].ver >= b
      BY <1>v, <1>w, <3>1, <3>2
    <3> QED BY <1>3, <3>1, <3>2, <3>3
  <2> QED BY <2>1, <2>2
<1>5. ASSUME d.active[k] # 0 PROVE d.active[k] < h /\ d.values[k][d.active[k]] = "put"
  <2>1. c.active[k] # 0 /\ c.active[k] < g /\ c.values[k][c.active[k]] = "put"
    BY <1>1, <1>2, <1>5
  <2>2. c.active[k] \in 1..l /\ c.active[k] < h
    BY <1>t, <2>1
  <2> QED BY <1>1, <1>3, <2>1, <2>2
<1> QED BY <1>4, <1>5

LEMMA ReadableDeleteGenesis ==
  ASSUME ChainSizes, NEW K, NEW c, CategoryTyped(c, K), NEW U, NEW l \in Kv!Blocks,
         NEW g \in 1..l, U[g] \in UpdatesOf(K), KeysReadable(c, K, U, l, g)
  PROVE  KeysReadable(Kv!DeleteGenesis(c, g, U[g]), K, U, l, g + 1)
<1> DEFINE d == Kv!DeleteGenesis(c, g, U[g])
           u == U[g]
<1>t. MaxBlock \in Nat /\ Kv!Blocks = 1..MaxBlock /\ g \in Kv!Blocks
  BY DEF ChainSizes, Kv!Blocks
<1>1. \A k \in K :
        /\ u[k] = "no" => /\ d.values[k] = c.values[k] /\ d.latest[k] = c.latest[k]
                          /\ d.active[k] = c.active[k]
        /\ u[k] # "no" =>
             /\ \A b \in Kv!Blocks : d.values[k][b] =
                  IF b = c.active[k] \/ (b = g /\ Kv!Inactive(c, k, g, u)) THEN "none"
                  ELSE c.values[k][b]
             /\ d.latest[k] = IF Kv!Inactive(c, k, g, u) /\ c.latest[k].ver = g
                              THEN Kv!NoVersion ELSE c.latest[k]
             /\ d.active[k] = IF Kv!Inactive(c, k, g, u) THEN 0 ELSE g
  <2>1. g \in Kv!Blocks
    BY <1>t
  <2>2. u \in UpdatesOf(K)
    OBVIOUS
  <2>3. d = Kv!DeleteGenesis(c, g, u)
    OBVIOUS
  <2> HIDE DEF d, u
  <2> QED BY <2>1, <2>2, <2>3, DeleteGenesisIs, SMTT(40)
<1> HIDE DEF d
<1> SUFFICES ASSUME NEW k \in K
             PROVE  /\ \A b \in 1..l : b >= g + 1 /\ U[b][k] # "no" =>
                         d.values[k][b] = Written(U[b][k]) /\ d.latest[k].ver >= b
                    /\ d.active[k] # 0 => d.active[k] < g + 1 /\ d.values[k][d.active[k]] = "put"
  BY DEF KeysReadable, d
<1>2. /\ \A b \in 1..l : b >= g /\ U[b][k] # "no" =>
           c.values[k][b] = Written(U[b][k]) /\ c.latest[k].ver >= b
      /\ c.active[k] # 0 => c.active[k] < g /\ c.values[k][c.active[k]] = "put"
  BY DEF KeysReadable
<1>c. c.active[k] \in Nat /\ c.latest[k].ver \in Nat
  BY CategoryIs, <1>t
<1> HIDE DEF u
<1>3. ASSUME NEW b \in 1..l, b >= g + 1, U[b][k] # "no"
      PROVE  d.values[k][b] = Written(U[b][k]) /\ d.latest[k].ver >= b
  <2>1. c.values[k][b] = Written(U[b][k]) /\ c.latest[k].ver >= b
    BY <1>2, <1>3
  <2>2. b # c.active[k] /\ b # g /\ b \in Kv!Blocks /\ c.latest[k].ver # g
    BY <1>2, <1>3, <1>c, <1>t, <2>1
  <2> QED BY <1>1, <2>1, <2>2
<1>4. ASSUME d.active[k] # 0 PROVE d.active[k] < g + 1 /\ d.values[k][d.active[k]] = "put"
  <2>1. CASE u[k] = "no"
    <3>1. c.active[k] # 0 /\ c.active[k] < g /\ c.values[k][c.active[k]] = "put"
      BY <1>1, <1>2, <1>4, <2>1
    <3>2. c.active[k] < g + 1
      BY <1>c, <3>1
    <3> QED BY <1>1, <2>1, <3>1, <3>2
  <2>2. CASE u[k] # "no"
    <3>1. ~Kv!Inactive(c, k, g, u) /\ d.active[k] = g
      BY <1>1, <1>4, <2>2
    <3>2. c.values[k][g] = Written(u[k]) /\ c.latest[k].ver >= g
      BY <1>2, <2>2 DEF u
    <3>3. u[k] # "stale" /\ ~(u[k] = "del" /\ c.latest[k].ver = g) /\ ~(c.latest[k].ver > g)
      BY <3>1 DEF Kv!Inactive
    <3>4. u[k] # "del"
      BY <1>c, <3>2, <3>3
    <3>5. c.values[k][g] = "put"
      BY <2>2, <3>2, <3>4 DEF Written
    <3>6. g # c.active[k]
      BY <1>2, <1>c
    <3> QED BY <1>1, <1>t, <2>2, <3>1, <3>5, <3>6
  <2> QED BY <2>1, <2>2
<1> QED BY <1>3, <1>4

LEMMA ReadableDeleteLast ==
  ASSUME ChainSizes, NEW K, NEW c, CategoryTyped(c, K), NEW U, NEW V, NEW l \in Kv!Blocks,
         NEW g \in 1..(l - 1), U[l] \in UpdatesOf(K), \A b \in 1..(l - 1) : V[b] = U[b],
         KeysReadable(c, K, U, l, g)
  PROVE  KeysReadable(Kv!DeleteLastReachable(c, l, U[l]), K, V, l - 1, g)
<1> DEFINE d == Kv!DeleteLastReachable(c, l, U[l])
           u == U[l]
<1>t. MaxBlock \in Nat /\ Kv!Blocks = 1..MaxBlock /\ l \in 1..MaxBlock + 1 /\ l \in Nat
  BY DEF ChainSizes, Kv!Blocks
<1>1. /\ d.active = c.active
      /\ \A k \in K :
           /\ u[k] = "no" => d.values[k] = c.values[k] /\ d.latest[k] = c.latest[k]
           /\ u[k] # "no" => /\ d.values[k] = [c.values[k] EXCEPT ![l] = "none"]
                             /\ d.latest[k] = Kv!Previous(c, k, l)
  BY DeleteLastIs
<1> HIDE DEF d
<1> SUFFICES ASSUME NEW k \in K
             PROVE  /\ \A b \in 1..(l - 1) : b >= g /\ V[b][k] # "no" =>
                         d.values[k][b] = Written(V[b][k]) /\ d.latest[k].ver >= b
                    /\ d.active[k] # 0 => d.active[k] < g /\ d.values[k][d.active[k]] = "put"
  BY DEF KeysReadable, d
<1>2. /\ \A b \in 1..l : b >= g /\ U[b][k] # "no" =>
           c.values[k][b] = Written(U[b][k]) /\ c.latest[k].ver >= b
      /\ c.active[k] # 0 => c.active[k] < g /\ c.values[k][c.active[k]] = "put"
  BY DEF KeysReadable
<1>c. c.active[k] \in Nat /\ c.values[k] \in [Kv!Blocks -> {"none", "put", "del"}]
  BY CategoryIs, <1>t
<1> HIDE DEF u
<1>3. ASSUME NEW b \in 1..(l - 1) PROVE d.values[k][b] = c.values[k][b]
  <2>1. b \in Kv!Blocks /\ b # l
    BY <1>t
  <2> QED BY <1>1, <1>c, <2>1
<1>4. ASSUME NEW b \in 1..(l - 1), b >= g, V[b][k] # "no"
      PROVE  d.values[k][b] = Written(V[b][k]) /\ d.latest[k].ver >= b
  <2>1. b \in 1..l /\ V[b] = U[b]
    BY <1>t
  <2>2. c.values[k][b] = Written(V[b][k]) /\ c.latest[k].ver >= b
    BY <1>2, <1>4, <2>1
  <2>3. c.values[k][b] # "none"
    BY <1>4, <2>2 DEF Written
  <2>4. LatestIs(c.values[k], l, Kv!Previous(c, k, l))
    BY <1>t, PreviousIs
  <2>5. Kv!Previous(c, k, l).ver >= b
    <3>1. PICK x \in 1..(l - 1) : /\ \A y \in (x + 1)..(l - 1) : c.values[k][y] = "none"
                                  /\ Kv!Previous(c, k, l) = [ver |-> x, deleted |-> (c.values[k][x] = "del")]
      BY <2>3, <2>4 DEF LatestIs
    <3>2. ~(b > x)
      BY <1>t, <2>3, <3>1
    <3>3. x >= b
      BY <1>t, <3>2
    <3> QED BY <3>1, <3>3
  <2> QED BY <1>1, <1>3, <2>2, <2>5
<1>5. ASSUME d.active[k] # 0 PROVE d.active[k] < g /\ d.values[k][d.active[k]] = "put"
  <2>1. c.active[k] # 0 /\ c.active[k] < g /\ c.values[k][c.active[k]] = "put"
    BY <1>1, <1>2, <1>5
  <2>2. c.active[k] \in 1..(l - 1)
    BY <1>c, <1>t, <2>1
  <2> QED BY <1>1, <1>3, <2>1, <2>2
<1> QED BY <1>4, <1>5

(***************************************************************************)
(* The keys follow the blocks.                                             *)
(***************************************************************************)
LEMMA FollowOne ==
  ASSUME NEW K, NEW c, NEW U, NEW P, NEW l, NEW g, KeysFollow(c, K, U, P, l, g), NEW k \in K
  PROVE  /\ \A b \in Kv!Blocks : c.values[k][b] = ValueOf(U, P, l, g, k, b)
         /\ LatestIs(c.values[k], MaxBlock + 1, c.latest[k])
         /\ \A b \in Kv!Blocks : c.active[k] = b <=> b < g /\ KeyActive(U, P, l, g, k, b)
BY DEF KeysFollow

LEMMA WrittenIs ==
  /\ Written("no") = "none" /\ Written("put") = "put" /\ Written("del") = "del"
  /\ Written("stale") = "put"
  /\ \A x : x # "no" => Written(x) # "none" /\ (Written(x) = "del" <=> x = "del")
BY DEF Written

LEMMA LatestNone ==
  ASSUME NEW row, NEW b, \A x \in 1..(b - 1) : row[x] = "none"
  PROVE  LatestIs(row, b, Kv!NoVersion)
BY DEF LatestIs

LEMMA LatestSome ==
  ASSUME NEW row, NEW b, NEW x \in 1..(b - 1), row[x] # "none",
         \A y \in (x + 1)..(b - 1) : row[y] = "none",
         NEW v, v = [ver |-> x, deleted |-> (row[x] = "del")]
  PROVE  LatestIs(row, b, v)
BY Zenon DEF LatestIs

LEMMA FollowAdd ==
  ASSUME ChainSizes, NEW K, NEW c, CategoryTyped(c, K), NEW U, NEW V, NEW P, NEW Q,
         NEW l \in Nat, l + 1 \in Kv!Blocks, NEW g \in 0..l, NEW h \in {g, 1}, g <= h,
         NEW u \in UpdatesOf(K), \A b \in 1..l : V[b] = U[b], V[l + 1] = u,
         \A b \in 1..l : b < g => Q[b] = P[b] /\ P[b] \in Nat /\ P[b] <= l,
         KeysFollow(c, K, U, P, l, g)
  PROVE  KeysFollow(Kv!Add(c, l + 1, u), K, V, Q, l + 1, h)
<1> DEFINE d == Kv!Add(c, l + 1, u)
<1>1. /\ d.active = c.active
      /\ \A k \in K :
           /\ u[k] = "no" => d.values[k] = c.values[k] /\ d.latest[k] = c.latest[k]
           /\ u[k] # "no" => /\ d.values[k] = [c.values[k] EXCEPT ![l + 1] = Written(u[k])]
                             /\ d.latest[k] = [ver |-> l + 1, deleted |-> (u[k] = "del")]
  BY AddIs
<1> HIDE DEF d
<1> SUFFICES ASSUME NEW k \in K
             PROVE  /\ \A b \in Kv!Blocks : d.values[k][b] = ValueOf(V, Q, l + 1, h, k, b)
                    /\ LatestIs(d.values[k], MaxBlock + 1, d.latest[k])
                    /\ \A b \in Kv!Blocks : d.active[k] = b <=> b < h /\ KeyActive(V, Q, l + 1, h, k, b)
  BY DEF KeysFollow, d
<1>2. /\ \A b \in Kv!Blocks : c.values[k][b] = ValueOf(U, P, l, g, k, b)
      /\ LatestIs(c.values[k], MaxBlock + 1, c.latest[k])
      /\ \A b \in Kv!Blocks : c.active[k] = b <=> b < g /\ KeyActive(U, P, l, g, k, b)
  BY FollowOne
<1>t. /\ c.values[k] \in [Kv!Blocks -> {"none", "put", "del"}]
      /\ MaxBlock \in Nat /\ Kv!Blocks = 1..MaxBlock
  BY CategoryIs DEF ChainSizes, Kv!Blocks
<1>h. \A b \in Kv!Blocks : b < h <=> b < g
  BY <1>t
<1>3. /\ \A b \in Kv!Blocks : b # l + 1 => d.values[k][b] = c.values[k][b]
      /\ u[k] # "no" => d.values[k][l + 1] = Written(u[k])
      /\ u[k] = "no" => d.values[k][l + 1] = c.values[k][l + 1]
  BY <1>1, <1>t
<1>4. ASSUME NEW b \in Kv!Blocks, b < g
      PROVE  KeyActive(V, Q, l + 1, h, k, b) <=> KeyActive(U, P, l, g, k, b)
  <2>1. b \in 1..l /\ V[b] = U[b] /\ Q[b] = P[b] /\ P[b] \in Nat /\ P[b] <= l
    BY <1>4, <1>t
  <2>2. \A x \in (b + 1)..l : V[x] = U[x] /\ x \in (b + 1)..(l + 1) /\ (x >= h <=> x >= g)
    BY <2>1
  <2>3. \A x \in (b + 1)..(l + 1) : x \in (b + 1)..l \/ (x > P[b] /\ x >= h)
    BY <2>1
  <2> QED BY <2>1, <2>2, <2>3 DEF KeyActive
<1>5. ASSUME NEW b \in Kv!Blocks PROVE d.values[k][b] = ValueOf(V, Q, l + 1, h, k, b)
  <2>1. CASE b > l + 1
    <3>1. b > l /\ b # l + 1
      BY <1>t, <2>1
    <3> QED BY <1>2, <1>3, <2>1, <3>1 DEF ValueOf
  <2>2. CASE b = l + 1
    <3>1. ~(b > l + 1) /\ ~(b < h) /\ b > l
      BY <2>2
    <3>2. ValueOf(V, Q, l + 1, h, k, b) = Written(u[k]) /\ ValueOf(U, P, l, g, k, b) = "none"
      BY <2>2, <3>1 DEF ValueOf
    <3> QED BY <1>2, <1>3, <2>2, <3>2, WrittenIs
  <2>3. CASE b < l + 1
    <3>1. b \in 1..l /\ ~(b > l + 1) /\ ~(b > l) /\ b # l + 1 /\ (b < h <=> b < g) /\ V[b] = U[b]
      BY <1>h, <1>t, <2>3
    <3>2. ValueOf(V, Q, l + 1, h, k, b) = ValueOf(U, P, l, g, k, b)
      BY <1>4, <3>1 DEF ValueOf
    <3> QED BY <1>2, <1>3, <3>1, <3>2
  <2> QED BY <1>t, <2>1, <2>2, <2>3
<1>6. LatestIs(d.values[k], MaxBlock + 1, d.latest[k])
  <2>1. CASE u[k] = "no"
    BY <1>1, <1>2, <2>1
  <2>2. CASE u[k] # "no"
    <3>1. \A y \in (l + 1 + 1)..(MaxBlock + 1 - 1) : d.values[k][y] = "none"
      <4> TAKE y \in (l + 1 + 1)..(MaxBlock + 1 - 1)
      <4>1. y \in Kv!Blocks /\ y # l + 1 /\ y > l
        BY <1>t
      <4> QED BY <1>2, <1>3, <4>1 DEF ValueOf
    <3>2. d.values[k][l + 1] = Written(u[k]) /\ Written(u[k]) # "none"
      BY <1>3, <2>2, WrittenIs
    <3>3. d.latest[k] = [ver |-> l + 1, deleted |-> (d.values[k][l + 1] = "del")]
      <4>1. d.values[k][l + 1] = "del" <=> u[k] = "del"
        BY <2>2, <3>2, WrittenIs
      <4>2. (d.values[k][l + 1] = "del") = (u[k] = "del")
        BY <4>1
      <4> QED BY <1>1, <2>2, <4>2
    <3>4. l + 1 \in 1..(MaxBlock + 1 - 1)
      BY <1>t
    <3>5. d.values[k][l + 1] # "none"
      BY <3>2
    <3> DEFINE row == d.values[k]
               top == MaxBlock + 1
               n == l + 1
    <3>6. /\ n \in 1..(top - 1) /\ row[n] # "none" /\ \A y \in (n + 1)..(top - 1) : row[y] = "none"
          /\ d.latest[k] = [ver |-> n, deleted |-> (row[n] = "del")]
      BY <1>t, <3>1, <3>3, <3>4, <3>5
    <3> HIDE DEF row, top, n
    <3>7. LatestIs(row, top, d.latest[k])
      BY <3>6, LatestSome
    <3> QED BY <3>7 DEF row, top
  <2> QED BY <2>1, <2>2
<1>7. \A b \in Kv!Blocks : d.active[k] = b <=> b < h /\ KeyActive(V, Q, l + 1, h, k, b)
  BY <1>1, <1>2, <1>4, <1>h
<1> QED BY <1>5, <1>6, <1>7

LEMMA FollowDeleteLast ==
  ASSUME ChainSizes, NEW K, NEW c, CategoryTyped(c, K), NEW U, NEW V, NEW P, NEW Q,
         NEW l \in Kv!Blocks, NEW g \in 1..(l - 1), U[l] \in UpdatesOf(K),
         \A b \in 1..(l - 1) : V[b] = U[b],
         \A b \in 1..(g - 1) : Q[b] = P[b] /\ P[b] \in Nat /\ P[b] < l,
         KeysFollow(c, K, U, P, l, g)
  PROVE  KeysFollow(Kv!DeleteLastReachable(c, l, U[l]), K, V, Q, l - 1, g)
<1> DEFINE d == Kv!DeleteLastReachable(c, l, U[l])
           u == U[l]
<1>1. /\ d.active = c.active
      /\ \A k \in K :
           /\ u[k] = "no" => d.values[k] = c.values[k] /\ d.latest[k] = c.latest[k]
           /\ u[k] # "no" => /\ d.values[k] = [c.values[k] EXCEPT ![l] = "none"]
                             /\ d.latest[k] = Kv!Previous(c, k, l)
  BY DeleteLastIs
<1> HIDE DEF d
<1> SUFFICES ASSUME NEW k \in K
             PROVE  /\ \A b \in Kv!Blocks : d.values[k][b] = ValueOf(V, Q, l - 1, g, k, b)
                    /\ LatestIs(d.values[k], MaxBlock + 1, d.latest[k])
                    /\ \A b \in Kv!Blocks : d.active[k] = b <=> b < g /\ KeyActive(V, Q, l - 1, g, k, b)
  BY DEF KeysFollow, d
<1>2. /\ \A b \in Kv!Blocks : c.values[k][b] = ValueOf(U, P, l, g, k, b)
      /\ LatestIs(c.values[k], MaxBlock + 1, c.latest[k])
      /\ \A b \in Kv!Blocks : c.active[k] = b <=> b < g /\ KeyActive(U, P, l, g, k, b)
  BY FollowOne
<1>t. /\ c.values[k] \in [Kv!Blocks -> {"none", "put", "del"}]
      /\ MaxBlock \in Nat /\ Kv!Blocks = 1..MaxBlock /\ l \in Nat
  BY CategoryIs DEF ChainSizes, Kv!Blocks
<1> HIDE DEF u
<1>3. /\ \A b \in Kv!Blocks : b # l => d.values[k][b] = c.values[k][b]
      /\ u[k] # "no" => d.values[k][l] = "none"
      /\ u[k] = "no" => d.values[k][l] = c.values[k][l]
  BY <1>1, <1>t
<1>4. ASSUME NEW b \in Kv!Blocks, b < g
      PROVE  KeyActive(V, Q, l - 1, g, k, b) <=> KeyActive(U, P, l, g, k, b)
  <2>1. b \in 1..(g - 1) /\ b \in 1..(l - 1)
    BY <1>4, <1>t
  <2>2. V[b] = U[b] /\ Q[b] = P[b] /\ P[b] \in Nat /\ P[b] < l
    BY <2>1
  <2>3. \A x \in (b + 1)..(l - 1) : V[x] = U[x] /\ x \in (b + 1)..l
    BY <1>t, <2>1
  <2>4. \A x \in (b + 1)..l : x \in (b + 1)..(l - 1) \/ (x > P[b] /\ x >= g)
    BY <1>t, <2>1, <2>2
  <2> QED BY <2>2, <2>3, <2>4 DEF KeyActive
<1>5. ASSUME NEW b \in Kv!Blocks PROVE d.values[k][b] = ValueOf(V, Q, l - 1, g, k, b)
  <2>1. CASE b > l
    <3>1. b > l - 1 /\ b # l
      BY <1>t, <2>1
    <3> QED BY <1>2, <1>3, <2>1, <3>1 DEF ValueOf
  <2>2. CASE b = l
    <3>1. b > l - 1 /\ ~(b > l) /\ ~(b < g)
      BY <1>t, <2>2
    <3>2. ValueOf(V, Q, l - 1, g, k, b) = "none" /\ ValueOf(U, P, l, g, k, b) = Written(u[k])
      BY <2>2, <3>1 DEF ValueOf, u
    <3> QED BY <1>2, <1>3, <2>2, <3>2, WrittenIs
  <2>3. CASE b < l
    <3>1. b \in 1..(l - 1) /\ ~(b > l - 1) /\ ~(b > l) /\ b # l
      BY <1>t, <2>3
    <3>2. ValueOf(V, Q, l - 1, g, k, b) = ValueOf(U, P, l, g, k, b)
      BY <1>4, <3>1 DEF ValueOf
    <3> QED BY <1>2, <1>3, <3>1, <3>2
  <2> QED BY <1>t, <2>1, <2>2, <2>3
<1>6. LatestIs(d.values[k], MaxBlock + 1, d.latest[k])
  <2>1. CASE u[k] = "no"
    BY <1>1, <1>2, <2>1
  <2>2. CASE u[k] # "no"
    <3> DEFINE p == Kv!Previous(c, k, l)
    <3>1. LatestIs(c.values[k], l, p) /\ d.latest[k] = p
      <4>1. l \in 1..MaxBlock + 1
        BY <1>t
      <4> QED BY <1>1, <2>2, <4>1, PreviousIs
    <3>2. \A y \in l..(MaxBlock + 1 - 1) : d.values[k][y] = "none"
      <4> TAKE y \in l..(MaxBlock + 1 - 1)
      <4>1. y \in Kv!Blocks /\ (y > l \/ y = l)
        BY <1>t
      <4> QED BY <1>2, <1>3, <2>2, <4>1 DEF ValueOf
    <3>3. \A y \in 1..(l - 1) : d.values[k][y] = c.values[k][y]
      <4> TAKE y \in 1..(l - 1)
      <4>1. y \in Kv!Blocks /\ y # l
        BY <1>t
      <4> QED BY <1>3, <4>1
    <3> HIDE DEF p
    <3>4. CASE (\A x \in 1..(l - 1) : c.values[k][x] = "none") /\ p = Kv!NoVersion
      <4>1. \A x \in 1..(MaxBlock + 1 - 1) : x \in 1..(l - 1) \/ x \in l..(MaxBlock + 1 - 1)
        BY <1>t
      <4>2. \A x \in 1..(MaxBlock + 1 - 1) : d.values[k][x] = "none"
        BY <3>2, <3>3, <3>4, <4>1
      <4> DEFINE row == d.values[k]
                 top == MaxBlock + 1
      <4>3. \A x \in 1..(top - 1) : row[x] = "none"
        BY <1>t, <4>2
      <4> HIDE DEF row, top
      <4>4. LatestIs(row, top, Kv!NoVersion)
        BY <4>3, LatestNone
      <4> QED BY <3>1, <3>4, <4>4 DEF row, top
    <3>5. CASE \E x \in 1..(l - 1) :
                 /\ c.values[k][x] # "none" /\ \A y \in (x + 1)..(l - 1) : c.values[k][y] = "none"
                 /\ p = [ver |-> x, deleted |-> (c.values[k][x] = "del")]
      <4>1. PICK x \in 1..(l - 1) :
                 /\ c.values[k][x] # "none" /\ \A y \in (x + 1)..(l - 1) : c.values[k][y] = "none"
                 /\ p = [ver |-> x, deleted |-> (c.values[k][x] = "del")]
        BY <3>5
      <4>2. d.values[k][x] = c.values[k][x] /\ x \in 1..(MaxBlock + 1 - 1)
        BY <1>t, <3>3
      <4>3. \A y \in (x + 1)..(MaxBlock + 1 - 1) : d.values[k][y] = "none"
        <5> TAKE y \in (x + 1)..(MaxBlock + 1 - 1)
        <5>1. (y \in (x + 1)..(l - 1) /\ y \in 1..(l - 1)) \/ y \in l..(MaxBlock + 1 - 1)
          BY <1>t
        <5> QED BY <3>2, <3>3, <4>1, <5>1
      <4>4. d.latest[k] = [ver |-> x, deleted |-> (d.values[k][x] = "del")]
        BY <3>1, <4>1, <4>2
      <4>5. d.values[k][x] # "none"
        BY <4>1, <4>2
      <4> DEFINE row == d.values[k]
                 top == MaxBlock + 1
      <4>6. /\ x \in 1..(top - 1) /\ row[x] # "none" /\ \A y \in (x + 1)..(top - 1) : row[y] = "none"
            /\ d.latest[k] = [ver |-> x, deleted |-> (row[x] = "del")]
        BY <1>t, <4>2, <4>3, <4>4, <4>5
      <4> HIDE DEF row, top
      <4>7. LatestIs(row, top, d.latest[k])
        BY <4>6, LatestSome
      <4> QED BY <4>7 DEF row, top
    <3> QED BY <3>1, <3>4, <3>5 DEF LatestIs
  <2> QED BY <2>1, <2>2
<1>7. \A b \in Kv!Blocks : d.active[k] = b <=> b < g /\ KeyActive(V, Q, l - 1, g, k, b)
  BY <1>1, <1>2, <1>4
<1> QED BY <1>5, <1>6, <1>7

LEMMA FollowDeleteGenesis ==
  ASSUME ChainSizes, NEW K, NEW c, CategoryTyped(c, K), NEW U, NEW P, NEW Q,
         NEW l \in Kv!Blocks, NEW g \in 1..l, U[g] \in UpdatesOf(K),
         \A b \in 1..(g - 1) : Q[b] = P[b], Q[g] = l, KeysFollow(c, K, U, P, l, g)
  PROVE  KeysFollow(Kv!DeleteGenesis(c, g, U[g]), K, U, Q, l, g + 1)
<1> DEFINE d == Kv!DeleteGenesis(c, g, U[g])
           u == U[g]
<1>t. MaxBlock \in Nat /\ Kv!Blocks = 1..MaxBlock /\ g \in Kv!Blocks /\ l \in Nat /\ g \in Nat /\ g <= l
  BY DEF ChainSizes, Kv!Blocks
<1>1. \A k \in K :
        /\ u[k] = "no" => /\ d.values[k] = c.values[k] /\ d.latest[k] = c.latest[k]
                          /\ d.active[k] = c.active[k]
        /\ u[k] # "no" =>
             /\ \A b \in Kv!Blocks : d.values[k][b] =
                  IF b = c.active[k] \/ (b = g /\ Kv!Inactive(c, k, g, u)) THEN "none"
                  ELSE c.values[k][b]
             /\ d.latest[k] = IF Kv!Inactive(c, k, g, u) /\ c.latest[k].ver = g
                              THEN Kv!NoVersion ELSE c.latest[k]
             /\ d.active[k] = IF Kv!Inactive(c, k, g, u) THEN 0 ELSE g
  <2>1. g \in Kv!Blocks
    BY <1>t
  <2>2. u \in UpdatesOf(K)
    OBVIOUS
  <2>3. d = Kv!DeleteGenesis(c, g, u)
    OBVIOUS
  <2> HIDE DEF d, u
  <2> QED BY <2>1, <2>2, <2>3, DeleteGenesisIs, SMTT(40)
<1>u. \A k \in K : u[k] \in {"no", "put", "del", "stale"}
  BY DEF UpdatesOf
<1> HIDE DEF d
<1> SUFFICES ASSUME NEW k \in K
             PROVE  /\ \A b \in Kv!Blocks : d.values[k][b] = ValueOf(U, Q, l, g + 1, k, b)
                    /\ LatestIs(d.values[k], MaxBlock + 1, d.latest[k])
                    /\ \A b \in Kv!Blocks : d.active[k] = b <=> b < g + 1 /\ KeyActive(U, Q, l, g + 1, k, b)
  BY DEF KeysFollow, d
<1>2. /\ \A b \in Kv!Blocks : c.values[k][b] = ValueOf(U, P, l, g, k, b)
      /\ LatestIs(c.values[k], MaxBlock + 1, c.latest[k])
      /\ \A b \in Kv!Blocks : c.active[k] = b <=> b < g /\ KeyActive(U, P, l, g, k, b)
  BY FollowOne
<1>c. c.active[k] \in Nat /\ c.active[k] <= MaxBlock /\ c.latest[k].ver \in Nat
  BY CategoryIs, <1>t
<1>a. \A b \in Kv!Blocks : b >= g => b # c.active[k]
  BY <1>2, <1>t
<1> HIDE DEF u
<1>3. ASSUME NEW b \in Kv!Blocks, b < g
      PROVE  KeyActive(U, Q, l, g + 1, k, b) <=> u[k] = "no" /\ KeyActive(U, P, l, g, k, b)
  <2>1. b \in 1..(g - 1) /\ Q[b] = P[b] /\ b \in Nat
    BY <1>3, <1>t
  <2>2. g \in (b + 1)..l /\ ~(g >= g + 1)
    BY <1>3, <1>t, <2>1
  <2>3. \A x \in (b + 1)..l : (x >= g + 1 <=> x >= g /\ x # g)
    BY <1>t, <2>1
  <2>4. KeyActive(U, Q, l, g + 1, k, b) <=>
          /\ U[b][k] = "put"
          /\ \A x \in (b + 1)..l : U[x][k] # "no" => x > P[b] /\ x >= g + 1
    BY <2>1 DEF KeyActive
  <2>5. KeyActive(U, P, l, g, k, b) <=>
          /\ U[b][k] = "put"
          /\ \A x \in (b + 1)..l : U[x][k] # "no" => x > P[b] /\ x >= g
    BY DEF KeyActive
  <2> QED BY <2>2, <2>3, <2>4, <2>5 DEF u
<1> DEFINE newer == \E x \in (g + 1)..l : U[x][k] # "no"
<1>4. KeyActive(U, Q, l, g + 1, k, g) <=> u[k] = "put" /\ ~newer
  <2>1. \A x \in (g + 1)..l : ~(x > l)
    BY <1>t
  <2> QED BY <2>1 DEF KeyActive, u
<1>5. \A b \in Kv!Blocks : b > g => c.values[k][b] = IF b > l THEN "none" ELSE Written(U[b][k])
  <2> TAKE b \in Kv!Blocks
  <2> HAVE b > g
  <2>1. ~(b < g)
    BY <1>t
  <2> QED BY <1>2, <2>1 DEF ValueOf
<1>6. c.values[k][g] = Written(u[k])
  <2>1. ~(g > l) /\ ~(g < g)
    BY <1>t
  <2> QED BY <1>2, <1>t, <2>1 DEF ValueOf, u
<1>7. newer => c.latest[k].ver > g
  <2> SUFFICES ASSUME NEW x \in (g + 1)..l, U[x][k] # "no"
               PROVE  c.latest[k].ver > g
    OBVIOUS
  <2>1. x \in 1..(MaxBlock + 1 - 1) /\ x \in Kv!Blocks /\ x > g /\ ~(x > l)
    BY <1>t
  <2>2. c.values[k][x] # "none"
    BY <1>5, <2>1, WrittenIs
  <2>3. PICK y \in 1..(MaxBlock + 1 - 1) :
          /\ \A z \in (y + 1)..(MaxBlock + 1 - 1) : c.values[k][z] = "none"
          /\ c.latest[k] = [ver |-> y, deleted |-> (c.values[k][y] = "del")]
    <3>1. \/ \A z \in 1..(MaxBlock + 1 - 1) : c.values[k][z] = "none"
          \/ \E y \in 1..(MaxBlock + 1 - 1) :
               /\ \A z \in (y + 1)..(MaxBlock + 1 - 1) : c.values[k][z] = "none"
               /\ c.latest[k] = [ver |-> y, deleted |-> (c.values[k][y] = "del")]
      BY <1>2, <1>t DEF LatestIs
    <3> QED BY <2>1, <2>2, <3>1
  <2>4. ~(x > y)
    BY <1>t, <2>1, <2>2, <2>3
  <2>5. c.latest[k].ver = y
    BY <2>3
  <2> QED BY <1>t, <2>1, <2>4, <2>5
<1>8. u[k] # "no" /\ ~newer => c.latest[k].ver = g
  <2> SUFFICES ASSUME u[k] # "no", ~newer PROVE c.latest[k].ver = g
    OBVIOUS
  <2>1. c.values[k][g] # "none" /\ g \in 1..(MaxBlock + 1 - 1)
    BY <1>6, <1>t, WrittenIs
  <2>2. \A z \in (g + 1)..(MaxBlock + 1 - 1) : c.values[k][z] = "none"
    <3> TAKE z \in (g + 1)..(MaxBlock + 1 - 1)
    <3>1. z \in Kv!Blocks /\ z > g /\ (z > l \/ z \in (g + 1)..l)
      BY <1>t
    <3> QED BY <1>5, <3>1, WrittenIs
  <2>3. PICK y \in 1..(MaxBlock + 1 - 1) :
          /\ c.values[k][y] # "none" /\ \A z \in (y + 1)..(MaxBlock + 1 - 1) : c.values[k][z] = "none"
          /\ c.latest[k] = [ver |-> y, deleted |-> (c.values[k][y] = "del")]
    <3>1. \/ \A z \in 1..(MaxBlock + 1 - 1) : c.values[k][z] = "none"
          \/ \E y \in 1..(MaxBlock + 1 - 1) :
               /\ c.values[k][y] # "none" /\ \A z \in (y + 1)..(MaxBlock + 1 - 1) : c.values[k][z] = "none"
               /\ c.latest[k] = [ver |-> y, deleted |-> (c.values[k][y] = "del")]
      BY <1>2, <1>t DEF LatestIs
    <3> QED BY <2>1, <3>1
  <2>4. y = g
    BY <1>t, <2>1, <2>2, <2>3
  <2> QED BY <2>3, <2>4
<1>9. u[k] # "no" => (~Kv!Inactive(c, k, g, u) <=> u[k] = "put" /\ ~newer)
  <2>1. newer => c.latest[k].ver > g
    BY <1>7
  <2>2. c.latest[k].ver = g => ~(c.latest[k].ver > g)
    BY <1>t
  <2> HIDE DEF newer
  <2> QED BY <1>8, <1>u, <2>1, <2>2 DEF Kv!Inactive
<1> HIDE DEF newer
<1>10. ASSUME NEW b \in Kv!Blocks PROVE d.values[k][b] = ValueOf(U, Q, l, g + 1, k, b)
  <2>1. CASE b > g
    <3>1. ~(b < g + 1) /\ b # g /\ b # c.active[k]
      BY <1>a, <1>t, <2>1
    <3>2. d.values[k][b] = c.values[k][b]
      BY <1>1, <3>1
    <3> QED BY <1>5, <2>1, <3>1, <3>2 DEF ValueOf
  <2>2. CASE b = g
    <3>0. b >= g /\ ~(b > l) /\ b < g + 1
      BY <1>t, <2>2
    <3>1. ~(b > l) /\ b < g + 1 /\ b # c.active[k]
      BY <1>a, <3>0
    <3>2. ValueOf(U, Q, l, g + 1, k, b) = IF u[k] = "put" /\ ~newer THEN "put" ELSE "none"
      BY <1>4, <2>2, <3>1 DEF ValueOf
    <3>3. CASE u[k] = "no"
      BY <1>1, <1>6, <2>2, <3>2, <3>3, WrittenIs
    <3>4. CASE u[k] # "no" /\ Kv!Inactive(c, k, g, u)
      BY <1>1, <1>9, <2>2, <3>2, <3>4
    <3>5. CASE u[k] # "no" /\ ~Kv!Inactive(c, k, g, u)
      <4>1. u[k] = "put" /\ ~newer
        BY <1>9, <3>5
      <4>2. d.values[k][b] = c.values[k][g]
        BY <1>1, <2>2, <3>1, <3>5
      <4> QED BY <1>6, <3>2, <4>1, <4>2, WrittenIs
    <3> QED BY <3>3, <3>4, <3>5
  <2>3. CASE b < g
    <3>1. ~(b > l) /\ b < g + 1 /\ b # g
      BY <1>t, <2>3
    <3>2. ValueOf(U, Q, l, g + 1, k, b) =
            IF u[k] = "no" /\ KeyActive(U, P, l, g, k, b) THEN "put" ELSE "none"
      BY <1>3, <2>3, <3>1 DEF ValueOf
    <3>3. c.values[k][b] = IF KeyActive(U, P, l, g, k, b) THEN "put" ELSE "none"
      BY <1>2, <2>3, <3>1 DEF ValueOf
    <3>4. CASE u[k] = "no"
      BY <1>1, <3>2, <3>3, <3>4
    <3>5. CASE u[k] # "no" /\ KeyActive(U, P, l, g, k, b)
      <4>1. b = c.active[k]
        BY <1>2, <2>3, <3>5
      <4> QED BY <1>1, <3>2, <3>5, <4>1
    <3>6. CASE u[k] # "no" /\ ~KeyActive(U, P, l, g, k, b)
      BY <1>1, <3>1, <3>2, <3>3, <3>6
    <3> QED BY <3>4, <3>5, <3>6
  <2> QED BY <1>t, <2>1, <2>2, <2>3
<1>11. LatestIs(d.values[k], MaxBlock + 1, d.latest[k])
  <2>1. CASE u[k] = "no"
    BY <1>1, <1>2, <2>1
  <2>2. CASE u[k] # "no" /\ Kv!Inactive(c, k, g, u) /\ c.latest[k].ver = g
    <3> DEFINE row == d.values[k]
               top == MaxBlock + 1
    <3>0. ~newer
      BY <1>7, <1>t, <2>2
    <3>1. \A x \in 1..(top - 1) : row[x] = "none"
      <4> TAKE x \in 1..(top - 1)
      <4>1. x \in Kv!Blocks /\ (x > g \/ x = g \/ x < g)
        BY <1>t
      <4>2. CASE x > g
        <5>1. x > l \/ x \in (g + 1)..l
          BY <1>t, <4>1, <4>2
        <5>2. c.values[k][x] = "none"
          BY <1>5, <3>0, <4>1, <4>2, <5>1, WrittenIs DEF newer
        <5> QED BY <1>1, <2>2, <4>1, <5>2
      <4>3. CASE x = g
        BY <1>1, <2>2, <4>1, <4>3
      <4>4. CASE x < g
        <5>1. ~(x > l) /\ x < g + 1
          BY <1>t, <4>1, <4>4
        <5>2. ValueOf(U, Q, l, g + 1, k, x) = "none"
          BY <1>3, <2>2, <4>1, <4>4, <5>1 DEF ValueOf
        <5> QED BY <1>10, <4>1, <5>2
      <4> QED BY <4>1, <4>2, <4>3, <4>4
    <3>2. d.latest[k] = Kv!NoVersion
      BY <1>1, <2>2
    <3> HIDE DEF row, top
    <3>3. LatestIs(row, top, Kv!NoVersion)
      BY <3>1, LatestNone
    <3> QED BY <3>2, <3>3 DEF row, top
  <2>3. CASE u[k] # "no" /\ ~(Kv!Inactive(c, k, g, u) /\ c.latest[k].ver = g)
    <3> DEFINE row == d.values[k]
               top == MaxBlock + 1
    <3>1. d.latest[k] = c.latest[k]
      BY <1>1, <2>3
    <3>2. PICK x \in 1..(top - 1) :
            /\ c.values[k][x] # "none" /\ \A y \in (x + 1)..(top - 1) : c.values[k][y] = "none"
            /\ c.latest[k] = [ver |-> x, deleted |-> (c.values[k][x] = "del")]
      <4>1. c.values[k][g] # "none" /\ g \in 1..(top - 1)
        BY <1>6, <1>t, <2>3, WrittenIs
      <4> QED BY <1>2, <4>1 DEF LatestIs
    <3>3. c.latest[k].ver = x
      BY <3>2
    <3>4. x >= g
      BY <1>7, <1>8, <1>t, <2>3, <3>3
    <3>5. \A y \in Kv!Blocks : y > g \/ (y = g /\ ~Kv!Inactive(c, k, g, u)) => row[y] = c.values[k][y]
      BY <1>1, <1>a, <1>t, <2>3
    <3>6. x \in Kv!Blocks /\ (x > g \/ (x = g /\ ~Kv!Inactive(c, k, g, u)))
      BY <1>t, <2>3, <3>3, <3>4
    <3>7. row[x] = c.values[k][x]
      BY <3>5, <3>6
    <3>8. \A y \in (x + 1)..(top - 1) : row[y] = "none"
      <4> TAKE y \in (x + 1)..(top - 1)
      <4>1. y \in Kv!Blocks /\ y > g
        BY <1>t, <3>4
      <4> QED BY <3>2, <3>5, <4>1
    <3> HIDE DEF row, top
    <3>9. d.latest[k] = [ver |-> x, deleted |-> (row[x] = "del")]
      BY <3>1, <3>2, <3>7
    <3>10. row[x] # "none"
      BY <3>2, <3>7
    <3>11. LatestIs(row, top, d.latest[k])
      BY <3>8, <3>9, <3>10, LatestSome
    <3> QED BY <3>11 DEF row, top
  <2> QED BY <2>1, <2>2, <2>3
<1>12. ASSUME NEW b \in Kv!Blocks
       PROVE  d.active[k] = b <=> b < g + 1 /\ KeyActive(U, Q, l, g + 1, k, b)
  <2>0. b # 0 /\ (b < g + 1 <=> b < g \/ b = g) /\ ~(g < g)
    BY <1>t
  <2>1. CASE u[k] = "no"
    <3>1. d.active[k] = c.active[k]
      BY <1>1, <2>1
    <3>2. ~KeyActive(U, Q, l, g + 1, k, g) /\ c.active[k] # g
      BY <1>2, <1>4, <1>t, <2>0, <2>1
    <3> QED BY <1>2, <1>3, <2>0, <2>1, <3>1, <3>2
  <2>2. CASE u[k] # "no"
    <3>1. d.active[k] = IF Kv!Inactive(c, k, g, u) THEN 0 ELSE g
      BY <1>1, <2>2
    <3>2. b < g => ~KeyActive(U, Q, l, g + 1, k, b)
      BY <1>3, <2>2
    <3>3. KeyActive(U, Q, l, g + 1, k, g) <=> ~Kv!Inactive(c, k, g, u)
      BY <1>4, <1>9, <2>2
    <3>4. b = g => ~(b < g)
      BY <2>0
    <3> QED BY <2>0, <3>1, <3>2, <3>3, <3>4
  <2> QED BY <2>1, <2>2
<1> QED BY <1>10, <1>11, <1>12

(***************************************************************************)
(* Blocks, updates and trees                                               *)
(***************************************************************************)
LEMMA UpdatesAre ==
  ASSUME ChainSizes
  PROVE  /\ \A u \in Kv!VUpdates : u \in UpdatesOf(VKeys)
         /\ \A u \in Kv!MUpdates : u \in UpdatesOf(MKeys)
         /\ \A u \in Kv!MUpdates : Kv!Touched(u) = {k \in MKeys : u[k] # "no"}
<1>1. \A u \in Kv!VUpdates : u \in UpdatesOf(VKeys)
  BY DEF ChainSizes, Kv!VUpdates, UpdatesOf
<1>2. \A u \in Kv!MUpdates : u \in UpdatesOf(MKeys)
  BY DEF ChainSizes, Kv!MUpdates, UpdatesOf
<1>3. \A u \in Kv!MUpdates : Kv!Touched(u) = {k \in MKeys : u[k] # "no"}
  BY DEF Kv!MUpdates, Kv!Touched
<1> QED BY <1>1, <1>2, <1>3

LEMMA ChainShapes ==
  ASSUME ChainSizes, KvTyped
  PROVE  /\ MaxBlock \in Nat \ {0} /\ Kv!Blocks = 1..MaxBlock
         /\ genesis \in Nat /\ last \in Nat /\ genesis <= last /\ last <= MaxBlock
         /\ (genesis = 0 => last = 0) /\ root \in Nat /\ lastDeleted \in Nat /\ lastDeleted <= root
         /\ Prunings \in Nat /\ prunedAt \in Nat
         /\ \A b \in 1..last : /\ b \in Kv!Blocks
                               /\ VLog[b] = log[b].v /\ log[b].v \in UpdatesOf(VKeys)
                               /\ MLog[b] = log[b].m /\ log[b].m \in UpdatesOf(MKeys)
                               /\ log[b].version \in Nat /\ log[b].genesis \in Nat
                               /\ Kv!Touched(log[b].m) = {k \in MKeys : log[b].m[k] # "no"}
<1>1. /\ MaxBlock \in Nat \ {0} /\ Kv!Blocks = 1..MaxBlock
      /\ genesis \in Nat /\ last \in Nat /\ genesis <= last /\ last <= MaxBlock
      /\ (genesis = 0 => last = 0) /\ root \in Nat /\ lastDeleted \in Nat /\ lastDeleted <= root
      /\ prunedAt \in Nat
  BY DEF ChainSizes, Kv!Blocks, KvTyped
<1>2. Prunings \in Nat
  BY <1>1 DEF Prunings
<1>3. \A b \in 1..last : /\ log[b].v \in Kv!VUpdates /\ log[b].m \in Kv!MUpdates
                         /\ log[b].version \in Nat /\ log[b].genesis \in Nat
  BY DEF KvTyped
<1>4. \A b \in 1..last : b \in Kv!Blocks
  BY <1>1
<1>5. \A b \in 1..last : VLog[b] = log[b].v /\ MLog[b] = log[b].m
  BY <1>4 DEF VLog, MLog
<1> QED BY <1>1, <1>2, <1>3, <1>4, <1>5, UpdatesAre

LEMMA TreeIs ==
  ASSUME ChainSizes
  PROVE  /\ Kv!NoLeaf \in Leaves /\ Kv!NoLeaves \in [Kv!Blocks -> Leaves]
         /\ Kv!NoTree \in Trees /\ [Kv!Blocks -> Leaves] \subseteq Trees
         /\ Kv!NoTree \notin [Kv!Blocks -> Leaves]
<1>1. Kv!NoLeaf \in Leaves
  BY DEF Kv!NoLeaf, Leaves
<1>2. Kv!NoLeaves \in [Kv!Blocks -> Leaves]
  BY <1>1 DEF Kv!NoLeaves
<1>3. Kv!NoTree \notin [Kv!Blocks -> Leaves]
  <2>1. 1 \in Kv!Blocks
    BY DEF ChainSizes, Kv!Blocks
  <2>2. DOMAIN Kv!NoTree = {}
    BY DEF Kv!NoTree
  <2> QED BY <2>1, <2>2
<1> QED BY <1>1, <1>2, <1>3 DEF Trees

LEMMA RootIs ==
  ASSUME ChainSizes, KvTyped, VersionsGrow, VersionsFit
  PROVE  /\ root <= last + Prunings /\ root \in 0..(2 * MaxBlock)
         /\ (last < MaxBlock \/ genesis < last) => root + 1 \in Kv!Versions
         /\ \A v \in lastDeleted..root : Kv!LeavesAt(v) \in [Kv!Blocks -> Leaves]
<1>s. /\ MaxBlock \in Nat \ {0} /\ genesis \in Nat /\ last \in Nat /\ genesis <= last /\ last <= MaxBlock
      /\ (genesis = 0 => last = 0) /\ root \in Nat /\ lastDeleted \in Nat /\ lastDeleted <= root
      /\ Prunings \in Nat
  BY ChainShapes
<1>1. root <= last + Prunings
  <2>1. last \in 0..last /\ \A b \in (last + 1)..last : ~HasLeaf(b)
    BY <1>s
  <2> QED BY <2>1 DEF VersionsFit
<1>2. Prunings <= last /\ (genesis > 0 => Prunings = genesis - 1) /\ (genesis = 0 => Prunings = 0)
  BY <1>s DEF Prunings
<1>3. root \in 0..(2 * MaxBlock)
  BY <1>1, <1>2, <1>s
<1>4. (last < MaxBlock \/ genesis < last) => root + 1 \in 1..(2 * MaxBlock)
  BY <1>1, <1>2, <1>s
<1>5. ASSUME NEW v \in lastDeleted..root PROVE Kv!LeavesAt(v) \in [Kv!Blocks -> Leaves]
  <2>1. CASE v = 0
    BY <2>1, TreeIs DEF Kv!LeavesAt
  <2>2. CASE v # 0
    <3>1. v \in 1..root /\ v >= lastDeleted /\ v \in 1..(2 * MaxBlock)
      BY <1>3, <1>s, <2>2
    <3>2. trees[v] # Kv!NoTree /\ trees[v] \in Trees
      BY <3>1 DEF VersionsGrow, KvTyped, Kv!Versions
    <3> QED BY <2>2, <3>2 DEF Kv!LeavesAt, Trees
  <2> QED BY <2>1, <2>2
<1> QED BY <1>1, <1>3, <1>4, <1>5 DEF Kv!Versions

(***************************************************************************)
(* A block is added.                                                       *)
(***************************************************************************)
LEMMA AppendIs ==
  ASSUME ChainSizes, KvTyped, VersionsGrow, VersionsFit, NEW u, NEW g, g \in Nat,
         u.v \in Kv!VUpdates, u.m \in Kv!MUpdates, Kv!Append(u, g)
  PROVE  /\ last' = last + 1 /\ last + 1 \in Kv!Blocks /\ genesis' = (IF genesis = 0 THEN 1 ELSE genesis)
         /\ ver' = Kv!Add(ver, last + 1, u.v) /\ mer' = Kv!Add(mer, last + 1, u.m)
         /\ UNCHANGED <<pruned, lastDeleted, prunedAt, undone>>
         /\ log' = [x \in Kv!Blocks |-> log'[x]] /\ \A x \in Kv!Blocks : x # last + 1 => log'[x] = log[x]
         /\ log'[last + 1].v = u.v /\ log'[last + 1].m = u.m /\ log'[last + 1].genesis = g
         /\ log'[last + 1].parent = Kv!Parent(last + 1)
         /\ cache' = [id |-> last + 1, genesis |-> g, hash |-> log'[last + 1].hash, v |-> u.v, m |-> u.m]
         /\ Kv!Touched(u.m) # {} =>
              /\ log'[last + 1].version = root + 1 /\ root' = root + 1 /\ stale' = stale \cup {root + 1}
              /\ trees' = [trees EXCEPT ![root + 1] = Kv!NewLeaves(last + 1, u.m)]
         /\ Kv!Touched(u.m) = {} =>
              log'[last + 1].version = 0 /\ UNCHANGED <<trees, root, stale>>
<1>s. MaxBlock \in Nat \ {0} /\ last \in Nat /\ Kv!Blocks = 1..MaxBlock
  BY ChainShapes
<1> DEFINE leaves == IF Kv!Touched(u.m) # {} THEN Kv!NewLeaves(last + 1, u.m) ELSE Kv!NoLeaves
           version == IF Kv!Touched(u.m) # {} THEN root + 1 ELSE 0
           rec == [id |-> last + 1, genesis |-> g, v |-> u.v, m |-> u.m,
                   parent |-> Kv!Parent(last + 1), hash |-> leaves, version |-> version]
<1>1. /\ last + 1 <= MaxBlock /\ log' = [log EXCEPT ![last + 1] = rec]
      /\ cache' = [id |-> last + 1, genesis |-> g, hash |-> leaves, v |-> u.v, m |-> u.m]
      /\ ver' = Kv!Add(ver, last + 1, u.v) /\ mer' = Kv!Add(mer, last + 1, u.m)
      /\ last' = last + 1 /\ genesis' = (IF genesis = 0 THEN 1 ELSE genesis)
      /\ UNCHANGED <<pruned, lastDeleted, prunedAt, undone>>
  BY DEF Kv!Append
<1>2. IF Kv!Touched(u.m) # {}
      THEN /\ trees' = [trees EXCEPT ![version] = leaves] /\ root' = version
           /\ stale' = stale \cup {version}
      ELSE UNCHANGED <<trees, root, stale>>
  BY DEF Kv!Append
<1>3. last + 1 \in Kv!Blocks
  BY <1>1, <1>s
<1>4. log = [x \in Kv!Blocks |-> log[x]]
  BY DEF KvTyped
<1> HIDE DEF rec
<1>5. log' = [x \in Kv!Blocks |-> IF x = last + 1 THEN rec ELSE log[x]]
  BY <1>1, <1>4
<1>6. /\ log' = [x \in Kv!Blocks |-> log'[x]] /\ \A x \in Kv!Blocks : x # last + 1 => log'[x] = log[x]
      /\ log'[last + 1] = rec
  BY <1>3, <1>5
<1>7. /\ log'[last + 1].v = u.v /\ log'[last + 1].m = u.m /\ log'[last + 1].genesis = g
      /\ log'[last + 1].parent = Kv!Parent(last + 1) /\ log'[last + 1].hash = leaves
      /\ log'[last + 1].version = version
  <2> HIDE DEF leaves, version
  <2> QED BY <1>6 DEF rec
<1> QED BY <1>1, <1>2, <1>3, <1>6, <1>7

LEMMA AppendKeys ==
  ASSUME ChainSizes, ReadInv, NEW u, NEW g, g \in Nat,
         u.v \in Kv!VUpdates, u.m \in Kv!MUpdates, Kv!Append(u, g)
  PROVE  /\ CategoryTyped(ver, VKeys)' /\ CategoryTyped(mer, MKeys)'
         /\ KeysReadable(ver, VKeys, VLog, last, genesis)'
         /\ KeysReadable(mer, MKeys, MLog, last, genesis)'
         /\ PrunedFits'
<1>0. KvTyped /\ VersionsGrow /\ VersionsFit /\ PrunedFits
  BY DEF ReadInv
<1>1. /\ last' = last + 1 /\ last + 1 \in Kv!Blocks /\ genesis' = (IF genesis = 0 THEN 1 ELSE genesis)
      /\ ver' = Kv!Add(ver, last + 1, u.v) /\ mer' = Kv!Add(mer, last + 1, u.m) /\ pruned' = pruned
      /\ \A x \in Kv!Blocks : x # last + 1 => log'[x] = log[x]
      /\ log'[last + 1].v = u.v /\ log'[last + 1].m = u.m
  BY <1>0, AppendIs
<1>s. /\ MaxBlock \in Nat /\ Kv!Blocks = 1..MaxBlock /\ last \in Nat /\ genesis \in 0..last
      /\ \A b \in 1..last : b \in Kv!Blocks /\ b # last + 1 /\ VLog[b] = log[b].v /\ MLog[b] = log[b].m
  BY <1>0, ChainShapes
<1>2. u.v \in UpdatesOf(VKeys) /\ u.m \in UpdatesOf(MKeys)
  BY UpdatesAre
<1>3. genesis' \in {genesis, 1} /\ genesis <= genesis'
  BY <1>1, <1>s
<1>4. /\ \A b \in 1..last : VLog'[b] = VLog[b] /\ MLog'[b] = MLog[b]
      /\ VLog'[last + 1] = u.v /\ MLog'[last + 1] = u.m
  BY <1>1, <1>s DEF VLog, MLog
<1>5. CategoryTyped(ver, VKeys) /\ CategoryTyped(mer, MKeys)
  BY <1>0 DEF KvTyped
<1>6. /\ CategoryTyped(Kv!Add(ver, last + 1, u.v), VKeys) /\ CategoryTyped(Kv!Add(mer, last + 1, u.m), MKeys)
      /\ Kv!Add(mer, last + 1, u.m).active = mer.active
  BY <1>1, <1>2, <1>5, AddIs
<1>7. KeysReadable(Kv!Add(ver, last + 1, u.v), VKeys, VLog', last + 1, genesis')
  <2>1. KeysReadable(ver, VKeys, VLog, last, genesis)
    BY DEF ReadInv
  <2> QED BY <1>1, <1>2, <1>3, <1>4, <1>5, <1>s, <2>1, ReadableAdd
<1>8. KeysReadable(Kv!Add(mer, last + 1, u.m), MKeys, MLog', last + 1, genesis')
  <2>1. KeysReadable(mer, MKeys, MLog, last, genesis)
    BY DEF ReadInv
  <2> QED BY <1>1, <1>2, <1>3, <1>4, <1>5, <1>s, <2>1, ReadableAdd
<1>9. PrunedFits'
  BY <1>0, <1>1, <1>6 DEF PrunedFits
<1> QED BY <1>1, <1>6, <1>7, <1>8, <1>9

LEMMA AppendVersions ==
  ASSUME ChainSizes, ReadInv, NEW u, NEW g, g \in Nat,
         u.v \in Kv!VUpdates, u.m \in Kv!MUpdates, Kv!Append(u, g)
  PROVE  VersionsGrow' /\ VersionsFit' /\ trees' \in [Kv!Versions -> Trees] /\ root' \in Nat
         /\ lastDeleted' <= root' /\ log'[last + 1].version \in Nat
<1>0. KvTyped /\ VersionsGrow /\ VersionsFit
  BY DEF ReadInv
<1>n. PICK n \in Int : n = last + 1
  BY <1>0 DEF KvTyped
<1> DEFINE leaf == Kv!Touched(u.m) # {}
<1>1. /\ last' = n /\ n \in Kv!Blocks /\ genesis' = (IF genesis = 0 THEN 1 ELSE genesis)
      /\ lastDeleted' = lastDeleted
      /\ \A x \in Kv!Blocks : x # n => log'[x] = log[x]
      /\ log'[n].m = u.m
      /\ leaf =>
           /\ log'[n].version = root + 1 /\ root' = root + 1 /\ stale' = stale \cup {root + 1}
           /\ trees' = [trees EXCEPT ![root + 1] = Kv!NewLeaves(n, u.m)]
      /\ ~leaf => log'[n].version = 0 /\ UNCHANGED <<trees, root, stale>>
  BY <1>0, <1>n, AppendIs
<1>s. /\ MaxBlock \in Nat /\ Kv!Blocks = 1..MaxBlock /\ last \in Nat /\ genesis \in Nat /\ genesis <= last
      /\ (genesis = 0 => last = 0) /\ root \in Nat /\ lastDeleted \in Nat /\ lastDeleted <= root
      /\ Prunings \in Nat /\ n = last + 1
      /\ \A b \in 1..last : b \in Kv!Blocks /\ b # n /\ log[b].version \in Nat
  BY <1>0, <1>n, ChainShapes
<1>2. Prunings' = Prunings /\ genesis' \in Nat /\ genesis <= genesis'
  BY <1>1, <1>s DEF Prunings
<1>3. /\ \A b \in 1..last : (HasLeaf(b)' <=> HasLeaf(b)) /\ log'[b].version = log[b].version
      /\ HasLeaf(n)' <=> leaf
  <2>1. \A b \in 1..last : log'[b] = log[b]
    BY <1>1, <1>s
  <2> QED BY <1>1, <2>1 DEF HasLeaf
<1>r. root <= last + Prunings /\ root + 1 \in Kv!Versions /\ Kv!LeavesAt(root) \in [Kv!Blocks -> Leaves]
  <2>1. last < MaxBlock /\ root \in lastDeleted..root
    BY <1>1, <1>s
  <2> QED BY <1>0, <2>1, RootIs
<1>4. Kv!NewLeaves(n, u.m) \in [Kv!Blocks -> Leaves]
  <2>1. [kind |-> "whole", keys |-> Kv!Touched(u.m)] \in Leaves
    BY UpdatesAre DEF Leaves
  <2> QED BY <1>r, <2>1 DEF Kv!NewLeaves
<1>5. trees' \in [Kv!Versions -> Trees] /\ root' \in Nat /\ lastDeleted' <= root' /\ log'[n].version \in Nat
  <2>1. trees \in [Kv!Versions -> Trees] /\ Kv!NewLeaves(n, u.m) \in Trees
    BY <1>0, <1>4, TreeIs DEF KvTyped
  <2>2. trees' \in [Kv!Versions -> Trees]
    BY <1>1, <2>1
  <2> QED BY <1>1, <1>s, <2>2
<1>6. root' = (IF leaf THEN root + 1 ELSE root) /\ (leaf => log'[n].version = root + 1)
  BY <1>1
<1>g. /\ \A b \in 1..last : b >= genesis /\ HasLeaf(b) =>
           /\ lastDeleted < log[b].version /\ log[b].version <= root
           /\ \A d \in (b + 1)..last : HasLeaf(d) => log[b].version < log[d].version
      /\ \A v \in 1..root : v >= lastDeleted => trees[v] # Kv!NoTree
      /\ \A v \in 1..root : v > lastDeleted => v \in stale
  BY <1>0 DEF VersionsGrow
<1>f. /\ \A x \in 0..last : (\A b \in (x + 1)..last : ~HasLeaf(b)) => root <= x + Prunings
      /\ \A d \in 1..last : HasLeaf(d) =>
           \A x \in 0..(d - 1) :
             (\A b \in (x + 1)..(d - 1) : ~HasLeaf(b)) => log[d].version <= x + 1 + Prunings
  BY <1>0 DEF VersionsFit
<1> HIDE DEF leaf
<1>7. ASSUME NEW b \in 1..n, b >= genesis', HasLeaf(b)'
      PROVE  /\ lastDeleted < log'[b].version /\ log'[b].version <= root'
             /\ \A d \in (b + 1)..n : HasLeaf(d)' => log'[b].version < log'[d].version
  <2>1. CASE b = n
    <3>1. log'[b].version = root + 1 /\ root' = root + 1
      BY <1>3, <1>6, <1>7, <2>1
    <3>2. \A d \in (b + 1)..n : FALSE
      BY <1>s, <2>1
    <3>3. lastDeleted < log'[b].version /\ log'[b].version <= root'
      BY <1>s, <3>1
    <3> QED BY <3>2, <3>3
  <2>2. CASE b # n
    <3>1. b \in 1..last /\ b >= genesis
      BY <1>2, <1>7, <1>s, <2>2
    <3>2. /\ lastDeleted < log'[b].version /\ log'[b].version <= root /\ log'[b].version \in Nat
          /\ \A d \in (b + 1)..last : HasLeaf(d) => log'[b].version < log[d].version
      BY <1>3, <1>7, <1>g, <1>s, <3>1
    <3>3. log'[b].version <= root'
      <4>1. root' = root \/ root' = root + 1
        BY <1>6
      <4> QED BY <1>s, <3>2, <4>1
    <3>4. ASSUME NEW d \in (b + 1)..n, HasLeaf(d)' PROVE log'[b].version < log'[d].version
      <4>1. CASE d = n
        BY <1>3, <1>6, <1>s, <3>2, <3>4, <4>1
      <4>2. CASE d # n
        <5>1. d \in (b + 1)..last /\ d \in 1..last
          BY <1>s, <4>2
        <5> QED BY <1>3, <3>2, <3>4, <5>1
      <4> QED BY <4>1, <4>2
    <3> QED BY <3>2, <3>3, <3>4
  <2> QED BY <2>1, <2>2
<1>8. ASSUME NEW v \in 1..root', v >= lastDeleted PROVE trees'[v] # Kv!NoTree /\ (v > lastDeleted => v \in stale')
  <2>1. CASE leaf
    <3>1. trees \in [Kv!Versions -> Trees]
      BY <1>0 DEF KvTyped
    <3>2. CASE v = root + 1
      <4>1. trees'[v] = Kv!NewLeaves(n, u.m)
        BY <1>1, <1>r, <2>1, <3>1, <3>2 DEF leaf
      <4> QED BY <1>1, <1>4, <2>1, <3>2, <4>1, TreeIs DEF leaf
    <3>3. CASE v # root + 1
      <4>1. v \in 1..root
        BY <1>6, <1>s, <2>1, <3>3
      <4>2. trees'[v] = trees[v]
        <5>1. trees' = [trees EXCEPT ![root + 1] = Kv!NewLeaves(n, u.m)] /\ v \in Kv!Versions
          BY <1>1, <1>r, <1>s, <2>1, <4>1 DEF leaf, Kv!Versions
        <5> QED BY <3>1, <3>3, <5>1
      <4> QED BY <1>1, <1>8, <1>g, <2>1, <4>1, <4>2 DEF leaf
    <3> QED BY <3>2, <3>3
  <2>2. CASE ~leaf
    BY <1>1, <1>8, <1>g, <2>2 DEF leaf
  <2> QED BY <2>1, <2>2
<1>9. VersionsGrow'
  <2>1. /\ \A b \in 1..last' : b >= genesis' /\ HasLeaf(b)' =>
             /\ lastDeleted' < log'[b].version /\ log'[b].version <= root'
             /\ \A d \in (b + 1)..last' : HasLeaf(d)' => log'[b].version < log'[d].version
        /\ \A v \in 1..root' : v >= lastDeleted' => trees'[v] # Kv!NoTree
        /\ \A v \in 1..root' : v > lastDeleted' => v \in stale'
    <3>1. \A v \in 1..root' : v > lastDeleted => v >= lastDeleted
      BY <1>5, <1>s
    <3> QED BY <1>1, <1>7, <1>8, <3>1
  <2> QED BY <2>1 DEF VersionsGrow
<1>10. ASSUME NEW x \in 0..n, \A b \in (x + 1)..n : ~HasLeaf(b)' PROVE root' <= x + Prunings
  <2>1. CASE x = n
    BY <1>6, <1>r, <1>s, <2>1
  <2>2. CASE x # n
    <3>1. x \in 0..last /\ n \in (x + 1)..n
      BY <1>s, <2>2
    <3>2. ~leaf
      BY <1>3, <1>10, <3>1
    <3>3. \A b \in (x + 1)..last : b \in 1..last /\ b \in (x + 1)..n
      BY <1>s, <3>1
    <3>4. \A b \in (x + 1)..last : ~HasLeaf(b)
      BY <1>3, <1>10, <3>3
    <3> QED BY <1>6, <1>f, <3>1, <3>2, <3>4
  <2> QED BY <2>1, <2>2
<1>11. ASSUME NEW d \in 1..n, HasLeaf(d)', NEW x \in 0..(d - 1), \A b \in (x + 1)..(d - 1) : ~HasLeaf(b)'
       PROVE  log'[d].version <= x + 1 + Prunings
  <2>0. d - 1 \in 0..last /\ \A b \in (x + 1)..(d - 1) : b \in 1..last
    BY <1>s
  <2>1. \A b \in (x + 1)..(d - 1) : ~HasLeaf(b)
    BY <1>3, <1>11, <2>0
  <2>2. CASE d = n
    <3>1. log'[d].version = root + 1 /\ d - 1 = last
      BY <1>3, <1>6, <1>11, <1>s, <2>2
    <3>2. root <= x + Prunings
      BY <1>f, <2>1, <3>1
    <3> QED BY <1>s, <3>1, <3>2
  <2>3. CASE d # n
    <3>1. d \in 1..last
      BY <1>s, <2>3
    <3> QED BY <1>3, <1>11, <1>f, <2>1, <3>1
  <2> QED BY <2>2, <2>3
<1>12. VersionsFit'
  <2>1. /\ \A x \in 0..last' : (\A b \in (x + 1)..last' : ~HasLeaf(b)') => root' <= x + Prunings'
        /\ \A d \in 1..last' : HasLeaf(d)' =>
             \A x \in 0..(d - 1) :
               (\A b \in (x + 1)..(d - 1) : ~HasLeaf(b)') => log'[d].version <= x + 1 + Prunings'
    <3> QED BY <1>1, <1>2, <1>10, <1>11
  <2> QED BY <2>1 DEF VersionsFit
<1> QED BY <1>1, <1>5, <1>9, <1>12, <1>s

LEMMA AppendParents ==
  ASSUME ChainSizes, ReadInv, NEW u, NEW g, g \in Nat,
         u.v \in Kv!VUpdates, u.m \in Kv!MUpdates, Kv!Append(u, g)
  PROVE  ParentsFit' /\ cache'.id \in Nat
<1>0. KvTyped /\ VersionsGrow /\ VersionsFit
  BY DEF ReadInv
<1>n. PICK n \in Int : n = last + 1
  BY <1>0 DEF KvTyped
<1>1. /\ last' = n /\ n \in Kv!Blocks /\ genesis' = (IF genesis = 0 THEN 1 ELSE genesis)
      /\ \A x \in Kv!Blocks : x # n => log'[x] = log[x]
      /\ log'[n].v = u.v /\ log'[n].m = u.m /\ log'[n].genesis = g
      /\ log'[n].parent = Kv!Parent(n)
      /\ cache' = [id |-> n, genesis |-> g, hash |-> log'[n].hash, v |-> u.v, m |-> u.m]
  BY <1>0, <1>n, AppendIs
<1>s. /\ MaxBlock \in Nat /\ Kv!Blocks = 1..MaxBlock /\ last \in Nat /\ genesis \in Nat
      /\ n = last + 1 /\ \A b \in 1..last : b \in Kv!Blocks /\ b # n
  BY <1>0, <1>n, ChainShapes
<1>2. \A b \in 1..last : Kv!FromStorage(b)' = Kv!FromStorage(b)
  BY <1>1, <1>s DEF Kv!FromStorage
<1>p. /\ \A b \in 2..last : b > genesis => log[b].parent = Kv!FromStorage(b - 1)
      /\ cache.id \in 1..last => cache = Kv!FromStorage(cache.id)
  BY DEF ReadInv, ParentsFit
<1>3. ASSUME NEW b \in 2..n, b > genesis' PROVE log'[b].parent = Kv!FromStorage(b - 1)'
  <2>1. b - 1 \in 1..last /\ b # 1
    BY <1>s
  <2>2. Kv!FromStorage(b - 1)' = Kv!FromStorage(b - 1)
    BY <1>2, <2>1
  <2>3. CASE b = n
    <3>1. Kv!Parent(n) = IF cache.id = n - 1 THEN cache ELSE Kv!FromStorage(n - 1)
      BY <2>1, <2>3 DEF Kv!Parent
    <3>2. Kv!Parent(n) = Kv!FromStorage(n - 1)
      BY <1>p, <2>1, <2>3, <3>1
    <3> QED BY <1>1, <2>2, <2>3, <3>2
  <2>4. CASE b # n
    <3>1. b \in 2..last /\ b > genesis /\ b \in Kv!Blocks
      BY <1>1, <1>3, <1>s, <2>4
    <3> QED BY <1>1, <1>p, <2>2, <2>4, <3>1
  <2> QED BY <2>3, <2>4
<1>4. cache' = Kv!FromStorage(n)' /\ cache'.id = n
  <2>1. u.v = [k \in VKeys |-> u.v[k]] /\ u.m = [k \in MKeys |-> u.m[k]]
    BY DEF Kv!VUpdates, Kv!MUpdates
  <2> QED BY <1>1, <2>1 DEF Kv!FromStorage
<1> QED BY <1>1, <1>3, <1>4, <1>s DEF ParentsFit

LEMMA AppendRead ==
  ASSUME ChainSizes, ReadInv, NEW u, NEW g, g \in Nat,
         u.v \in Kv!VUpdates, u.m \in Kv!MUpdates, Kv!Append(u, g), raw' = Kv!NoBlock
  PROVE  ReadInv'
<1>0. KvTyped /\ VersionsGrow /\ VersionsFit
  BY DEF ReadInv
<1>n. PICK n \in Int : n = last + 1
  BY <1>0 DEF KvTyped
<1>1. /\ last' = n /\ n \in Kv!Blocks /\ genesis' = (IF genesis = 0 THEN 1 ELSE genesis)
      /\ lastDeleted' = lastDeleted /\ pruned' = pruned /\ prunedAt' = prunedAt /\ undone' = undone
      /\ log' = [x \in Kv!Blocks |-> log'[x]] /\ \A x \in Kv!Blocks : x # n => log'[x] = log[x]
      /\ log'[n].v = u.v /\ log'[n].m = u.m /\ log'[n].genesis = g
  BY <1>0, <1>n, AppendIs
<1>2. /\ VersionsGrow' /\ VersionsFit' /\ trees' \in [Kv!Versions -> Trees] /\ root' \in Nat
      /\ lastDeleted' <= root' /\ log'[n].version \in Nat
  BY <1>n, AppendVersions
<1>3. ParentsFit' /\ cache'.id \in Nat
  BY AppendParents
<1>4. /\ CategoryTyped(ver, VKeys)' /\ CategoryTyped(mer, MKeys)'
      /\ KeysReadable(ver, VKeys, VLog, last, genesis)'
      /\ KeysReadable(mer, MKeys, MLog, last, genesis)'
      /\ PrunedFits'
  BY AppendKeys
<1>s. /\ MaxBlock \in Nat /\ Kv!Blocks = 1..MaxBlock /\ last \in Nat /\ genesis \in Nat /\ genesis <= last
      /\ n = last + 1 /\ \A b \in 1..last : b \in Kv!Blocks /\ b # n
  BY <1>0, <1>n, ChainShapes
<1>5. genesis' \in 0..MaxBlock /\ last' \in 0..MaxBlock /\ genesis' <= last' /\ (genesis' = 0 => last' = 0)
  BY <1>1, <1>s
<1>6. \A b \in 1..n : /\ log'[b].v \in Kv!VUpdates /\ log'[b].m \in Kv!MUpdates
                      /\ log'[b].version \in Nat /\ log'[b].genesis \in Nat
  <2> SUFFICES ASSUME NEW b \in 1..n
               PROVE  /\ log'[b].v \in Kv!VUpdates /\ log'[b].m \in Kv!MUpdates
                      /\ log'[b].version \in Nat /\ log'[b].genesis \in Nat
    OBVIOUS
  <2>1. CASE b = n
    BY <1>1, <1>2, <2>1
  <2>2. CASE b # n
    <3>1. b \in 1..last /\ b \in Kv!Blocks
      BY <1>s, <2>2
    <3> QED BY <1>0, <1>1, <2>2, <3>1 DEF KvTyped
  <2> QED BY <2>1, <2>2
<1>7. KvTyped'
  BY <1>0, <1>1, <1>2, <1>3, <1>4, <1>5, <1>6 DEF KvTyped, Kv!VUpdates, Kv!MUpdates, Kv!Versions, Kv!Blocks, Trees,
     Kv!NoTree, Kv!NoLeaf, Leaves
<1> QED BY <1>2, <1>3, <1>4, <1>7 DEF ReadInv

(* The leaves after a block was added, and those of older versions *)
LEMMA AppendLeaves ==
  ASSUME ChainSizes, ReadInv, NEW u, NEW g, g \in Nat,
         u.v \in Kv!VUpdates, u.m \in Kv!MUpdates, Kv!Append(u, g)
  PROVE  /\ \A b \in Kv!Blocks :
              Kv!LeavesAt(root)'[b] = IF b = last + 1 /\ Kv!Touched(u.m) # {}
                                      THEN [kind |-> "whole", keys |-> Kv!Touched(u.m)]
                                      ELSE Kv!LeavesAt(root)[b]
         /\ \A v \in 0..root : Kv!LeavesAt(v)' = Kv!LeavesAt(v)
<1>0. KvTyped /\ VersionsGrow /\ VersionsFit
  BY DEF ReadInv
<1>s. /\ last \in Nat /\ root \in Nat /\ MaxBlock \in Nat /\ Kv!Blocks = 1..MaxBlock
      /\ lastDeleted \in Nat /\ lastDeleted <= root
  BY <1>0, ChainShapes
<1>1. /\ last + 1 \in Kv!Blocks
      /\ Kv!Touched(u.m) # {} =>
           root' = root + 1 /\ trees' = [trees EXCEPT ![root + 1] = Kv!NewLeaves(last + 1, u.m)]
      /\ Kv!Touched(u.m) = {} => UNCHANGED <<trees, root>>
  BY <1>0, AppendIs
<1>2. root + 1 \in Kv!Versions /\ Kv!LeavesAt(root) \in [Kv!Blocks -> Leaves] /\ root \in 0..(2 * MaxBlock)
  <2>1. last < MaxBlock /\ root \in lastDeleted..root
    BY <1>1, <1>s
  <2> QED BY <1>0, <2>1, RootIs
<1>3. trees \in [Kv!Versions -> Trees]
  BY <1>0 DEF KvTyped
<1>4. CASE Kv!Touched(u.m) = {}
  <2>1. trees' = trees /\ root' = root
    BY <1>1, <1>4
  <2> QED BY <1>4, <2>1 DEF Kv!LeavesAt, Kv!NoLeaves, Kv!Blocks, Kv!NoLeaf
<1>5. CASE Kv!Touched(u.m) # {}
  <2>1. root' = root + 1 /\ trees' = [trees EXCEPT ![root + 1] = Kv!NewLeaves(last + 1, u.m)]
    BY <1>1, <1>5
  <2>2. trees'[root + 1] = Kv!NewLeaves(last + 1, u.m)
    BY <1>2, <1>3, <2>1
  <2>3. Kv!LeavesAt(root)' = Kv!NewLeaves(last + 1, u.m)
    BY <1>s, <2>1, <2>2 DEF Kv!LeavesAt
  <2>4. \A b \in Kv!Blocks :
          Kv!NewLeaves(last + 1, u.m)[b] = IF b = last + 1 THEN [kind |-> "whole", keys |-> Kv!Touched(u.m)]
                                           ELSE Kv!LeavesAt(root)[b]
    BY <1>2 DEF Kv!NewLeaves
  <2>5. ASSUME NEW v \in 0..root PROVE Kv!LeavesAt(v)' = Kv!LeavesAt(v)
    <3>1. CASE v = 0
      BY <3>1 DEF Kv!LeavesAt, Kv!NoLeaves, Kv!Blocks, Kv!NoLeaf
    <3>2. CASE v # 0
      <4>1. v \in Kv!Versions /\ v # root + 1
        BY <1>2, <1>s, <3>2 DEF Kv!Versions
      <4>2. trees'[v] = trees[v]
        BY <1>3, <2>1, <4>1
      <4> QED BY <3>2, <4>2 DEF Kv!LeavesAt
    <3> QED BY <3>1, <3>2
  <2> QED BY <1>5, <2>3, <2>4, <2>5
<1> QED BY <1>4, <1>5

(***************************************************************************)
(* The last block that was there when block b was pruned                   *)
(***************************************************************************)
SeenOf(L, l, b) ==
  LET after == {x \in (b + 1)..l : L[x].genesis > b}
  IN  IF after = {} THEN l ELSE Kv!Min(after) - 1

Seen(L, l, b, p) ==
  /\ p \in b..l /\ \A x \in (b + 1)..p : ~(L[x].genesis > b)
  /\ p = l \/ L[p + 1].genesis > b

LEMMA SeenIs ==
  ASSUME NEW L, NEW l \in Nat, NEW b \in 1..l
  PROVE  /\ Seen(L, l, b, SeenOf(L, l, b))
         /\ \A p : Seen(L, l, b, p) => p = SeenOf(L, l, b)
<1> DEFINE after == {x \in (b + 1)..l : L[x].genesis > b}
<1>1. SeenOf(L, l, b) = IF after = {} THEN l ELSE Kv!Min(after) - 1
  BY DEF SeenOf
<1>2. CASE after = {}
  <2>1. SeenOf(L, l, b) = l /\ \A x \in (b + 1)..l : ~(L[x].genesis > b)
    BY <1>1, <1>2
  <2>2. ASSUME NEW p, Seen(L, l, b, p) PROVE p = l
    <3>1. p \in b..l /\ (p = l \/ L[p + 1].genesis > b)
      BY <2>2 DEF Seen
    <3>2. p # l => p + 1 \in (b + 1)..l
      BY <3>1
    <3> QED BY <2>1, <3>1, <3>2
  <2> QED BY <2>1, <2>2 DEF Seen
<1>3. CASE after # {}
  <2>0. after \in SUBSET Nat
    OBVIOUS
  <2>1. PICK m \in after : \A y \in after : m <= y
    <3> HIDE DEF after
    <3> QED BY <1>3, <2>0, LeastNat
  <2>2. Kv!Min(after) \in after /\ \A y \in after : Kv!Min(after) <= y
    <3> HIDE DEF after
    <3> QED BY <2>1 DEF Kv!Min
  <2>3. PICK q \in (b + 1)..l : /\ q = Kv!Min(after) /\ L[q].genesis > b
                                /\ \A y \in after : q <= y
    BY <2>2
  <2>4. \A x \in (b + 1)..(q - 1) : ~(L[x].genesis > b)
    <3> SUFFICES ASSUME NEW x \in (b + 1)..(q - 1), L[x].genesis > b PROVE FALSE
      OBVIOUS
    <3>1. x \in after
      OBVIOUS
    <3>2. q <= x
      <4> HIDE DEF after
      <4> QED BY <2>3, <3>1
    <3> QED BY <3>2
  <2>5. SeenOf(L, l, b) = q - 1
    <3> HIDE DEF after
    <3> QED BY <1>1, <1>3, <2>3
  <2>6. q - 1 \in b..l /\ (q - 1) + 1 = q
    OBVIOUS
  <2>7. Seen(L, l, b, q - 1)
    BY <2>3, <2>4, <2>6 DEF Seen
  <2>8. ASSUME NEW p, Seen(L, l, b, p) PROVE p = q - 1
    <3>1. p \in b..l /\ (\A x \in (b + 1)..p : ~(L[x].genesis > b)) /\ (p = l \/ L[p + 1].genesis > b)
      BY <2>8 DEF Seen
    <3>2. ~(q \in (b + 1)..p)
      BY <2>3, <3>1
    <3>3. p <= q - 1 /\ p # l
      BY <3>1, <3>2
    <3>4. ~(p + 1 \in (b + 1)..(q - 1))
      BY <2>4, <3>1, <3>3
    <3> QED BY <3>1, <3>3, <3>4
  <2> QED BY <2>5, <2>7, <2>8
<1> QED BY <1>2, <1>3

LEMMA SeenLastIs ==
  ASSUME NEW b \in Kv!Blocks
  PROVE  SeenLast[b] = SeenOf(log, last, b) /\ SeenLast'[b] = SeenOf(log', last', b)
BY DEF SeenLast, SeenOf, Kv!LastWhenPruned

LEMMA AppendChain ==
  ASSUME ChainSizes, ReadInv, ChainInv, NEW u, NEW g, g = genesis,
         u.v \in Kv!VUpdates, u.m \in Kv!MUpdates, Kv!Append(u, g)
  PROVE  ChainInv'
<1>0. KvTyped /\ VersionsGrow /\ VersionsFit
  BY DEF ReadInv
<1>n. PICK n \in Int : n = last + 1
  BY <1>0 DEF KvTyped
<1>s. /\ MaxBlock \in Nat /\ Kv!Blocks = 1..MaxBlock /\ last \in Nat /\ genesis \in Nat /\ genesis <= last
      /\ (genesis = 0 => last = 0) /\ prunedAt \in Nat /\ root \in Nat /\ lastDeleted \in Nat /\ g \in Nat
      /\ n = last + 1
      /\ \A b \in 1..last : /\ b \in Kv!Blocks /\ b # n /\ log[b].genesis \in Nat
                            /\ log[b].version \in Nat /\ VLog[b] = log[b].v /\ MLog[b] = log[b].m
  BY <1>0, <1>n, ChainShapes
<1>1. /\ last' = n /\ n \in Kv!Blocks /\ genesis' = (IF genesis = 0 THEN 1 ELSE genesis)
      /\ ver' = Kv!Add(ver, n, u.v) /\ mer' = Kv!Add(mer, n, u.m)
      /\ pruned' = pruned /\ prunedAt' = prunedAt /\ undone' = undone
      /\ \A x \in Kv!Blocks : x # n => log'[x] = log[x]
      /\ log'[n].v = u.v /\ log'[n].m = u.m /\ log'[n].genesis = g
      /\ Kv!Touched(u.m) # {} => log'[n].version = root + 1
  BY <1>0, <1>n, <1>s, AppendIs
<1>2. CASE undone
  BY <1>1, <1>2 DEF ChainInv
<1>3. CASE ~undone
  <2>1. /\ GenesisRecorded /\ OldTrees
        /\ KeysFollow(ver, VKeys, VLog, SeenLast, last, genesis)
        /\ KeysFollow(mer, MKeys, MLog, SeenLast, last, genesis)
        /\ \A b \in Kv!Blocks : Kv!LeavesAt(root)[b] = LeafOf(b)
    BY <1>3 DEF ChainInv
  <2>2. /\ \A b \in 1..last : log'[b] = log[b] /\ genesis' = genesis
        /\ genesis <= genesis' /\ (genesis' > 1 => genesis' = genesis) /\ genesis' \in Nat
        /\ genesis' <= n
    BY <1>1, <1>s
  <2>l. /\ \A b \in Kv!Blocks :
             Kv!LeavesAt(root)'[b] = IF b = n /\ Kv!Touched(u.m) # {}
                                     THEN [kind |-> "whole", keys |-> Kv!Touched(u.m)]
                                     ELSE Kv!LeavesAt(root)[b]
        /\ \A v \in 0..root : Kv!LeavesAt(v)' = Kv!LeavesAt(v)
    BY <1>n, <1>s, AppendLeaves
  <2>g. /\ prunedAt <= last /\ genesis <= prunedAt + 1
        /\ \A x \in 1..last :
             /\ log[x].genesis <= genesis
             /\ IF x <= prunedAt THEN log[x].genesis < genesis
                ELSE genesis > 1 => log[x].genesis = genesis
    BY <2>1 DEF GenesisRecorded
  <2>3. GenesisRecorded'
    <3>1. prunedAt <= n /\ genesis' <= prunedAt + 1
      BY <1>1, <1>s, <2>g
    <3>2. ASSUME NEW x \in 1..n
          PROVE  /\ log'[x].genesis <= genesis'
                 /\ IF x <= prunedAt THEN log'[x].genesis < genesis'
                    ELSE genesis' > 1 => log'[x].genesis = genesis'
      <4>1. CASE x = n
        BY <1>1, <1>s, <2>2, <2>g, <4>1
      <4>2. CASE x # n
        <5>1. x \in 1..last
          BY <1>s, <4>2
        <5> QED BY <2>2, <2>g, <5>1
      <4> QED BY <4>1, <4>2
    <3> QED BY <1>1, <3>1, <3>2 DEF GenesisRecorded
  <2>4. ASSUME NEW b \in 1..last, b < genesis
        PROVE  SeenLast'[b] = SeenLast[b] /\ SeenLast[b] \in Nat /\ SeenLast[b] <= last
    <3>1. PICK p : p = SeenOf(log, last, b) /\ Seen(log, last, b, p)
      BY <1>s, SeenIs
    <3>2. /\ p \in b..last /\ (\A x \in (b + 1)..p : ~(log[x].genesis > b))
          /\ (p = last \/ log[p + 1].genesis > b)
      BY <3>1 DEF Seen
    <3>3. Seen(log', n, b, p)
      <4>1. p \in b..n /\ \A x \in (b + 1)..p : x \in 1..last
        BY <1>s, <3>2
      <4>2. \A x \in (b + 1)..p : ~(log'[x].genesis > b)
        BY <2>2, <3>2, <4>1
      <4>3. log'[p + 1].genesis > b
        <5>1. CASE p = last
          BY <1>1, <1>s, <2>4, <5>1
        <5>2. CASE p # last
          <6>1. p + 1 \in 1..last
            BY <1>s, <3>2, <5>2
          <6> QED BY <2>2, <3>2, <5>2, <6>1
        <5> QED BY <5>1, <5>2
      <4> QED BY <4>1, <4>2, <4>3 DEF Seen
    <3>4. SeenOf(log', n, b) = p
      <4>1. n \in Nat /\ b \in 1..n
        BY <1>s
      <4> QED BY <3>3, <4>1, SeenIs
    <3>5. SeenLast[b] = p /\ SeenLast'[b] = p
      BY <1>1, <1>s, <3>1, <3>4, SeenLastIs
    <3> QED BY <1>s, <3>2, <3>5
  <2>5. KeysFollow(ver, VKeys, VLog, SeenLast, last, genesis)'
        /\ KeysFollow(mer, MKeys, MLog, SeenLast, last, genesis)'
    <3>1. /\ \A b \in 1..last : VLog'[b] = VLog[b] /\ MLog'[b] = MLog[b]
          /\ VLog'[n] = u.v /\ MLog'[n] = u.m
      BY <1>1, <1>s, <2>2 DEF VLog, MLog
    <3>2. genesis \in 0..last /\ genesis' \in {genesis, 1} /\ genesis <= genesis' /\ last + 1 \in Kv!Blocks
      BY <1>1, <1>s, <2>2
    <3>3. u.v \in UpdatesOf(VKeys) /\ u.m \in UpdatesOf(MKeys)
      BY UpdatesAre
    <3>4. CategoryTyped(ver, VKeys) /\ CategoryTyped(mer, MKeys)
      BY <1>0 DEF KvTyped
    <3>5. \A b \in 1..last : b < genesis =>
            SeenLast'[b] = SeenLast[b] /\ SeenLast[b] \in Nat /\ SeenLast[b] <= last
      BY <2>4
    <3>a. VLog'[last + 1] = u.v /\ MLog'[last + 1] = u.m /\ last \in Nat
      BY <1>s, <3>1
    <3>b. /\ \A b \in 1..last : VLog'[b] = VLog[b]
          /\ KeysFollow(ver, VKeys, VLog, SeenLast, last, genesis)
      BY <2>1, <3>1
    <3>c. /\ \A b \in 1..last : MLog'[b] = MLog[b]
          /\ KeysFollow(mer, MKeys, MLog, SeenLast, last, genesis)
      BY <2>1, <3>1
    <3>6. KeysFollow(Kv!Add(ver, last + 1, u.v), VKeys, VLog', SeenLast', last + 1, genesis')
      BY <3>2, <3>3, <3>4, <3>5, <3>a, <3>b, FollowAdd, ZenonT(60)
    <3>7. KeysFollow(Kv!Add(mer, last + 1, u.m), MKeys, MLog', SeenLast', last + 1, genesis')
      BY <3>2, <3>3, <3>4, <3>5, <3>a, <3>c, FollowAdd, ZenonT(60)
    <3> QED BY <1>1, <1>s, <3>6, <3>7
  <2>6. ASSUME NEW b \in Kv!Blocks PROVE Kv!LeavesAt(root)'[b] = LeafOf(b)'
    <3>1. CASE b > n
      <4>1. b > last /\ b > last' /\ b # n
        BY <1>1, <1>s, <3>1
      <4>2. LeafOf(b)' = Kv!NoLeaf /\ LeafOf(b) = Kv!NoLeaf
        BY <4>1 DEF LeafOf, Kv!NoLeaf
      <4> QED BY <2>1, <2>l, <4>1, <4>2
    <3>2. CASE b = n
      <4>1. HasLeaf(b)' <=> Kv!Touched(u.m) # {}
        BY <1>1, <3>2 DEF HasLeaf
      <4>2. LeafOf(b)' = IF Kv!Touched(u.m) # {} THEN [kind |-> "whole", keys |-> Kv!Touched(u.m)]
                         ELSE Kv!NoLeaf
        BY <1>1, <1>s, <2>2, <3>2, <4>1 DEF LeafOf, HasLeaf
      <4>3. LeafOf(b) = Kv!NoLeaf
        BY <1>s, <3>2 DEF LeafOf
      <4> QED BY <2>1, <2>l, <3>2, <4>2, <4>3
    <3>3. CASE b < n
      <4>1. b \in 1..last
        BY <1>s, <3>3
      <4>2. LeafOf(b)' = LeafOf(b)
        <5>1. /\ log'[b] = log[b] /\ genesis' = genesis /\ pruned'[b] = pruned[b]
              /\ ~(b > last) /\ ~(b > last')
          BY <1>1, <1>s, <2>2, <4>1
        <5> QED BY <5>1 DEF LeafOf, HasLeaf
      <4> QED BY <1>s, <2>1, <2>l, <3>3, <4>1, <4>2
    <3> QED BY <1>s, <3>1, <3>2, <3>3
  <2>7. ASSUME NEW d \in 1..n, d > prunedAt, HasLeaf(d)', NEW b \in Kv!Blocks
        PROVE  Kv!LeavesAt(log[d].version - 1)'[b] = IF b >= d THEN Kv!NoLeaf ELSE Kv!LeavesAt(root)'[b]
    <3>1. CASE d = n
      <4>1. Kv!Touched(u.m) # {}
        BY <1>1, <2>7, <3>1 DEF HasLeaf
      <4>2. log'[d].version - 1 = root
        BY <1>1, <1>s, <3>1, <4>1
      <4>3. Kv!LeavesAt(log[d].version - 1)' = Kv!LeavesAt(root)
        <5>1. PICK v \in 0..root : v = log'[d].version - 1 /\ v = root
          BY <1>s, <4>2
        <5>2. Kv!LeavesAt(log[d].version - 1)' = Kv!LeavesAt(v)'
          BY <5>1 DEF Kv!LeavesAt
        <5> QED BY <2>l, <5>1, <5>2
      <4>4. b >= d => Kv!LeavesAt(root)[b] = Kv!NoLeaf
        <5>1. b >= d => b > last
          BY <1>s, <3>1
        <5> QED BY <2>1, <5>1 DEF LeafOf
      <4>5. ~(b >= d) => Kv!LeavesAt(root)'[b] = Kv!LeavesAt(root)[b]
        BY <1>s, <2>l, <3>1
      <4> QED BY <4>3, <4>4, <4>5
    <3>2. CASE d # n
      <4>1. d \in 1..last /\ d >= genesis /\ d # n
        BY <1>s, <2>7, <2>g, <3>2
      <4>2. log'[d] = log[d] /\ HasLeaf(d)
        <5>1. log'[d] = log[d]
          BY <2>2, <4>1
        <5> QED BY <2>7, <5>1 DEF HasLeaf
      <4>3. lastDeleted < log[d].version /\ log[d].version <= root /\ log[d].version \in Nat
        BY <1>0, <1>s, <4>1, <4>2 DEF VersionsGrow
      <4>4. PICK v \in 0..root : v = log[d].version - 1
        <5>1. log[d].version - 1 \in 0..root
          BY <1>s, <4>3
        <5> QED BY <5>1
      <4>5. Kv!LeavesAt(log[d].version - 1)' = Kv!LeavesAt(v)'
        BY <4>2, <4>4 DEF Kv!LeavesAt
      <4>6. Kv!LeavesAt(v)[b] = IF b >= d THEN Kv!NoLeaf ELSE Kv!LeavesAt(root)[b]
        BY <2>1, <2>7, <4>1, <4>2, <4>4 DEF OldTrees
      <4>7. ~(b >= d) => b # n
        BY <1>s, <4>1
      <4> QED BY <2>l, <4>4, <4>5, <4>6, <4>7
    <3> QED BY <3>1, <3>2
  <2>8. OldTrees'
    BY <1>1, <2>7 DEF OldTrees
  <2>9. \A b \in Kv!Blocks : Kv!LeavesAt(root)'[b] = LeafOf(b)'
    BY <2>6
  <2> QED BY <2>3, <2>5, <2>8, <2>9 DEF ChainInv
<1> QED BY <1>2, <1>3

(***************************************************************************)
(* The genesis block is pruned.                                            *)
(***************************************************************************)
LEMMA PruneIs ==
  ASSUME ChainSizes, KvTyped, NEW g, g = genesis, Kv!PruneGenesis
  PROVE  /\ g \in 1..last /\ g \in Kv!Blocks /\ g < last /\ last \in Kv!Blocks
         /\ genesis' = g + 1 /\ prunedAt' = last /\ last' = last /\ log' = log /\ cache' = cache
         /\ undone' = undone
         /\ ver' = Kv!DeleteGenesis(ver, g, log[g].v) /\ mer' = Kv!DeleteGenesis(mer, g, log[g].m)
         /\ HasLeaf(g) =>
              /\ pruned' = Kv!PrunedAfter(g, log[g].m)
              /\ trees' = [Kv!WithoutStale(trees, Kv!StaleBefore(log[g].version) \cup {log[g].version})
                           EXCEPT ![root + 1] = Kv!PrunedLeaves(g, log[g].m)]
              /\ root' = root + 1
              /\ stale' = (stale \cup {root + 1}) \ (Kv!StaleBefore(log[g].version) \cup {log[g].version})
              /\ lastDeleted' = log[g].version
         /\ ~HasLeaf(g) => UNCHANGED <<pruned, trees, root, stale, lastDeleted>>
<1>1. 1 <= genesis /\ genesis < last
  BY DEF Kv!PruneGenesis
<1>2. /\ genesis \in Nat /\ last \in Nat /\ last <= MaxBlock /\ MaxBlock \in Nat /\ Kv!Blocks = 1..MaxBlock
  BY ChainShapes
<1>3. g \in 1..last /\ g \in Kv!Blocks /\ g < last /\ last \in Kv!Blocks
  BY <1>1, <1>2
<1>4. /\ genesis' = g + 1 /\ prunedAt' = last /\ last' = last /\ log' = log /\ cache' = cache
      /\ undone' = undone
      /\ ver' = Kv!DeleteGenesis(ver, g, log[g].v) /\ mer' = Kv!DeleteGenesis(mer, g, log[g].m)
  BY DEF Kv!PruneGenesis
<1>5. HasLeaf(g) =>
        /\ pruned' = Kv!PrunedAfter(g, log[g].m)
        /\ trees' = [Kv!WithoutStale(trees, Kv!StaleBefore(log[g].version) \cup {log[g].version})
                     EXCEPT ![root + 1] = Kv!PrunedLeaves(g, log[g].m)]
        /\ root' = root + 1
        /\ stale' = (stale \cup {root + 1}) \ (Kv!StaleBefore(log[g].version) \cup {log[g].version})
        /\ lastDeleted' = log[g].version
  BY DEF Kv!PruneGenesis, HasLeaf
<1>6. ~HasLeaf(g) => UNCHANGED <<pruned, trees, root, stale, lastDeleted>>
  BY DEF Kv!PruneGenesis, HasLeaf
<1> QED BY <1>3, <1>4, <1>5, <1>6

LEMMA PruneKeys ==
  ASSUME ChainSizes, ReadInv, Kv!PruneGenesis
  PROVE  /\ CategoryTyped(ver, VKeys)' /\ CategoryTyped(mer, MKeys)'
         /\ KeysReadable(ver, VKeys, VLog, last, genesis)'
         /\ KeysReadable(mer, MKeys, MLog, last, genesis)'
<1>0. KvTyped
  BY DEF ReadInv
<1>1. PICK g : g = genesis
  OBVIOUS
<1>2. /\ g \in 1..last /\ g \in Kv!Blocks /\ last \in Kv!Blocks /\ genesis' = g + 1 /\ last' = last /\ log' = log
      /\ ver' = Kv!DeleteGenesis(ver, g, log[g].v) /\ mer' = Kv!DeleteGenesis(mer, g, log[g].m)
  BY <1>0, <1>1, PruneIs
<1>3. VLog' = VLog /\ MLog' = MLog
  BY <1>2 DEF VLog, MLog
<1>4. /\ VLog[g] = log[g].v /\ log[g].v \in UpdatesOf(VKeys)
      /\ MLog[g] = log[g].m /\ log[g].m \in UpdatesOf(MKeys)
  BY <1>0, <1>2, ChainShapes
<1>5. CategoryTyped(ver, VKeys) /\ CategoryTyped(mer, MKeys)
  BY <1>0 DEF KvTyped
<1>6. /\ CategoryTyped(Kv!DeleteGenesis(ver, g, VLog[g]), VKeys)
      /\ CategoryTyped(Kv!DeleteGenesis(mer, g, MLog[g]), MKeys)
  BY <1>2, <1>4, <1>5, DeleteGenesisIs
<1>7. KeysReadable(Kv!DeleteGenesis(ver, g, VLog[g]), VKeys, VLog, last, g + 1)
  <2>1. KeysReadable(ver, VKeys, VLog, last, g)
    BY <1>1 DEF ReadInv
  <2> QED BY <1>2, <1>4, <1>5, <2>1, ReadableDeleteGenesis
<1>8. KeysReadable(Kv!DeleteGenesis(mer, g, MLog[g]), MKeys, MLog, last, g + 1)
  <2>1. KeysReadable(mer, MKeys, MLog, last, g)
    BY <1>1 DEF ReadInv
  <2> QED BY <1>2, <1>4, <1>5, <2>1, ReadableDeleteGenesis
<1> QED BY <1>2, <1>3, <1>4, <1>6, <1>7, <1>8

(* The active keys of the pruned blocks *)
LEMMA PruneActive ==
  ASSUME ChainSizes, ReadInv, NEW g, g = genesis, Kv!PruneGenesis
  PROVE  /\ PrunedFits' /\ pruned' \in [Kv!Blocks -> SUBSET MKeys] /\ pruned[g] = {}
         /\ HasLeaf(g) => \A b \in Kv!Blocks : b # g /\ b \notin Kv!Rewritten(log[g].m) => pruned'[b] = pruned[b]
         /\ \A b \in Kv!Rewritten(log[g].m) : b \in 1..(g - 1)
<1>0. KvTyped /\ PrunedFits /\ KeysReadable(mer, MKeys, MLog, last, genesis)
  BY DEF ReadInv
<1>p. PICK m : m = log[g].m
  OBVIOUS
<1>1. /\ g \in 1..last /\ g \in Kv!Blocks /\ mer' = Kv!DeleteGenesis(mer, g, m)
      /\ HasLeaf(g) => pruned' = Kv!PrunedAfter(g, m)
      /\ ~HasLeaf(g) => pruned' = pruned
  BY <1>0, <1>p, PruneIs
<1>2. m \in UpdatesOf(MKeys) /\ Kv!Touched(m) = {k \in MKeys : m[k] # "no"} /\ (HasLeaf(g) <=> Kv!Touched(m) # {})
  BY <1>0, <1>1, <1>p, ChainShapes DEF HasLeaf
<1>3. CategoryTyped(mer, MKeys) /\ pruned \in [Kv!Blocks -> SUBSET MKeys]
  BY <1>0 DEF KvTyped
<1>4. \A k \in MKeys :
        /\ m[k] = "no" => mer'.active[k] = mer.active[k]
        /\ m[k] # "no" => mer'.active[k] = IF Kv!Inactive(mer, k, g, m) THEN 0 ELSE g
  BY <1>1, <1>2, <1>3, DeleteGenesisIs
<1>5. \A k \in MKeys : mer.active[k] # 0 => mer.active[k] < g
  BY <1>0 DEF KeysReadable
<1>6. \A k \in MKeys : mer.active[k] \in Nat /\ mer.active[k] <= MaxBlock
  BY <1>3, CategoryIs DEF ChainSizes
<1>7. MaxBlock \in Nat /\ Kv!Blocks = 1..MaxBlock /\ last \in Nat /\ g \in Nat
  BY <1>0, <1>1, ChainShapes
<1>8. \A b \in Kv!Blocks : pruned[b] = {k \in MKeys : mer.active[k] = b}
  BY <1>0 DEF PrunedFits
<1>9. pruned[g] = {}
  BY <1>1, <1>5, <1>6, <1>7, <1>8
<1>10. Kv!Rewritten(m) = {mer.active[k] : k \in {x \in Kv!Touched(m) : mer.active[x] # 0}}
  BY DEF Kv!Rewritten
<1>11. \A b \in Kv!Rewritten(m) : b \in 1..(g - 1)
  BY <1>2, <1>5, <1>6, <1>7, <1>10
<1>12. CASE ~HasLeaf(g)
  <2>1. pruned' = pruned /\ \A k \in MKeys : mer'.active[k] = mer.active[k]
    BY <1>1, <1>2, <1>4, <1>12
  <2> QED BY <1>3, <1>8, <1>9, <1>11, <1>12, <1>p, <2>1 DEF PrunedFits
<1>13. CASE HasLeaf(g)
  <2>1. pruned' = [b \in Kv!Blocks |->
          IF b = g THEN {k \in Kv!Touched(m) : ~Kv!Inactive(mer, k, g, m)} ELSE Kv!StillActive(b, m)]
    BY <1>1, <1>13 DEF Kv!PrunedAfter
  <2>2. ASSUME NEW b \in Kv!Blocks
        PROVE  /\ pruned'[b] = {k \in MKeys : mer'.active[k] = b}
               /\ b # g /\ b \notin Kv!Rewritten(m) => pruned'[b] = pruned[b]
    <3>0. b \in Nat /\ b # 0
      BY <1>7
    <3>1. CASE b = g
      <4>1. pruned'[b] = {k \in Kv!Touched(m) : ~Kv!Inactive(mer, k, g, m)}
        BY <2>1, <3>1
      <4>2. \A k \in MKeys : mer'.active[k] = g <=> m[k] # "no" /\ ~Kv!Inactive(mer, k, g, m)
        <5> SUFFICES ASSUME NEW k \in MKeys
                     PROVE  mer'.active[k] = g <=> m[k] # "no" /\ ~Kv!Inactive(mer, k, g, m)
          OBVIOUS
        <5>1. mer.active[k] # g
          BY <1>5, <1>6, <1>7, <3>0, <3>1
        <5> QED BY <1>4, <3>0, <3>1, <5>1
      <4> QED BY <1>2, <3>1, <4>1, <4>2
    <3>2. CASE b # g
      <4>1. pruned'[b] = Kv!StillActive(b, m)
        BY <2>1, <3>2
      <4>2. \A k \in MKeys : mer'.active[k] = b <=> m[k] = "no" /\ mer.active[k] = b
        BY <1>4, <3>0, <3>2
      <4>3. CASE b \in Kv!Rewritten(m)
        <5>1. pruned'[b] = pruned[b] \ {k \in Kv!Touched(m) : mer.active[k] = b}
          BY <4>1, <4>3 DEF Kv!StillActive
        <5> QED BY <1>2, <1>8, <4>2, <4>3, <5>1
      <4>4. CASE b \notin Kv!Rewritten(m)
        <5>1. pruned'[b] = pruned[b]
          BY <4>1, <4>4 DEF Kv!StillActive
        <5>2. \A k \in MKeys : mer.active[k] = b => m[k] = "no"
          <6> SUFFICES ASSUME NEW k \in MKeys, mer.active[k] = b, m[k] # "no" PROVE FALSE
            OBVIOUS
          <6> QED BY <1>2, <1>10, <3>0, <4>4
        <5> QED BY <1>8, <4>2, <5>1, <5>2
      <4> QED BY <4>3, <4>4
    <3> QED BY <3>1, <3>2
  <2>3. PrunedFits'
    BY <2>2 DEF PrunedFits
  <2>4. \A b \in Kv!Blocks : pruned'[b] \in SUBSET MKeys
    BY <2>2
  <2>5. pruned' \in [Kv!Blocks -> SUBSET MKeys]
    BY <2>1, <2>4
  <2> QED BY <1>9, <1>11, <1>p, <2>2, <2>3, <2>5
<1> QED BY <1>12, <1>13

LEMMA PruneTrees ==
  ASSUME ChainSizes, ReadInv, NEW g, g = genesis, Kv!PruneGenesis
  PROVE  /\ VersionsGrow' /\ VersionsFit' /\ trees' \in [Kv!Versions -> Trees] /\ root' \in Nat
         /\ lastDeleted' \in Nat /\ lastDeleted' <= root'
         /\ HasLeaf(g) => Kv!LeavesAt(root)' = Kv!PrunedLeaves(g, log[g].m)
         /\ ~HasLeaf(g) => Kv!LeavesAt(root)' = Kv!LeavesAt(root)
<1>0. KvTyped /\ VersionsGrow /\ VersionsFit /\ trees \in [Kv!Versions -> Trees]
  BY DEF ReadInv, KvTyped
<1>1. /\ g \in 1..last /\ g \in Kv!Blocks /\ g < last /\ genesis' = g + 1 /\ last' = last /\ log' = log
      /\ HasLeaf(g) =>
           /\ pruned' = Kv!PrunedAfter(g, log[g].m)
           /\ trees' = [Kv!WithoutStale(trees, Kv!StaleBefore(log[g].version) \cup {log[g].version})
                        EXCEPT ![root + 1] = Kv!PrunedLeaves(g, log[g].m)]
           /\ root' = root + 1
           /\ stale' = (stale \cup {root + 1}) \ (Kv!StaleBefore(log[g].version) \cup {log[g].version})
           /\ lastDeleted' = log[g].version
      /\ ~HasLeaf(g) => UNCHANGED <<pruned, trees, root, stale, lastDeleted>>
  BY <1>0, PruneIs
<1>s. /\ MaxBlock \in Nat /\ Kv!Blocks = 1..MaxBlock /\ last \in Nat /\ g \in Nat /\ g = genesis
      /\ root \in Nat /\ lastDeleted \in Nat /\ lastDeleted <= root
      /\ \A b \in 1..last : log[b].version \in Nat
  BY <1>0, <1>1, ChainShapes
<1>2. /\ \A b \in 1..last : b >= g /\ HasLeaf(b) =>
           /\ lastDeleted < log[b].version /\ log[b].version <= root
           /\ \A d \in (b + 1)..last : HasLeaf(d) => log[b].version < log[d].version
      /\ \A v \in 1..root : v >= lastDeleted => trees[v] # Kv!NoTree
      /\ \A v \in 1..root : v > lastDeleted => v \in stale
  BY <1>0, <1>s DEF VersionsGrow
<1>3. \A b : HasLeaf(b)' <=> HasLeaf(b)
  BY <1>1 DEF HasLeaf
<1>4. VersionsFit'
  <2>1. Prunings = g - 1 /\ Prunings' = g
    BY <1>1, <1>s DEF Prunings
  <2>2. root' = root \/ root' = root + 1
    BY <1>1
  <2>3. /\ \A x \in 0..last : (\A b \in (x + 1)..last : ~HasLeaf(b)) => root <= x + (g - 1)
        /\ \A d \in 1..last : HasLeaf(d) =>
             \A x \in 0..(d - 1) :
               (\A b \in (x + 1)..(d - 1) : ~HasLeaf(b)) => log[d].version <= x + 1 + (g - 1)
    BY <1>0, <2>1 DEF VersionsFit
  <2>4. ASSUME NEW x \in 0..last, \A b \in (x + 1)..last : ~HasLeaf(b) PROVE root' <= x + g
    <3>1. root <= x + (g - 1)
      BY <2>3, <2>4
    <3> QED BY <1>s, <2>2, <3>1
  <2>5. ASSUME NEW d \in 1..last, HasLeaf(d), NEW x \in 0..(d - 1), \A b \in (x + 1)..(d - 1) : ~HasLeaf(b)
        PROVE  log[d].version <= x + 1 + g
    <3>1. log[d].version <= x + 1 + (g - 1) /\ log[d].version \in Nat
      BY <1>s, <2>3, <2>5
    <3> QED BY <1>s, <3>1
  <2>6. /\ \A x \in 0..last' : (\A b \in (x + 1)..last' : ~HasLeaf(b)') => root' <= x + Prunings'
        /\ \A d \in 1..last' : HasLeaf(d)' =>
             \A x \in 0..(d - 1) :
               (\A b \in (x + 1)..(d - 1) : ~HasLeaf(b)') => log'[d].version <= x + 1 + Prunings'
    BY <1>1, <1>3, <2>1, <2>4, <2>5
  <2> QED BY <2>6 DEF VersionsFit
<1>5. CASE ~HasLeaf(g)
  <2>1. trees' = trees /\ root' = root /\ stale' = stale /\ lastDeleted' = lastDeleted
    BY <1>1, <1>5
  <2>2. \A b \in 1..last : b >= g + 1 => b >= g
    BY <1>s
  <2>3. VersionsGrow'
    <3>1. /\ \A b \in 1..last' : b >= genesis' /\ HasLeaf(b)' =>
               /\ lastDeleted' < log'[b].version /\ log'[b].version <= root'
               /\ \A d \in (b + 1)..last' : HasLeaf(d)' => log'[b].version < log'[d].version
          /\ \A v \in 1..root' : v >= lastDeleted' => trees'[v] # Kv!NoTree
          /\ \A v \in 1..root' : v > lastDeleted' => v \in stale'
      BY <1>1, <1>2, <1>3, <2>1, <2>2
    <3> QED BY <3>1 DEF VersionsGrow
  <2>4. Kv!LeavesAt(root)' = Kv!LeavesAt(root)
    BY <2>1 DEF Kv!LeavesAt, Kv!NoLeaves, Kv!Blocks, Kv!NoLeaf
  <2>5. trees' \in [Kv!Versions -> Trees]
    BY <1>0, <2>1 DEF Kv!Versions, Trees, Kv!NoTree, Leaves, Kv!Blocks, Kv!NoLeaf
  <2> QED BY <1>4, <1>5, <1>s, <2>1, <2>3, <2>4, <2>5
<1>6. CASE HasLeaf(g)
  <2>0. PICK w \in Nat : w = log[g].version
    BY <1>1, <1>s
  <2>1. /\ trees' = [Kv!WithoutStale(trees, Kv!StaleBefore(w) \cup {w}) EXCEPT ![root + 1] = Kv!PrunedLeaves(g, log[g].m)]
        /\ root' = root + 1 /\ stale' = (stale \cup {root + 1}) \ (Kv!StaleBefore(w) \cup {w}) /\ lastDeleted' = w
    BY <1>1, <1>6, <2>0
  <2>2. lastDeleted < w /\ w <= root /\ \A d \in (g + 1)..last : HasLeaf(d) => w < log[d].version
    BY <1>1, <1>2, <1>6, <1>s, <2>0
  <2>3. \A v \in Nat : v \in Kv!StaleBefore(w) \cup {w} <=> lastDeleted < v /\ v <= w
    BY <1>s, <2>2 DEF Kv!StaleBefore
  <2>4. root + 1 \in Kv!Versions /\ Kv!LeavesAt(root) \in [Kv!Blocks -> Leaves] /\ root \in 0..(2 * MaxBlock)
    <3>1. genesis < last /\ root \in lastDeleted..root
      BY <1>1, <1>s
    <3> QED BY <1>0, <3>1, RootIs
  <2>5. Kv!PrunedLeaves(g, log[g].m) \in [Kv!Blocks -> Leaves]
    <3>1. \A b \in Kv!Blocks : Kv!PrunedAfter(g, log[g].m)[b] \in SUBSET MKeys
      BY <1>1, <1>6, PruneActive
    <3>2. \A b \in Kv!Blocks :
            /\ [kind |-> "active", keys |-> Kv!PrunedAfter(g, log[g].m)[b]] \in Leaves
            /\ Kv!LeavesAt(root)[b] \in Leaves /\ Kv!NoLeaf \in Leaves
      BY <2>4, <3>1, TreeIs DEF Leaves
    <3> QED BY <3>2 DEF Kv!PrunedLeaves
  <2>6. \A v \in Kv!Versions :
          /\ v = root + 1 => trees'[v] = Kv!PrunedLeaves(g, log[g].m)
          /\ v # root + 1 => trees'[v] = IF v + 1 \in Kv!StaleBefore(w) \cup {w} THEN Kv!NoTree ELSE trees[v]
    BY <2>1 DEF Kv!WithoutStale
  <2>7. trees' \in [Kv!Versions -> Trees]
    <3>1. \A v \in Kv!Versions : trees'[v] \in Trees
      BY <1>0, <2>5, <2>6, TreeIs
    <3>2. trees' = [v \in Kv!Versions |-> trees'[v]]
      BY <2>1 DEF Kv!WithoutStale
    <3> QED BY <3>1, <3>2
  <2>8. Kv!LeavesAt(root)' = Kv!PrunedLeaves(g, log[g].m)
    <3>1. trees'[root + 1] = Kv!PrunedLeaves(g, log[g].m) /\ root' = root + 1 /\ root + 1 # 0
      <4>1. root + 1 # 0
        BY <1>s
      <4>2. trees'[root + 1] = Kv!PrunedLeaves(g, log[g].m)
        BY <2>4, <2>6
      <4> QED BY <2>1, <4>1, <4>2
    <3> QED BY <3>1 DEF Kv!LeavesAt
  <2>9. ASSUME NEW v \in 1..(root + 1), v >= w PROVE trees'[v] # Kv!NoTree /\ (v > w => v \in stale')
    <3>1. v \in Kv!Versions /\ v \in Nat
      BY <1>s, <2>4 DEF Kv!Versions
    <3>2. CASE v = root + 1
      <4>1. trees'[v] # Kv!NoTree
        BY <2>5, <2>6, <3>1, <3>2, TreeIs
      <4>2. v > w => ~(v \in Kv!StaleBefore(w) \cup {w})
        BY <2>3, <3>1
      <4> QED BY <2>1, <3>2, <4>1, <4>2
    <3>3. CASE v # root + 1
      <4>1. v \in 1..root /\ v >= lastDeleted /\ v > lastDeleted
        BY <1>s, <2>2, <2>9, <3>3
      <4>2. ~(v + 1 \in Kv!StaleBefore(w) \cup {w})
        BY <2>3, <2>9, <3>1
      <4>3. v > w => ~(v \in Kv!StaleBefore(w) \cup {w})
        BY <2>3, <3>1
      <4>4. trees'[v] = trees[v]
        BY <2>6, <3>1, <3>3, <4>2
      <4> QED BY <1>2, <2>1, <4>1, <4>3, <4>4
    <3> QED BY <3>2, <3>3
  <2>10. ASSUME NEW b \in 1..last, b >= g + 1, HasLeaf(b)
         PROVE  /\ w < log[b].version /\ log[b].version <= root + 1
                /\ \A d \in (b + 1)..last : HasLeaf(d) => log[b].version < log[d].version
    <3>1. b >= g /\ b \in (g + 1)..last
      BY <1>s, <2>10
    <3>2. log[b].version <= root /\ log[b].version \in Nat
      BY <1>2, <1>s, <2>10, <3>1
    <3>3. log[b].version <= root + 1
      BY <1>s, <3>2
    <3> QED BY <1>2, <2>2, <2>10, <3>1, <3>3
  <2>11. VersionsGrow'
    <3>1. \A v \in 1..(root + 1) : v > w => v >= w
      BY <1>s
    <3>2. /\ \A b \in 1..last' : b >= genesis' /\ HasLeaf(b)' =>
               /\ lastDeleted' < log'[b].version /\ log'[b].version <= root'
               /\ \A d \in (b + 1)..last' : HasLeaf(d)' => log'[b].version < log'[d].version
          /\ \A v \in 1..root' : v >= lastDeleted' => trees'[v] # Kv!NoTree
          /\ \A v \in 1..root' : v > lastDeleted' => v \in stale'
      BY <1>1, <1>3, <2>1, <2>9, <2>10, <3>1
    <3> QED BY <3>2 DEF VersionsGrow
  <2>12. root' \in Nat /\ lastDeleted' \in Nat /\ lastDeleted' <= root'
    BY <1>s, <2>1, <2>2
  <2> QED BY <1>4, <1>6, <2>7, <2>8, <2>11, <2>12
<1> QED BY <1>5, <1>6

LEMMA PruneRead ==
  ASSUME ChainSizes, ReadInv, Kv!PruneGenesis, raw' = raw, raw # Kv!NoBlock => Kv!MustPrune
  PROVE  ReadInv'
<1>0. KvTyped /\ ParentsFit
  BY DEF ReadInv
<1>g. PICK g : g = genesis
  OBVIOUS
<1>1. /\ g \in 1..last /\ g \in Kv!Blocks /\ g < last /\ genesis' = g + 1 /\ last' = last /\ log' = log
      /\ cache' = cache /\ undone' = undone /\ prunedAt' = last
  BY <1>0, <1>g, PruneIs
<1>s. /\ MaxBlock \in Nat /\ Kv!Blocks = 1..MaxBlock /\ last \in Nat /\ g \in Nat /\ last <= MaxBlock
  BY <1>0, <1>1, ChainShapes
<1>2. /\ CategoryTyped(ver, VKeys)' /\ CategoryTyped(mer, MKeys)'
      /\ KeysReadable(ver, VKeys, VLog, last, genesis)'
      /\ KeysReadable(mer, MKeys, MLog, last, genesis)'
  BY PruneKeys
<1>3. PrunedFits' /\ pruned' \in [Kv!Blocks -> SUBSET MKeys]
  BY <1>g, PruneActive
<1>4. /\ VersionsGrow' /\ VersionsFit' /\ trees' \in [Kv!Versions -> Trees] /\ root' \in Nat
      /\ lastDeleted' \in Nat /\ lastDeleted' <= root'
  BY <1>g, PruneTrees
<1>5. ParentsFit'
  <2>1. \A b : Kv!FromStorage(b)' = Kv!FromStorage(b)
    BY <1>1 DEF Kv!FromStorage
  <2>2. \A b \in 2..last : b > g + 1 => b > g
    BY <1>s
  <2>3. /\ \A b \in 2..last : b > g => log[b].parent = Kv!FromStorage(b - 1)
        /\ cache.id \in 1..last => cache = Kv!FromStorage(cache.id)
    BY <1>0, <1>g DEF ParentsFit
  <2>4. \A b \in 2..last' : b > genesis' => log'[b].parent = Kv!FromStorage(b - 1)'
    BY <1>1, <2>1, <2>2, <2>3
  <2>5. cache'.id \in 1..last' => cache' = Kv!FromStorage(cache.id)'
    BY <1>1, <2>3 DEF Kv!FromStorage
  <2> QED BY <2>4, <2>5 DEF ParentsFit
<1>6. genesis' \in 0..MaxBlock /\ last' \in 0..MaxBlock /\ genesis' <= last' /\ (genesis' = 0 => last' = 0)
  BY <1>1, <1>s
<1>7. /\ \A b \in 1..last' : /\ log'[b].v \in Kv!VUpdates' /\ log'[b].m \in Kv!MUpdates'
                             /\ log'[b].version \in Nat /\ log'[b].genesis \in Nat
      /\ log' = [b \in Kv!Blocks' |-> log'[b]]
      /\ cache'.id \in Nat /\ prunedAt' \in Nat /\ undone' \in BOOLEAN
  BY <1>0, <1>1, <1>s DEF KvTyped
<1>8. raw' # Kv!NoBlock' =>
        raw'.v \in Kv!VUpdates' /\ raw'.m \in Kv!MUpdates' /\ raw'.genesis \in genesis'..last'
  <2> SUFFICES ASSUME raw # Kv!NoBlock
               PROVE  raw.v \in Kv!VUpdates /\ raw.m \in Kv!MUpdates /\ raw.genesis \in (g + 1)..last
    BY <1>1
  <2>1. raw.v \in Kv!VUpdates /\ raw.m \in Kv!MUpdates /\ raw.genesis \in g..last /\ g < raw.genesis
    BY <1>0, <1>g DEF KvTyped, Kv!MustPrune
  <2> QED BY <1>s, <2>1
<1>9. KvTyped'
  BY <1>2, <1>3, <1>4, <1>6, <1>7, <1>8 DEF KvTyped
<1> QED BY <1>2, <1>3, <1>4, <1>5, <1>9 DEF ReadInv

LEMMA PruneChain ==
  ASSUME ChainSizes, ReadInv, ChainInv, Kv!PruneGenesis
  PROVE  ChainInv'
<1>0. KvTyped
  BY DEF ReadInv
<1>g. PICK g : g = genesis
  OBVIOUS
<1>1. /\ g \in 1..last /\ g \in Kv!Blocks /\ g < last /\ last \in Kv!Blocks
      /\ genesis' = g + 1 /\ last' = last /\ log' = log
      /\ undone' = undone /\ prunedAt' = last
      /\ ver' = Kv!DeleteGenesis(ver, g, log[g].v) /\ mer' = Kv!DeleteGenesis(mer, g, log[g].m)
      /\ HasLeaf(g) => pruned' = Kv!PrunedAfter(g, log[g].m)
      /\ ~HasLeaf(g) => pruned' = pruned
  BY <1>0, <1>g, PruneIs
<1>s. /\ MaxBlock \in Nat /\ Kv!Blocks = 1..MaxBlock /\ last \in Nat /\ g \in Nat /\ last <= MaxBlock
      /\ VLog[g] = log[g].v /\ log[g].v \in UpdatesOf(VKeys)
      /\ MLog[g] = log[g].m /\ log[g].m \in UpdatesOf(MKeys)
      /\ \A x \in 1..last : log[x].genesis \in Nat
  BY <1>0, <1>1, ChainShapes
<1>2. CASE undone
  BY <1>1, <1>2 DEF ChainInv
<1>3. CASE ~undone
  <2>1. /\ GenesisRecorded
        /\ KeysFollow(ver, VKeys, VLog, SeenLast, last, g)
        /\ KeysFollow(mer, MKeys, MLog, SeenLast, last, g)
        /\ \A b \in Kv!Blocks : Kv!LeavesAt(root)[b] = LeafOf(b)
    BY <1>3, <1>g DEF ChainInv
  <2>2. \A x \in 1..last : log[x].genesis <= g
    BY <1>g, <2>1 DEF GenesisRecorded
  <2>3. GenesisRecorded'
    <3>1. \A x \in 1..last : log[x].genesis < g + 1 /\ log[x].genesis <= g + 1 /\ x <= last
      BY <1>s, <2>2
    <3>2. last <= last /\ g + 1 <= last + 1
      BY <1>1, <1>s
    <3> QED BY <1>1, <3>1, <3>2 DEF GenesisRecorded
  <2>4. OldTrees'
    <3>1. \A d \in 1..last : ~(d > last)
      BY <1>s
    <3> QED BY <1>1, <3>1 DEF OldTrees
  <2>5. SeenLast' = SeenLast /\ VLog' = VLog /\ MLog' = MLog
    BY <1>1 DEF SeenLast, Kv!LastWhenPruned, VLog, MLog
  <2>6. SeenLast[g] = last
    <3>1. Seen(log, last, g, last)
      <4>1. \A x \in (g + 1)..last : ~(log[x].genesis > g)
        BY <1>s, <2>2
      <4> QED BY <1>1, <1>s, <4>1 DEF Seen
    <3>2. last = SeenOf(log, last, g)
      BY <1>1, <1>s, <3>1, SeenIs
    <3> QED BY <1>1, <3>2, SeenLastIs
  <2>7. CategoryTyped(ver, VKeys) /\ CategoryTyped(mer, MKeys)
    BY <1>0 DEF KvTyped
  <2>8. KeysFollow(Kv!DeleteGenesis(ver, g, VLog[g]), VKeys, VLog, SeenLast, last, g + 1)
    BY <1>1, <1>s, <2>1, <2>6, <2>7, FollowDeleteGenesis
  <2>9. KeysFollow(Kv!DeleteGenesis(mer, g, MLog[g]), MKeys, MLog, SeenLast, last, g + 1)
    BY <1>1, <1>s, <2>1, <2>6, <2>7, FollowDeleteGenesis
  <2>10. KeysFollow(ver, VKeys, VLog, SeenLast, last, genesis)'
         /\ KeysFollow(mer, MKeys, MLog, SeenLast, last, genesis)'
    BY <1>1, <1>s, <2>5, <2>8, <2>9
  <2>p. /\ pruned[g] = {} /\ (\A b \in Kv!Rewritten(log[g].m) : b \in 1..(g - 1))
        /\ HasLeaf(g) => \A b \in Kv!Blocks : b # g /\ b \notin Kv!Rewritten(log[g].m) => pruned'[b] = pruned[b]
        /\ HasLeaf(g) => Kv!LeavesAt(root)' = Kv!PrunedLeaves(g, log[g].m)
        /\ ~HasLeaf(g) => Kv!LeavesAt(root)' = Kv!LeavesAt(root)
    BY <1>g, PruneActive, PruneTrees
  <2>11. ASSUME NEW b \in Kv!Blocks PROVE Kv!LeavesAt(root)'[b] = LeafOf(b)'
    <3>0. b \in Nat /\ b > 0
      BY <1>s
    <3>1. LeafOf(b)' =
            IF b > last THEN Kv!NoLeaf
            ELSE IF b >= g + 1
            THEN IF HasLeaf(b) THEN [kind |-> "whole", keys |-> Kv!Touched(log[b].m)] ELSE Kv!NoLeaf
            ELSE IF pruned'[b] = {} THEN Kv!NoLeaf ELSE [kind |-> "active", keys |-> pruned'[b]]
      BY <1>1 DEF LeafOf, HasLeaf
    <3>2. Kv!LeavesAt(root)[b] =
            IF b > last THEN Kv!NoLeaf
            ELSE IF b >= g
            THEN IF HasLeaf(b) THEN [kind |-> "whole", keys |-> Kv!Touched(log[b].m)] ELSE Kv!NoLeaf
            ELSE IF pruned[b] = {} THEN Kv!NoLeaf ELSE [kind |-> "active", keys |-> pruned[b]]
      BY <1>g, <2>1 DEF LeafOf
    <3>3. b # g => (b >= g <=> b >= g + 1)
      BY <1>s, <3>0
    <3>4. ~(g >= g + 1) /\ g >= g /\ ~(g > last)
      BY <1>1, <1>s
    <3>5. CASE ~HasLeaf(g)
      <4>1. pruned' = pruned /\ Kv!LeavesAt(root)' = Kv!LeavesAt(root)
        BY <1>1, <2>p, <3>5
      <4>2. CASE b = g
        BY <2>p, <3>1, <3>2, <3>4, <3>5, <4>1, <4>2
      <4>3. CASE b # g
        BY <3>1, <3>2, <3>3, <4>1, <4>3
      <4> QED BY <4>2, <4>3
    <3>6. CASE HasLeaf(g)
      <4>1. Kv!LeavesAt(root)'[b] =
              IF b = g \/ b \in Kv!Rewritten(log[g].m)
              THEN IF pruned'[b] = {} THEN Kv!NoLeaf ELSE [kind |-> "active", keys |-> pruned'[b]]
              ELSE Kv!LeavesAt(root)[b]
        BY <1>1, <2>p, <3>6 DEF Kv!PrunedLeaves
      <4>2. CASE b = g
        BY <3>1, <3>4, <4>1, <4>2
      <4>3. CASE b # g /\ b \in Kv!Rewritten(log[g].m)
        <5>1. b \in 1..(g - 1)
          BY <2>p, <4>3
        <5>2. ~(b > last) /\ ~(b >= g + 1)
          BY <1>1, <1>s, <5>1
        <5> QED BY <3>1, <4>1, <4>3, <5>2
      <4>4. CASE b # g /\ b \notin Kv!Rewritten(log[g].m)
        <5>1. pruned'[b] = pruned[b]
          BY <2>p, <3>6, <4>4
        <5> QED BY <3>1, <3>2, <3>3, <4>1, <4>4, <5>1
      <4> QED BY <4>2, <4>3, <4>4
    <3> QED BY <3>5, <3>6
  <2>12. \A b \in Kv!Blocks : Kv!LeavesAt(root)'[b] = LeafOf(b)'
    BY <2>11
  <2> QED BY <2>3, <2>4, <2>10, <2>12 DEF ChainInv
<1> QED BY <1>2, <1>3

(***************************************************************************)
(* A crash after the stale nodes were deleted and before the block was     *)
(***************************************************************************)
LEMMA CrashKeeps ==
  ASSUME ChainSizes, ReadInv, ChainInv, Kv!PruneCrashes
  PROVE  ReadInv' /\ ChainInv'
<1>0. KvTyped /\ VersionsGrow /\ VersionsFit /\ PrunedFits /\ ParentsFit
  BY DEF ReadInv
<1>g. PICK g : g = genesis
  OBVIOUS
<1>1. /\ 1 <= g /\ g < last /\ HasLeaf(g)
      /\ trees' = Kv!WithoutStale(trees, Kv!StaleBefore(log[g].version))
      /\ stale' = stale \ Kv!StaleBefore(log[g].version)
      /\ lastDeleted' = log[g].version - 1 /\ cache' = Kv!NoBlock
      /\ UNCHANGED <<genesis, last, log, ver, mer, pruned, root, raw, prunedAt, undone>>
  BY <1>g DEF Kv!PruneCrashes, HasLeaf
<1>s. /\ MaxBlock \in Nat /\ Kv!Blocks = 1..MaxBlock /\ last \in Nat /\ g \in 1..last /\ last <= MaxBlock
      /\ root \in Nat /\ lastDeleted \in Nat /\ lastDeleted <= root /\ prunedAt \in Nat
      /\ \A b \in 1..last : log[b].version \in Nat
  BY <1>0, <1>1, <1>g, ChainShapes
<1>w. PICK w \in Nat : w = log[g].version
  BY <1>s
<1>2. /\ \A b \in 1..last : b >= g /\ HasLeaf(b) =>
           /\ lastDeleted < log[b].version /\ log[b].version <= root
           /\ \A d \in (b + 1)..last : HasLeaf(d) => log[b].version < log[d].version
      /\ \A v \in 1..root : v >= lastDeleted => trees[v] # Kv!NoTree
      /\ \A v \in 1..root : v > lastDeleted => v \in stale
  BY <1>0, <1>g DEF VersionsGrow
<1>3. lastDeleted < w /\ w <= root /\ \A d \in (g + 1)..last : HasLeaf(d) => w < log[d].version
  <2>1. g \in 1..last /\ g >= g
    BY <1>s
  <2> QED BY <1>1, <1>2, <1>w, <2>1
<1>4. \A v \in Nat : v \in Kv!StaleBefore(w) <=> lastDeleted < v /\ v < w
  BY <1>s, <1>3 DEF Kv!StaleBefore
<1>5. root \in 0..(2 * MaxBlock) /\ trees \in [Kv!Versions -> Trees]
  BY <1>0, RootIs DEF KvTyped
<1>6. trees' = [v \in Kv!Versions |-> IF v + 1 \in Kv!StaleBefore(w) THEN Kv!NoTree ELSE trees[v]]
  BY <1>1, <1>w DEF Kv!WithoutStale
<1>7. \A v \in 0..root : v >= w - 1 => Kv!LeavesAt(v)' = Kv!LeavesAt(v) /\ (v # 0 => trees'[v] = trees[v])
  <2> SUFFICES ASSUME NEW v \in 0..root, v >= w - 1
               PROVE  Kv!LeavesAt(v)' = Kv!LeavesAt(v) /\ (v # 0 => trees'[v] = trees[v])
    OBVIOUS
  <2>1. CASE v = 0
    BY <2>1 DEF Kv!LeavesAt, Kv!NoLeaves, Kv!Blocks, Kv!NoLeaf
  <2>2. CASE v # 0
    <3>1. v \in Kv!Versions /\ v + 1 \in Nat
      BY <1>5, <1>s, <2>2 DEF Kv!Versions
    <3>2. ~(v + 1 \in Kv!StaleBefore(w))
      BY <1>4, <1>s, <3>1
    <3>3. trees'[v] = trees[v]
      BY <1>6, <3>1, <3>2
    <3> QED BY <2>2, <3>3 DEF Kv!LeavesAt
  <2> QED BY <2>1, <2>2
<1>8. \A b : (HasLeaf(b)' <=> HasLeaf(b)) /\ LeafOf(b)' = LeafOf(b) /\ Kv!FromStorage(b)' = Kv!FromStorage(b)
  BY <1>1 DEF HasLeaf, LeafOf, Kv!FromStorage
<1>9. Prunings' = Prunings /\ VLog' = VLog /\ MLog' = MLog /\ SeenLast' = SeenLast
  BY <1>1 DEF Prunings, VLog, MLog, SeenLast, Kv!LastWhenPruned
<1>10. VersionsGrow'
  <2>1. ASSUME NEW b \in 1..last, b >= g, HasLeaf(b) PROVE w - 1 < log[b].version
    <3>1. CASE b = g
      BY <1>w, <3>1
    <3>2. CASE b # g
      <4>1. b \in (g + 1)..last /\ log[b].version \in Nat
        BY <1>s, <2>1, <3>2
      <4>2. w < log[b].version
        BY <1>3, <2>1, <4>1
      <4> QED BY <4>1, <4>2
    <3> QED BY <3>1, <3>2
  <2>2. ASSUME NEW v \in 1..root, v >= w - 1 PROVE trees'[v] # Kv!NoTree
    <3>1. v \in 0..root /\ v # 0 /\ v >= lastDeleted
      BY <1>3, <1>s, <2>2
    <3> QED BY <1>2, <1>7, <2>2, <3>1
  <2>3. ASSUME NEW v \in 1..root, v > w - 1 PROVE v \in stale'
    <3>1. v > lastDeleted /\ v \in Nat /\ ~(v < w)
      BY <1>3, <1>s, <2>3
    <3>2. ~(v \in Kv!StaleBefore(w))
      BY <1>4, <3>1
    <3> QED BY <1>1, <1>2, <1>w, <3>1, <3>2
  <2>4. /\ \A b \in 1..last' : b >= genesis' /\ HasLeaf(b)' =>
             /\ lastDeleted' < log'[b].version /\ log'[b].version <= root'
             /\ \A d \in (b + 1)..last' : HasLeaf(d)' => log'[b].version < log'[d].version
        /\ \A v \in 1..root' : v >= lastDeleted' => trees'[v] # Kv!NoTree
        /\ \A v \in 1..root' : v > lastDeleted' => v \in stale'
    BY <1>1, <1>2, <1>8, <1>g, <1>w, <2>1, <2>2, <2>3
  <2> QED BY <2>4 DEF VersionsGrow
<1>11. VersionsFit'
  BY <1>0, <1>1, <1>8, <1>9 DEF VersionsFit
<1>12. PrunedFits'
  BY <1>0, <1>1 DEF PrunedFits
<1>13. ParentsFit'
  <2>1. cache'.id = 0
    BY <1>1 DEF Kv!NoBlock
  <2> QED BY <1>0, <1>1, <1>8, <1>s, <2>1 DEF ParentsFit
<1>14. KvTyped'
  <2>1. lastDeleted' \in Nat /\ lastDeleted' <= root' /\ cache'.id \in Nat
    <3>1. lastDeleted' = w - 1 /\ root' = root /\ cache'.id = 0
      BY <1>1, <1>w DEF Kv!NoBlock
    <3>2. w - 1 \in Nat /\ w - 1 <= root
      BY <1>3, <1>s
    <3> QED BY <3>1, <3>2
  <2>2. trees' \in [Kv!Versions -> Trees]
    <3>1. \A v \in Kv!Versions : (IF v + 1 \in Kv!StaleBefore(w) THEN Kv!NoTree ELSE trees[v]) \in Trees
      BY <1>5, TreeIs
    <3> QED BY <1>6, <3>1
  <2> QED BY <1>0, <1>1, <2>1, <2>2 DEF KvTyped
<1>15. KeysReadable(ver, VKeys, VLog, last, genesis)' /\ KeysReadable(mer, MKeys, MLog, last, genesis)'
  BY <1>1, <1>9 DEF ReadInv
<1>16. ReadInv'
  BY <1>10, <1>11, <1>12, <1>13, <1>14, <1>15 DEF ReadInv
<1>17. CASE undone
  BY <1>1, <1>16, <1>17 DEF ChainInv
<1>18. CASE ~undone
  <2>1. /\ GenesisRecorded /\ OldTrees
        /\ KeysFollow(ver, VKeys, VLog, SeenLast, last, genesis)
        /\ KeysFollow(mer, MKeys, MLog, SeenLast, last, genesis)
        /\ \A b \in Kv!Blocks : Kv!LeavesAt(root)[b] = LeafOf(b)
    BY <1>18 DEF ChainInv
  <2>2. GenesisRecorded'
    BY <1>1, <2>1 DEF GenesisRecorded
  <2>3. KeysFollow(ver, VKeys, VLog, SeenLast, last, genesis)'
        /\ KeysFollow(mer, MKeys, MLog, SeenLast, last, genesis)'
    BY <1>1, <1>9, <2>1
  <2>r. Kv!LeavesAt(root)' = Kv!LeavesAt(root)
    <3>1. PICK r \in 0..root : r = root /\ r >= w - 1
      BY <1>3, <1>s
    <3>2. Kv!LeavesAt(r)' = Kv!LeavesAt(root)
      BY <1>7, <3>1
    <3> QED BY <1>1, <3>1, <3>2 DEF Kv!LeavesAt
  <2>4. \A b \in Kv!Blocks : Kv!LeavesAt(root)'[b] = LeafOf(b)'
    BY <1>8, <2>1, <2>r
  <2>5. ASSUME NEW d \in 1..last, d > prunedAt, HasLeaf(d), NEW b \in Kv!Blocks
        PROVE  Kv!LeavesAt(log[d].version - 1)'[b] = IF b >= d THEN Kv!NoLeaf ELSE Kv!LeavesAt(root)'[b]
    <3>1. d >= g /\ prunedAt \in Nat
      BY <1>g, <1>s, <2>1, <2>5 DEF GenesisRecorded
    <3>2. log[d].version >= w
      <4>1. CASE d = g
        BY <1>w, <4>1
      <4>2. CASE d # g
        <5>1. d \in (g + 1)..last /\ log[d].version \in Nat
          BY <1>s, <3>1, <4>2
        <5>2. w < log[d].version
          BY <1>3, <2>5, <5>1
        <5> QED BY <5>1, <5>2
      <4> QED BY <4>1, <4>2
    <3>3. lastDeleted < log[d].version /\ log[d].version <= root /\ log[d].version \in Nat
      BY <1>2, <1>s, <2>5, <3>1
    <3>4. log[d].version - 1 \in 0..root /\ log[d].version - 1 >= w - 1
      <4>1. PICK x \in Nat : x = log[d].version
        BY <3>3
      <4>2. lastDeleted < x /\ x <= root /\ x >= w
        BY <3>2, <3>3, <4>1
      <4>3. x - 1 \in 0..root /\ x - 1 >= w - 1
        BY <1>s, <4>2
      <4> QED BY <4>1, <4>3
    <3>5. PICK v \in 0..root : v = log[d].version - 1 /\ v >= w - 1
      BY <3>4
    <3>6. Kv!LeavesAt(log[d].version - 1)' = Kv!LeavesAt(v)
      <4>1. Kv!LeavesAt(log[d].version - 1)' = Kv!LeavesAt(v)'
        BY <1>1, <3>5 DEF Kv!LeavesAt
      <4> QED BY <1>7, <3>5, <4>1
    <3>7. Kv!LeavesAt(v)[b] = IF b >= d THEN Kv!NoLeaf ELSE Kv!LeavesAt(root)[b]
      BY <2>1, <2>5, <3>5 DEF OldTrees
    <3> QED BY <2>r, <3>6, <3>7
  <2>6. OldTrees'
    BY <1>1, <1>8, <2>5 DEF OldTrees
  <2> QED BY <1>16, <2>2, <2>3, <2>4, <2>6 DEF ChainInv
<1> QED BY <1>17, <1>18

(***************************************************************************)
(* The last block is deleted.                                              *)
(***************************************************************************)
LEMMA DeleteIs ==
  ASSUME ChainSizes, KvTyped, NEW l, l = last, Kv!DeleteLastReachableBlock
  PROVE  /\ l \in Kv!Blocks /\ genesis \in 1..(l - 1) /\ l \in 1..last
         /\ last' = l - 1 /\ genesis' = genesis /\ UNCHANGED <<pruned, lastDeleted, cache, raw, prunedAt>>
         /\ undone' = (undone \/ last <= prunedAt) /\ raw = Kv!NoBlock
         /\ ver' = Kv!DeleteLastReachable(ver, l, log[l].v) /\ mer' = Kv!DeleteLastReachable(mer, l, log[l].m)
         /\ log' = [x \in Kv!Blocks |-> log'[x]] /\ \A x \in Kv!Blocks : x # l => log'[x] = log[x]
         /\ HasLeaf(l) =>
              /\ trees' = [trees EXCEPT ![log[l].version] = Kv!NoTree]
              /\ stale' = stale \ {log[l].version} /\ root' = log[l].version - 1
         /\ ~HasLeaf(l) => UNCHANGED <<trees, stale, root>>
<1>1. /\ raw = Kv!NoBlock /\ last # 0 /\ last # genesis
      /\ ver' = Kv!DeleteLastReachable(ver, l, log[l].v) /\ mer' = Kv!DeleteLastReachable(mer, l, log[l].m)
      /\ log' = [log EXCEPT ![l] = Kv!NoBlock] /\ last' = l - 1
      /\ undone' = (undone \/ last <= prunedAt)
      /\ genesis' = genesis /\ UNCHANGED <<pruned, lastDeleted, cache, raw, prunedAt>>
  BY DEF Kv!DeleteLastReachableBlock
<1>2. /\ genesis \in Nat /\ last \in Nat /\ last <= MaxBlock /\ genesis <= last /\ (genesis = 0 => last = 0)
      /\ MaxBlock \in Nat /\ Kv!Blocks = 1..MaxBlock
  BY ChainShapes
<1>3. l \in Kv!Blocks /\ genesis \in 1..(l - 1) /\ l \in 1..last
  BY <1>1, <1>2
<1>4. HasLeaf(l) => /\ trees' = [trees EXCEPT ![log[l].version] = Kv!NoTree]
                    /\ stale' = stale \ {log[l].version} /\ root' = log[l].version - 1
  BY DEF Kv!DeleteLastReachableBlock, HasLeaf
<1>5. ~HasLeaf(l) => UNCHANGED <<trees, stale, root>>
  BY DEF Kv!DeleteLastReachableBlock, HasLeaf
<1>6. log = [x \in Kv!Blocks |-> log[x]]
  BY DEF KvTyped
<1>7. log' = [x \in Kv!Blocks |-> IF x = l THEN Kv!NoBlock ELSE log[x]]
  BY <1>1, <1>6
<1>8. log' = [x \in Kv!Blocks |-> log'[x]] /\ \A x \in Kv!Blocks : x # l => log'[x] = log[x]
  BY <1>7
<1> QED BY <1>1, <1>3, <1>4, <1>5, <1>8

LEMMA DeleteKeys ==
  ASSUME ChainSizes, ReadInv, Kv!DeleteLastReachableBlock
  PROVE  /\ CategoryTyped(ver, VKeys)' /\ CategoryTyped(mer, MKeys)'
         /\ KeysReadable(ver, VKeys, VLog, last, genesis)'
         /\ KeysReadable(mer, MKeys, MLog, last, genesis)'
         /\ PrunedFits'
<1>0. KvTyped /\ PrunedFits
  BY DEF ReadInv
<1>l. PICK l : l = last
  OBVIOUS
<1>1. /\ l \in Kv!Blocks /\ genesis \in 1..(l - 1) /\ l \in 1..last /\ last' = l - 1 /\ genesis' = genesis
      /\ pruned' = pruned
      /\ ver' = Kv!DeleteLastReachable(ver, l, log[l].v) /\ mer' = Kv!DeleteLastReachable(mer, l, log[l].m)
      /\ \A x \in Kv!Blocks : x # l => log'[x] = log[x]
  BY <1>0, <1>l, DeleteIs
<1>2. /\ VLog[l] = log[l].v /\ log[l].v \in UpdatesOf(VKeys)
      /\ MLog[l] = log[l].m /\ log[l].m \in UpdatesOf(MKeys)
      /\ MaxBlock \in Nat /\ Kv!Blocks = 1..MaxBlock
  BY <1>0, <1>1, ChainShapes
<1>3. \A b \in 1..(l - 1) : VLog'[b] = VLog[b] /\ MLog'[b] = MLog[b]
  <2>1. \A b \in 1..(l - 1) : b \in Kv!Blocks /\ b # l
    BY <1>1, <1>2
  <2> QED BY <1>1, <2>1 DEF VLog, MLog
<1>4. CategoryTyped(ver, VKeys) /\ CategoryTyped(mer, MKeys)
  BY <1>0 DEF KvTyped
<1>5. /\ CategoryTyped(Kv!DeleteLastReachable(ver, l, VLog[l]), VKeys)
      /\ CategoryTyped(Kv!DeleteLastReachable(mer, l, MLog[l]), MKeys)
      /\ Kv!DeleteLastReachable(mer, l, MLog[l]).active = mer.active
  BY <1>1, <1>2, <1>4, DeleteLastIs
<1>6. KeysReadable(Kv!DeleteLastReachable(ver, l, VLog[l]), VKeys, VLog', l - 1, genesis)
  <2>1. KeysReadable(ver, VKeys, VLog, l, genesis) /\ \A b \in 1..(l - 1) : VLog'[b] = VLog[b]
    BY <1>3, <1>l DEF ReadInv
  <2> QED BY <1>1, <1>2, <1>4, <2>1, ReadableDeleteLast
<1>7. KeysReadable(Kv!DeleteLastReachable(mer, l, MLog[l]), MKeys, MLog', l - 1, genesis)
  <2>1. KeysReadable(mer, MKeys, MLog, l, genesis) /\ \A b \in 1..(l - 1) : MLog'[b] = MLog[b]
    BY <1>3, <1>l DEF ReadInv
  <2> QED BY <1>1, <1>2, <1>4, <2>1, ReadableDeleteLast
<1>8. PrunedFits'
  BY <1>0, <1>1, <1>2, <1>5 DEF PrunedFits
<1> QED BY <1>1, <1>2, <1>5, <1>6, <1>7, <1>8

LEMMA DeleteTrees ==
  ASSUME ChainSizes, ReadInv, NEW l, l = last, Kv!DeleteLastReachableBlock
  PROVE  /\ VersionsGrow' /\ VersionsFit' /\ trees' \in [Kv!Versions -> Trees] /\ root' \in Nat
         /\ lastDeleted' <= root'
         /\ HasLeaf(l) => /\ log[l].version \in Nat \ {0} /\ log[l].version <= root
                          /\ \A v \in 0..(log[l].version - 1) : Kv!LeavesAt(v)' = Kv!LeavesAt(v)
<1>0. KvTyped /\ VersionsGrow /\ VersionsFit /\ trees \in [Kv!Versions -> Trees]
  BY DEF ReadInv, KvTyped
<1>1. /\ l \in Kv!Blocks /\ genesis \in 1..(l - 1) /\ l \in 1..last /\ last' = l - 1 /\ genesis' = genesis
      /\ lastDeleted' = lastDeleted
      /\ \A x \in Kv!Blocks : x # l => log'[x] = log[x]
      /\ HasLeaf(l) =>
           /\ trees' = [trees EXCEPT ![log[l].version] = Kv!NoTree]
           /\ stale' = stale \ {log[l].version} /\ root' = log[l].version - 1
      /\ ~HasLeaf(l) => UNCHANGED <<trees, stale, root>>
  BY <1>0, DeleteIs
<1>s. /\ MaxBlock \in Nat /\ Kv!Blocks = 1..MaxBlock /\ last \in Nat /\ l \in Nat /\ genesis \in Nat
      /\ root \in Nat /\ lastDeleted \in Nat /\ lastDeleted <= root /\ Prunings \in Nat
      /\ \A b \in 1..last : log[b].version \in Nat
      /\ \A b \in 1..(l - 1) : b \in Kv!Blocks /\ b # l /\ b \in 1..last
  BY <1>0, <1>1, ChainShapes
<1>2. /\ \A b \in 1..l : b >= genesis /\ HasLeaf(b) =>
           /\ lastDeleted < log[b].version /\ log[b].version <= root
           /\ \A d \in (b + 1)..l : HasLeaf(d) => log[b].version < log[d].version
      /\ \A v \in 1..root : v >= lastDeleted => trees[v] # Kv!NoTree
      /\ \A v \in 1..root : v > lastDeleted => v \in stale
  BY <1>0 DEF VersionsGrow
<1>3. \A b \in 1..(l - 1) : (HasLeaf(b)' <=> HasLeaf(b)) /\ log'[b] = log[b]
  BY <1>1, <1>s DEF HasLeaf
<1>4. Prunings' = Prunings
  BY <1>1 DEF Prunings
<1>5. /\ \A x \in 0..l : (\A b \in (x + 1)..l : ~HasLeaf(b)) => root <= x + Prunings
      /\ \A d \in 1..l : HasLeaf(d) =>
           \A x \in 0..(d - 1) :
             (\A b \in (x + 1)..(d - 1) : ~HasLeaf(b)) => log[d].version <= x + 1 + Prunings
  BY <1>0 DEF VersionsFit
<1>w. PICK w \in Nat : w = log[l].version
  BY <1>1, <1>s
<1>6. HasLeaf(l) => lastDeleted < w /\ w <= root /\ w # 0
  <2>1. l \in 1..l /\ l >= genesis
    BY <1>1, <1>s
  <2>2. HasLeaf(l) => lastDeleted < w /\ w <= root
    BY <1>2, <1>w, <2>1
  <2> QED BY <1>s, <2>2
<1>7. root \in 0..(2 * MaxBlock)
  BY <1>0, RootIs
<1>8. trees' \in [Kv!Versions -> Trees] /\ root' \in Nat /\ lastDeleted' <= root'
  <2>1. CASE HasLeaf(l)
    <3>1. trees' = [trees EXCEPT ![w] = Kv!NoTree] /\ root' = w - 1
      BY <1>1, <1>w, <2>1
    <3>2. w - 1 \in Nat /\ lastDeleted <= w - 1
      BY <1>6, <1>s, <2>1
    <3>3. trees' \in [Kv!Versions -> Trees]
      BY <1>0, <3>1, TreeIs
    <3> QED BY <1>1, <3>1, <3>2, <3>3
  <2>2. CASE ~HasLeaf(l)
    <3>1. trees' = trees /\ root' = root
      BY <1>1, <2>2
    <3> QED BY <1>0, <1>1, <1>s, <3>1
  <2> QED BY <2>1, <2>2
<1>9. ASSUME HasLeaf(l), NEW v \in 0..(w - 1)
      PROVE  Kv!LeavesAt(v)' = Kv!LeavesAt(v) /\ (v # 0 => trees'[v] = trees[v])
  <2>1. CASE v = 0
    BY <2>1 DEF Kv!LeavesAt, Kv!NoLeaves, Kv!Blocks, Kv!NoLeaf
  <2>2. CASE v # 0
    <3>1. v \in Kv!Versions /\ v # w
      BY <1>6, <1>7, <1>9, <1>s, <2>2 DEF Kv!Versions
    <3>2. trees'[v] = trees[v]
      BY <1>0, <1>1, <1>9, <1>w, <3>1
    <3> QED BY <2>2, <3>2 DEF Kv!LeavesAt
  <2> QED BY <2>1, <2>2
<1>10. VersionsFit'
  <2>1. ASSUME NEW x \in 0..(l - 1), \A b \in (x + 1)..(l - 1) : ~HasLeaf(b) PROVE root' <= x + Prunings
    <3>1. CASE HasLeaf(l)
      <4>1. w <= x + 1 + Prunings
        <5>1. l \in 1..l
          BY <1>1, <1>s
        <5> QED BY <1>5, <1>w, <2>1, <3>1, <5>1
      <4>2. root' = w - 1
        BY <1>1, <1>w, <3>1
      <4> QED BY <1>s, <4>1, <4>2
    <3>2. CASE ~HasLeaf(l)
      <4>1. x \in 0..l /\ \A b \in (x + 1)..l : b = l \/ b \in (x + 1)..(l - 1)
        BY <1>s
      <4>2. \A b \in (x + 1)..l : ~HasLeaf(b)
        BY <2>1, <3>2, <4>1
      <4>3. root' = root
        BY <1>1, <3>2
      <4> QED BY <1>5, <4>1, <4>2, <4>3
    <3> QED BY <3>1, <3>2
  <2>2. \A x \in 0..(l - 1) : \A b \in (x + 1)..(l - 1) : b \in 1..(l - 1)
    BY <1>s
  <2>3. \A d \in 1..(l - 1) : d \in 1..l /\ \A x \in 0..(d - 1) : \A b \in (x + 1)..(d - 1) : b \in 1..(l - 1)
    BY <1>s
  <2>4. \A x \in 0..last' : (\A b \in (x + 1)..last' : ~HasLeaf(b)') => root' <= x + Prunings'
    BY <1>1, <1>3, <1>4, <2>1, <2>2
  <2>5. ASSUME NEW d \in 1..(l - 1), HasLeaf(d)', NEW x \in 0..(d - 1),
               \A b \in (x + 1)..(d - 1) : ~HasLeaf(b)'
        PROVE  log'[d].version <= x + 1 + Prunings
    <3>1. HasLeaf(d) /\ log'[d] = log[d] /\ \A b \in (x + 1)..(d - 1) : ~HasLeaf(b)
      BY <1>3, <2>3, <2>5
    <3> QED BY <1>5, <2>3, <3>1
  <2> QED BY <1>1, <1>4, <2>4, <2>5 DEF VersionsFit
<1>11. VersionsGrow'
  <2>1. ASSUME NEW b \in 1..(l - 1), b >= genesis, HasLeaf(b)'
        PROVE  /\ lastDeleted < log'[b].version /\ log'[b].version <= root'
               /\ \A d \in (b + 1)..(l - 1) : HasLeaf(d)' => log'[b].version < log'[d].version
    <3>1. b \in 1..l /\ l \in (b + 1)..l /\ HasLeaf(b) /\ log'[b] = log[b] /\ log[b].version \in Nat
      BY <1>3, <1>s, <2>1
    <3>2. /\ lastDeleted < log[b].version /\ log[b].version <= root
          /\ \A d \in (b + 1)..l : HasLeaf(d) => log[b].version < log[d].version
      BY <1>2, <2>1, <3>1
    <3>3. log[b].version <= root'
      <4>1. CASE HasLeaf(l)
        <5>1. root' = w - 1 /\ log[b].version < w
          BY <1>1, <1>w, <3>1, <3>2, <4>1
        <5> QED BY <3>1, <5>1
      <4>2. CASE ~HasLeaf(l)
        <5>1. root' = root
          BY <1>1, <4>2
        <5> QED BY <3>2, <5>1
      <4> QED BY <4>1, <4>2
    <3>4. \A d \in (b + 1)..(l - 1) : d \in (b + 1)..l /\ d \in 1..(l - 1)
      BY <1>s
    <3> QED BY <1>3, <3>1, <3>2, <3>3, <3>4
  <2>2. ASSUME NEW v \in 1..root', v >= lastDeleted
        PROVE  trees'[v] # Kv!NoTree /\ (v > lastDeleted => v \in stale')
    <3>1. CASE HasLeaf(l)
      <4>1. root' = w - 1 /\ stale' = stale \ {w}
        BY <1>1, <1>w, <3>1
      <4>2. v \in 1..root /\ v \in 0..(w - 1) /\ v # 0 /\ v # w
        BY <1>6, <1>s, <3>1, <4>1
      <4> QED BY <1>2, <1>9, <2>2, <3>1, <4>1, <4>2
    <3>2. CASE ~HasLeaf(l)
      <4>1. root' = root /\ trees' = trees /\ stale' = stale
        BY <1>1, <3>2
      <4> QED BY <1>2, <2>2, <4>1
    <3> QED BY <3>1, <3>2
  <2>3. \A v \in 1..root' : v > lastDeleted => v >= lastDeleted
    BY <1>8, <1>s
  <2>4. /\ \A b \in 1..last' : b >= genesis' /\ HasLeaf(b)' =>
             /\ lastDeleted' < log'[b].version /\ log'[b].version <= root'
             /\ \A d \in (b + 1)..last' : HasLeaf(d)' => log'[b].version < log'[d].version
        /\ \A v \in 1..root' : v >= lastDeleted' => trees'[v] # Kv!NoTree
        /\ \A v \in 1..root' : v > lastDeleted' => v \in stale'
    BY <1>1, <2>1, <2>2, <2>3
  <2> QED BY <2>4 DEF VersionsGrow
<1>12. HasLeaf(l) => \A v \in 0..(w - 1) : Kv!LeavesAt(v)' = Kv!LeavesAt(v)
  BY <1>9
<1> QED BY <1>6, <1>8, <1>10, <1>11, <1>12, <1>w

LEMMA DeleteRead ==
  ASSUME ChainSizes, ReadInv, Kv!DeleteLastReachableBlock
  PROVE  ReadInv'
<1>0. KvTyped /\ ParentsFit
  BY DEF ReadInv
<1>l. PICK l : l = last
  OBVIOUS
<1>1. /\ l \in Kv!Blocks /\ genesis \in 1..(l - 1) /\ l \in 1..last /\ last' = l - 1 /\ genesis' = genesis
      /\ pruned' = pruned /\ lastDeleted' = lastDeleted /\ cache' = cache /\ raw' = raw /\ prunedAt' = prunedAt
      /\ undone' = (undone \/ last <= prunedAt) /\ raw = Kv!NoBlock
      /\ log' = [x \in Kv!Blocks |-> log'[x]] /\ \A x \in Kv!Blocks : x # l => log'[x] = log[x]
  BY <1>0, <1>l, DeleteIs
<1>s. /\ MaxBlock \in Nat /\ Kv!Blocks = 1..MaxBlock /\ last \in Nat /\ l \in Nat /\ genesis \in Nat
      /\ \A b \in 1..(l - 1) : b \in Kv!Blocks /\ b # l /\ b \in 1..last
  BY <1>0, <1>1, ChainShapes
<1>2. \A b \in 1..(l - 1) : log'[b] = log[b]
  BY <1>1, <1>s
<1>3. ParentsFit'
  <2>1. \A b \in 1..(l - 1) : Kv!FromStorage(b)' = Kv!FromStorage(b)
    BY <1>2 DEF Kv!FromStorage
  <2>2. /\ \A b \in 2..last : b > genesis => log[b].parent = Kv!FromStorage(b - 1)
        /\ cache.id \in 1..last => cache = Kv!FromStorage(cache.id)
    BY <1>0 DEF ParentsFit
  <2>3. ASSUME NEW b \in 2..(l - 1), b > genesis PROVE log'[b].parent = Kv!FromStorage(b - 1)'
    <3>1. b \in 1..(l - 1) /\ b - 1 \in 1..(l - 1) /\ b \in 2..last
      BY <1>l, <1>s
    <3>2. Kv!FromStorage(b - 1)' = Kv!FromStorage(b - 1)
      BY <2>1, <3>1
    <3> QED BY <1>2, <2>2, <2>3, <3>1, <3>2
  <2>4. ASSUME cache'.id \in 1..(l - 1) PROVE cache' = Kv!FromStorage(cache.id)'
    <3>1. PICK i : i = cache.id /\ cache'.id = i
      BY <1>1
    <3>2. i \in 1..(l - 1) /\ i \in 1..last
      BY <1>s, <2>4, <3>1
    <3>3. Kv!FromStorage(i)' = Kv!FromStorage(i)
      BY <2>1, <3>2
    <3>4. Kv!FromStorage(cache.id)' = Kv!FromStorage(i)'
      BY <3>1 DEF Kv!FromStorage
    <3> QED BY <1>1, <2>2, <3>1, <3>2, <3>3, <3>4
  <2> QED BY <1>1, <2>3, <2>4 DEF ParentsFit
<1>4. /\ CategoryTyped(ver, VKeys)' /\ CategoryTyped(mer, MKeys)'
      /\ KeysReadable(ver, VKeys, VLog, last, genesis)'
      /\ KeysReadable(mer, MKeys, MLog, last, genesis)'
      /\ PrunedFits'
  BY DeleteKeys
<1>5. /\ VersionsGrow' /\ VersionsFit' /\ trees' \in [Kv!Versions -> Trees] /\ root' \in Nat
      /\ lastDeleted' <= root'
  BY <1>l, DeleteTrees
<1>6. genesis' \in 0..MaxBlock /\ last' \in 0..MaxBlock /\ genesis' <= last' /\ (genesis' = 0 => last' = 0)
  BY <1>1, <1>s
<1>7. \A b \in 1..(l - 1) : /\ log'[b].v \in Kv!VUpdates /\ log'[b].m \in Kv!MUpdates
                            /\ log'[b].version \in Nat /\ log'[b].genesis \in Nat
  BY <1>0, <1>2, <1>s DEF KvTyped
<1>8. /\ pruned' \in [Kv!Blocks -> SUBSET MKeys] /\ lastDeleted' \in Nat /\ cache'.id \in Nat
      /\ prunedAt' \in Nat
  BY <1>0, <1>1 DEF KvTyped
<1>9. undone' \in BOOLEAN
  BY <1>1
<1>10. KvTyped'
  BY <1>1, <1>4, <1>5, <1>6, <1>7, <1>8, <1>9 DEF KvTyped
<1> QED BY <1>3, <1>4, <1>5, <1>10 DEF ReadInv

LEMMA DeleteChain ==
  ASSUME ChainSizes, ReadInv, ChainInv, Kv!DeleteLastReachableBlock
  PROVE  ChainInv'
<1>0. KvTyped /\ VersionsGrow
  BY DEF ReadInv
<1>l. PICK l : l = last
  OBVIOUS
<1>1. /\ l \in Kv!Blocks /\ genesis \in 1..(l - 1) /\ l \in 1..last /\ last' = l - 1 /\ genesis' = genesis
      /\ pruned' = pruned /\ prunedAt' = prunedAt
      /\ undone' = (undone \/ last <= prunedAt)
      /\ ver' = Kv!DeleteLastReachable(ver, l, log[l].v) /\ mer' = Kv!DeleteLastReachable(mer, l, log[l].m)
      /\ \A x \in Kv!Blocks : x # l => log'[x] = log[x]
      /\ HasLeaf(l) => root' = log[l].version - 1
      /\ ~HasLeaf(l) => UNCHANGED <<trees, root>>
  BY <1>0, <1>l, DeleteIs
<1>s. /\ MaxBlock \in Nat /\ Kv!Blocks = 1..MaxBlock /\ last \in Nat /\ l \in Nat /\ genesis \in Nat
      /\ prunedAt \in Nat /\ root \in Nat /\ lastDeleted \in Nat
      /\ VLog[l] = log[l].v /\ log[l].v \in UpdatesOf(VKeys)
      /\ MLog[l] = log[l].m /\ log[l].m \in UpdatesOf(MKeys)
      /\ \A b \in 1..last : log[b].version \in Nat /\ log[b].genesis \in Nat
      /\ \A b \in 1..(l - 1) : b \in Kv!Blocks /\ b # l /\ b \in 1..last
  BY <1>0, <1>1, ChainShapes
<1>2. CASE undone \/ last <= prunedAt
  BY <1>1, <1>2 DEF ChainInv
<1>3. CASE ~(undone \/ last <= prunedAt)
  <2>1. /\ GenesisRecorded /\ OldTrees
        /\ KeysFollow(ver, VKeys, VLog, SeenLast, l, genesis)
        /\ KeysFollow(mer, MKeys, MLog, SeenLast, l, genesis)
        /\ \A b \in Kv!Blocks : Kv!LeavesAt(root)[b] = LeafOf(b)
    BY <1>3, <1>l DEF ChainInv
  <2>2. prunedAt < l
    BY <1>3, <1>l, <1>s
  <2>3. \A b \in 1..(l - 1) : log'[b] = log[b] /\ (HasLeaf(b)' <=> HasLeaf(b))
    BY <1>1, <1>s DEF HasLeaf
  <2>g. /\ genesis <= prunedAt + 1
        /\ \A x \in 1..last :
             /\ log[x].genesis <= genesis
             /\ IF x <= prunedAt THEN log[x].genesis < genesis
                ELSE genesis > 1 => log[x].genesis = genesis
    BY <2>1 DEF GenesisRecorded
  <2>4. GenesisRecorded'
    <3>1. prunedAt <= l - 1
      BY <1>s, <2>2
    <3>2. \A x \in 1..(l - 1) :
             /\ log'[x].genesis <= genesis
             /\ IF x <= prunedAt THEN log'[x].genesis < genesis
                ELSE genesis > 1 => log'[x].genesis = genesis
      BY <1>s, <2>3, <2>g
    <3> QED BY <1>1, <2>g, <3>1, <3>2 DEF GenesisRecorded
  <2>5. ASSUME NEW b \in 1..(genesis - 1)
        PROVE  SeenLast'[b] = SeenLast[b] /\ SeenLast[b] \in Nat /\ SeenLast[b] < l
    <3>0. b \in 1..last /\ b \in 1..(l - 1) /\ genesis > 1 /\ b < genesis /\ l - 1 \in Nat
      BY <1>1, <1>l, <1>s
    <3>1. PICK p : p = SeenOf(log, last, b) /\ Seen(log, last, b, p)
      BY <1>s, <3>0, SeenIs
    <3>2. /\ p \in b..l /\ (\A x \in (b + 1)..p : ~(log[x].genesis > b))
          /\ (p = l \/ log[p + 1].genesis > b)
      BY <1>l, <3>1 DEF Seen
    <3>3. log[l].genesis > b
      <4>1. log[l].genesis = genesis
        BY <1>1, <1>3, <1>l, <2>g, <3>0
      <4> QED BY <1>s, <3>0, <4>1
    <3>4. p # l /\ p \in b..(l - 1)
      <4>1. p # l
        <5> SUFFICES ASSUME p = l PROVE FALSE
          OBVIOUS
        <5>1. l \in (b + 1)..p
          BY <1>s, <3>0
        <5> QED BY <3>2, <3>3, <5>1
      <4> QED BY <1>s, <3>0, <3>2, <4>1
    <3>5. Seen(log', l - 1, b, p)
      <4>1. \A x \in (b + 1)..p : x \in 1..(l - 1)
        BY <1>s, <3>0, <3>4
      <4>2. p = l - 1 \/ p + 1 \in 1..(l - 1)
        BY <1>s, <3>0, <3>4
      <4>3. \A x \in (b + 1)..p : ~(log'[x].genesis > b)
        BY <2>3, <3>2, <4>1
      <4>4. p = l - 1 \/ log'[p + 1].genesis > b
        BY <2>3, <3>2, <3>4, <4>2
      <4> QED BY <3>4, <4>3, <4>4 DEF Seen
    <3>6. p = SeenOf(log', l - 1, b)
      BY <3>0, <3>5, SeenIs
    <3>7. SeenLast[b] = p /\ SeenLast'[b] = p
      BY <1>1, <1>s, <3>0, <3>1, <3>6, SeenLastIs
    <3> QED BY <1>s, <3>0, <3>4, <3>7
  <2>6. KeysFollow(ver, VKeys, VLog, SeenLast, last, genesis)'
        /\ KeysFollow(mer, MKeys, MLog, SeenLast, last, genesis)'
    <3>1. \A b \in 1..(l - 1) : VLog'[b] = VLog[b]
      BY <1>s, <2>3 DEF VLog
    <3>2. \A b \in 1..(l - 1) : MLog'[b] = MLog[b]
      BY <1>s, <2>3 DEF MLog
    <3>3. CategoryTyped(ver, VKeys) /\ CategoryTyped(mer, MKeys)
      BY <1>0 DEF KvTyped
    <3>4. l \in Kv!Blocks /\ genesis \in 1..(l - 1) /\ VLog[l] \in UpdatesOf(VKeys) /\ MLog[l] \in UpdatesOf(MKeys)
      BY <1>1, <1>s
    <3>5. \A b \in 1..(genesis - 1) : SeenLast'[b] = SeenLast[b] /\ SeenLast[b] \in Nat /\ SeenLast[b] < l
      BY <2>5
    <3>6. KeysFollow(Kv!DeleteLastReachable(ver, l, VLog[l]), VKeys, VLog', SeenLast', l - 1, genesis)
      BY <2>1, <3>1, <3>3, <3>4, <3>5, FollowDeleteLast, ZenonT(60)
    <3>7. KeysFollow(Kv!DeleteLastReachable(mer, l, MLog[l]), MKeys, MLog', SeenLast', l - 1, genesis)
      BY <2>1, <3>2, <3>3, <3>4, <3>5, FollowDeleteLast, ZenonT(60)
    <3> QED BY <1>1, <1>s, <3>6, <3>7
  <2>t. /\ HasLeaf(l) => /\ log[l].version \in Nat \ {0} /\ log[l].version <= root
                         /\ \A v \in 0..(log[l].version - 1) : Kv!LeavesAt(v)' = Kv!LeavesAt(v)
    BY <1>l, DeleteTrees
  <2>7. \A b \in Kv!Blocks : Kv!LeavesAt(root)'[b] = IF b >= l THEN Kv!NoLeaf ELSE Kv!LeavesAt(root)[b]
    <3> SUFFICES ASSUME NEW b \in Kv!Blocks
                 PROVE  Kv!LeavesAt(root)'[b] = IF b >= l THEN Kv!NoLeaf ELSE Kv!LeavesAt(root)[b]
      OBVIOUS
    <3>1. CASE HasLeaf(l)
      <4>1. PICK v \in 0..(log[l].version - 1) : v = log[l].version - 1
        BY <2>t, <3>1
      <4>2. Kv!LeavesAt(root)' = Kv!LeavesAt(v)
        <5>1. Kv!LeavesAt(root)' = Kv!LeavesAt(v)'
          BY <1>1, <3>1, <4>1 DEF Kv!LeavesAt
        <5> QED BY <2>t, <3>1, <4>1, <5>1
      <4>3. l > prunedAt
        BY <1>s, <2>2
      <4>4. Kv!LeavesAt(v)[b] = IF b >= l THEN Kv!NoLeaf ELSE Kv!LeavesAt(root)[b]
        BY <1>1, <2>1, <3>1, <4>1, <4>3 DEF OldTrees
      <4> QED BY <4>2, <4>4
    <3>2. CASE ~HasLeaf(l)
      <4>1. Kv!LeavesAt(root)' = Kv!LeavesAt(root)
        BY <1>1, <3>2 DEF Kv!LeavesAt, Kv!NoLeaves, Kv!Blocks, Kv!NoLeaf
      <4>2. b >= l => LeafOf(b) = Kv!NoLeaf
        <5>1. b >= l => b = l \/ b > last
          BY <1>l, <1>s
        <5>2. l >= genesis /\ ~(l > last)
          BY <1>1, <1>s
        <5> QED BY <3>2, <5>1, <5>2 DEF LeafOf
      <4> QED BY <2>1, <4>1, <4>2
    <3> QED BY <3>1, <3>2
  <2>8. ASSUME NEW b \in Kv!Blocks PROVE Kv!LeavesAt(root)'[b] = LeafOf(b)'
    <3>1. CASE b >= l
      <4>1. b > last'
        BY <1>1, <1>s, <3>1
      <4> QED BY <2>7, <3>1, <4>1 DEF LeafOf, Kv!NoLeaf
    <3>2. CASE ~(b >= l)
      <4>1. b \in 1..(l - 1) /\ ~(b > last) /\ ~(b > last')
        BY <1>1, <1>l, <1>s, <3>2
      <4>2. LeafOf(b)' = LeafOf(b)
        BY <1>1, <2>3, <4>1 DEF LeafOf, HasLeaf
      <4> QED BY <2>1, <2>7, <3>2, <4>2
    <3> QED BY <3>1, <3>2
  <2>9. ASSUME NEW d \in 1..(l - 1), d > prunedAt, HasLeaf(d)', NEW b \in Kv!Blocks
        PROVE  Kv!LeavesAt(log[d].version - 1)'[b] = IF b >= d THEN Kv!NoLeaf ELSE Kv!LeavesAt(root)'[b]
    <3>1. d \in 1..last /\ d >= genesis /\ HasLeaf(d) /\ log'[d] = log[d]
      BY <1>s, <2>3, <2>9, <2>g
    <3>2. /\ lastDeleted < log[d].version /\ log[d].version <= root /\ log[d].version \in Nat
          /\ HasLeaf(l) => log[d].version < log[l].version
      <4>1. l \in (d + 1)..last
        BY <1>1, <1>s
      <4> QED BY <1>0, <1>s, <3>1, <4>1 DEF VersionsGrow
    <3>3. PICK y \in Nat : y = log[d].version - 1
      <4>1. log[d].version - 1 \in Nat
        BY <1>s, <3>2
      <4> QED BY <4>1
    <3>4. Kv!LeavesAt(y)' = Kv!LeavesAt(y)
      <4>1. CASE HasLeaf(l)
        <5>1. y \in 0..(log[l].version - 1)
          <6>1. PICK z \in Nat : z = log[d].version
            BY <3>2
          <6>2. PICK q \in Nat : q = log[l].version
            BY <2>t, <4>1
          <6>3. z < q /\ y = z - 1
            BY <3>2, <3>3, <4>1, <6>1, <6>2
          <6>4. y \in 0..(q - 1)
            BY <6>3
          <6> QED BY <6>2, <6>4
        <5> QED BY <2>t, <4>1, <5>1
      <4>2. CASE ~HasLeaf(l)
        BY <1>1, <4>2 DEF Kv!LeavesAt, Kv!NoLeaves, Kv!Blocks, Kv!NoLeaf
      <4> QED BY <4>1, <4>2
    <3>5. Kv!LeavesAt(log[d].version - 1)' = Kv!LeavesAt(y)'
      BY <3>1, <3>3 DEF Kv!LeavesAt
    <3>6. Kv!LeavesAt(y)[b] = IF b >= d THEN Kv!NoLeaf ELSE Kv!LeavesAt(root)[b]
      BY <2>1, <2>9, <3>1, <3>3 DEF OldTrees
    <3>7. ~(b >= d) => ~(b >= l)
      BY <1>s
    <3> QED BY <2>7, <3>4, <3>5, <3>6, <3>7
  <2>10. OldTrees'
    BY <1>1, <2>9 DEF OldTrees
  <2>11. \A b \in Kv!Blocks : Kv!LeavesAt(root)'[b] = LeafOf(b)'
    BY <2>8
  <2> QED BY <2>4, <2>6, <2>10, <2>11 DEF ChainInv
<1> QED BY <1>2, <1>3

(***************************************************************************)
(* All steps                                                               *)
(***************************************************************************)
LEMMA ChainInit == ASSUME ChainSizes, Kv!Init PROVE ReadInv /\ ChainInv
<1>1. /\ genesis = 0 /\ last = 0 /\ log = [b \in Kv!Blocks |-> Kv!NoBlock]
      /\ ver = Kv!Empty(VKeys) /\ mer = Kv!Empty(MKeys) /\ pruned = [b \in Kv!Blocks |-> {}]
      /\ trees = [v \in Kv!Versions |-> Kv!NoTree] /\ root = 0 /\ lastDeleted = 0
      /\ cache = Kv!NoBlock /\ raw = Kv!NoBlock /\ prunedAt = 0 /\ undone = FALSE
  BY DEF Kv!Init
<1>s. MaxBlock \in Nat /\ Kv!Blocks = 1..MaxBlock
  BY DEF ChainSizes, Kv!Blocks
<1>2. ASSUME NEW K
      PROVE  /\ CategoryTyped(Kv!Empty(K), K)
             /\ \A k \in K : /\ Kv!Empty(K).active[k] = 0 /\ Kv!Empty(K).latest[k] = Kv!NoVersion
                             /\ \A b \in Kv!Blocks : Kv!Empty(K).values[k][b] = "none"
  <2>1. /\ Kv!Empty(K).values = [k \in K |-> [b \in Kv!Blocks |-> "none"]]
        /\ Kv!Empty(K).latest = [k \in K |-> Kv!NoVersion]
        /\ Kv!Empty(K).active = [k \in K |-> 0]
        /\ Kv!Empty(K) = [values |-> Kv!Empty(K).values, latest |-> Kv!Empty(K).latest,
                          active |-> Kv!Empty(K).active]
    BY DEF Kv!Empty
  <2>2. Kv!NoVersion \in [ver : 0..MaxBlock, deleted : BOOLEAN]
    BY <1>s DEF Kv!NoVersion
  <2>3. [k \in K |-> 0] \in [K -> 0..MaxBlock]
    BY <1>s
  <2> QED BY <2>1, <2>2, <2>3 DEF CategoryTyped
<1>3. KvTyped
  <2>1. pruned \in [Kv!Blocks -> SUBSET MKeys] /\ trees \in [Kv!Versions -> Trees]
    BY <1>1, TreeIs
  <2>2. cache.id \in Nat
    BY <1>1 DEF Kv!NoBlock
  <2>3. \A b \in 1..last : FALSE
    BY <1>1
  <2>4. log = [b \in Kv!Blocks |-> log[b]]
    BY <1>1
  <2>5. CategoryTyped(ver, VKeys) /\ CategoryTyped(mer, MKeys)
    BY <1>1, <1>2
  <2>6. genesis \in 0..MaxBlock /\ last \in 0..MaxBlock /\ genesis <= last /\ root \in Nat
        /\ lastDeleted \in Nat /\ lastDeleted <= root /\ prunedAt \in Nat
    BY <1>1, <1>s
  <2>7. undone \in BOOLEAN
    BY <1>1
  <2> QED BY <1>1, <2>1, <2>2, <2>3, <2>4, <2>5, <2>6, <2>7 DEF KvTyped
<1>4. \A b \in 1..last : FALSE
  BY <1>1
<1>5. VersionsGrow
  <2>1. \A v \in 1..root : FALSE
    BY <1>1
  <2> QED BY <1>4, <2>1 DEF VersionsGrow
<1>6. VersionsFit
  <2>1. Prunings = 0
    BY <1>1 DEF Prunings
  <2>2. \A x \in 0..last : root <= x + 0
    BY <1>1
  <2> QED BY <1>4, <2>1, <2>2 DEF VersionsFit
<1>7. PrunedFits
  <2>1. \A b \in Kv!Blocks : b # 0
    BY <1>s
  <2> QED BY <1>1, <1>2, <2>1 DEF PrunedFits
<1>8. ParentsFit
  <2>1. \A b \in 2..last : FALSE
    BY <1>1
  <2> QED BY <1>4, <2>1 DEF ParentsFit
<1>9. KeysReadable(ver, VKeys, VLog, last, genesis) /\ KeysReadable(mer, MKeys, MLog, last, genesis)
  BY <1>1, <1>2, <1>4 DEF KeysReadable
<1>10. ReadInv
  BY <1>3, <1>5, <1>6, <1>7, <1>8, <1>9 DEF ReadInv
<1>11. ASSUME NEW K, NEW U, NEW P PROVE KeysFollow(Kv!Empty(K), K, U, P, 0, 0)
  <2>1. \A b \in Kv!Blocks : b > 0 /\ ~(b < 0) /\ b # 0
    BY <1>s
  <2>2. ASSUME NEW k \in K PROVE LatestIs(Kv!Empty(K).values[k], MaxBlock + 1, Kv!Empty(K).latest[k])
    <3>1. \A x \in 1..((MaxBlock + 1) - 1) : Kv!Empty(K).values[k][x] = "none"
      <4>1. \A x \in 1..((MaxBlock + 1) - 1) : x \in Kv!Blocks
        BY <1>s
      <4> QED BY <1>2, <4>1
    <3> QED BY <1>2, <3>1, LatestNone
  <2> QED BY <1>2, <2>1, <2>2 DEF KeysFollow, ValueOf
<1>12. GenesisRecorded
  <2>1. prunedAt <= last /\ genesis <= prunedAt + 1
    BY <1>1
  <2> QED BY <1>4, <2>1 DEF GenesisRecorded
<1>13. OldTrees
  BY <1>4 DEF OldTrees
<1>14. \A b \in Kv!Blocks : Kv!LeavesAt(root)[b] = LeafOf(b)
  <2>1. \A b \in Kv!Blocks : b > last
    BY <1>1, <1>s
  <2> QED BY <1>1, <2>1 DEF Kv!LeavesAt, Kv!NoLeaves, LeafOf
<1> QED BY <1>1, <1>10, <1>11, <1>12, <1>13, <1>14 DEF ChainInv

(* Steps that change at most the cached block and the one to link *)
LEMMA CacheStep ==
  ASSUME ChainSizes, ReadInv, ChainInv,
         UNCHANGED <<genesis, last, log, ver, mer, pruned, trees, root, stale, lastDeleted, prunedAt, undone>>,
         cache'.id \in Nat, cache'.id \in 1..last => cache' = cache,
         raw' # Kv!NoBlock =>
           raw'.v \in Kv!VUpdates /\ raw'.m \in Kv!MUpdates /\ raw'.genesis \in genesis..last
  PROVE  ReadInv' /\ ChainInv'
<1>0. KvTyped /\ VersionsGrow /\ VersionsFit /\ PrunedFits /\ ParentsFit
  BY DEF ReadInv
<1>1. \A b : /\ (HasLeaf(b)' <=> HasLeaf(b)) /\ LeafOf(b)' = LeafOf(b)
             /\ Kv!FromStorage(b)' = Kv!FromStorage(b) /\ Kv!LeavesAt(b)' = Kv!LeavesAt(b)
  BY DEF HasLeaf, LeafOf, Kv!FromStorage, Kv!LeavesAt, Kv!NoLeaves, Kv!NoLeaf, Kv!Blocks
<1>2. Prunings' = Prunings /\ VLog' = VLog /\ MLog' = MLog /\ SeenLast' = SeenLast
  BY DEF Prunings, VLog, MLog, SeenLast, Kv!LastWhenPruned
<1>3. KvTyped'
  BY <1>0 DEF KvTyped
<1>4. VersionsGrow'
  BY <1>0, <1>1 DEF VersionsGrow
<1>5. VersionsFit'
  BY <1>0, <1>1, <1>2 DEF VersionsFit
<1>6. PrunedFits'
  BY <1>0 DEF PrunedFits
<1>7. ParentsFit'
  <2>1. cache'.id \in 1..last => cache' = Kv!FromStorage(cache.id)'
    BY <1>0 DEF ParentsFit, Kv!FromStorage
  <2> QED BY <1>0, <1>1, <2>1 DEF ParentsFit
<1>8. KeysReadable(ver, VKeys, VLog, last, genesis)' /\ KeysReadable(mer, MKeys, MLog, last, genesis)'
  BY <1>2 DEF ReadInv
<1>9. ReadInv'
  BY <1>3, <1>4, <1>5, <1>6, <1>7, <1>8 DEF ReadInv
<1>10. CASE undone
  BY <1>9, <1>10 DEF ChainInv
<1>11. CASE ~undone
  <2>1. /\ GenesisRecorded /\ OldTrees
        /\ KeysFollow(ver, VKeys, VLog, SeenLast, last, genesis)
        /\ KeysFollow(mer, MKeys, MLog, SeenLast, last, genesis)
        /\ \A b \in Kv!Blocks : Kv!LeavesAt(root)[b] = LeafOf(b)
    BY <1>11 DEF ChainInv
  <2>2. GenesisRecorded'
    BY <2>1 DEF GenesisRecorded
  <2>r. Kv!LeavesAt(root)' = Kv!LeavesAt(root)
    BY DEF Kv!LeavesAt, Kv!NoLeaves, Kv!NoLeaf, Kv!Blocks
  <2>v. \A d : Kv!LeavesAt(log[d].version - 1)' = Kv!LeavesAt(log[d].version - 1)
    BY DEF Kv!LeavesAt, Kv!NoLeaves, Kv!NoLeaf, Kv!Blocks
  <2>3. OldTrees'
    BY <1>1, <2>1, <2>r, <2>v DEF OldTrees
  <2>4. KeysFollow(ver, VKeys, VLog, SeenLast, last, genesis)'
        /\ KeysFollow(mer, MKeys, MLog, SeenLast, last, genesis)'
    BY <1>2, <2>1
  <2>5. \A b \in Kv!Blocks : Kv!LeavesAt(root)'[b] = LeafOf(b)'
    BY <1>1, <2>1, <2>r
  <2> QED BY <1>9, <2>2, <2>3, <2>4, <2>5 DEF ChainInv
<1> QED BY <1>10, <1>11

LEMMA ChainStep ==
  ASSUME ChainSizes, ReadInv, ChainInv, [Kv!Next]_(Kv!vars)
  PROVE  ReadInv' /\ ChainInv'
<1>0. KvTyped
  BY DEF ReadInv
<1>s. genesis \in Nat /\ last \in Nat /\ cache.id \in Nat
  BY <1>0, ChainShapes DEF KvTyped
<1>r. raw # Kv!NoBlock =>
        raw.v \in Kv!VUpdates /\ raw.m \in Kv!MUpdates /\ raw.genesis \in genesis..last
  BY <1>0 DEF KvTyped
<1>1. CASE UNCHANGED Kv!vars
  BY <1>1, <1>r, <1>s, CacheStep DEF Kv!vars
<1>2. ASSUME NEW u \in Kv!Updates, Kv!AddBlock(u) PROVE ReadInv' /\ ChainInv'
  <2>1. u.v \in Kv!VUpdates /\ u.m \in Kv!MUpdates
    BY DEF Kv!Updates
  <2>2. Kv!Append(u, genesis) /\ raw' = Kv!NoBlock
    BY <1>2 DEF Kv!AddBlock
  <2>3. PICK g \in Nat : g = genesis /\ Kv!Append(u, g)
    BY <1>s, <2>2
  <2> QED BY <2>1, <2>2, <2>3, AppendRead, AppendChain
<1>3. ASSUME NEW u \in Kv!Updates, Kv!AddBlockFails(u) PROVE ReadInv' /\ ChainInv'
  <2>1. /\ UNCHANGED <<genesis, last, log, ver, mer, pruned, trees, root, stale, lastDeleted, prunedAt, undone>>
        /\ cache'.id = last + 1 /\ raw' = raw
    BY <1>3 DEF Kv!AddBlockFails
  <2>2. cache'.id \in Nat /\ ~(cache'.id \in 1..last)
    BY <1>s, <2>1
  <2> QED BY <1>r, <2>1, <2>2, CacheStep
<1>4. ASSUME NEW u \in Kv!Updates, NEW g \in genesis..last, Kv!ReceiveBlock(u, g) PROVE ReadInv' /\ ChainInv'
  <2>1. u.v \in Kv!VUpdates /\ u.m \in Kv!MUpdates
    BY DEF Kv!Updates
  <2>2. /\ UNCHANGED <<genesis, last, log, ver, mer, pruned, trees, root, stale, lastDeleted, prunedAt, undone>>
        /\ cache' = cache /\ raw'.v = u.v /\ raw'.m = u.m /\ raw'.genesis = g
    BY <1>4 DEF Kv!ReceiveBlock
  <2> QED BY <1>s, <2>1, <2>2, CacheStep
<1>5. CASE Kv!DeleteGenesisBlock
  BY <1>5, PruneRead, PruneChain DEF Kv!DeleteGenesisBlock
<1>6. CASE Kv!PruneCrashes
  BY <1>6, CrashKeeps
<1>7. CASE Kv!DeleteLastReachableBlock
  BY <1>7, DeleteRead, DeleteChain
<1>8. CASE Kv!LinkPrunes
  BY <1>8, PruneRead, PruneChain DEF Kv!LinkPrunes
<1>9. CASE Kv!LinkBlock
  <2>1. /\ raw # Kv!NoBlock /\ ~(genesis < raw.genesis) /\ raw' = Kv!NoBlock
        /\ Kv!Append([v |-> raw.v, m |-> raw.m], raw.genesis)
    BY <1>9 DEF Kv!LinkBlock, Kv!MustPrune
  <2>p. PICK u : u = [v |-> raw.v, m |-> raw.m]
    OBVIOUS
  <2>2. u = [v |-> raw.v, m |-> raw.m] /\ u.v = raw.v /\ u.m = raw.m
    BY <2>p
  <2>3. PICK g \in Nat : g = genesis /\ Kv!Append(u, g)
    BY <1>r, <1>s, <2>1, <2>2
  <2> QED BY <1>r, <2>1, <2>2, <2>3, AppendRead, AppendChain
<1>10. CASE Kv!Restart
  <2>1. /\ UNCHANGED <<genesis, last, log, ver, mer, pruned, trees, root, stale, lastDeleted, prunedAt, undone>>
        /\ cache'.id = 0 /\ raw' = raw
    BY <1>10 DEF Kv!Restart, Kv!NoBlock
  <2>2. cache'.id \in Nat /\ ~(cache'.id \in 1..last)
    BY <1>s, <2>1
  <2> QED BY <1>r, <2>1, <2>2, CacheStep
<1> QED BY <1>1, <1>2, <1>3, <1>4, <1>5, <1>6, <1>7, <1>8, <1>9, <1>10 DEF Kv!Next

-----------------------------------------------------------------------------
(* What the invariants say *)

LEMMA ReadsDoSucceed == ASSUME ChainSizes, ReadInv PROVE Kv!ParentsMatch /\ Kv!ReadsSucceed
<1>0. /\ KvTyped /\ VersionsGrow /\ VersionsFit /\ PrunedFits /\ ParentsFit
      /\ KeysReadable(ver, VKeys, VLog, last, genesis) /\ KeysReadable(mer, MKeys, MLog, last, genesis)
  BY DEF ReadInv
<1>s. /\ MaxBlock \in Nat /\ Kv!Blocks = 1..MaxBlock /\ genesis \in Nat /\ last \in Nat /\ genesis <= last
      /\ last <= MaxBlock /\ (genesis = 0 => last = 0) /\ root \in Nat /\ lastDeleted \in Nat /\ lastDeleted <= root
      /\ \A b \in 1..last : /\ b \in Kv!Blocks
                            /\ VLog[b] = log[b].v /\ log[b].v \in UpdatesOf(VKeys)
                            /\ MLog[b] = log[b].m /\ log[b].m \in UpdatesOf(MKeys)
                            /\ log[b].version \in Nat
                            /\ Kv!Touched(log[b].m) = {k \in MKeys : log[b].m[k] # "no"}
  BY <1>0, ChainShapes
<1>1. \A b \in 1..last : Kv!Touched(log[b].v) = {k \in VKeys : log[b].v[k] # "no"}
  BY <1>s DEF Kv!Touched, UpdatesOf
<1>2. Kv!ParentsMatch
  <2>1. \A b \in (genesis + 1)..last : b \in 2..last /\ b > genesis
    BY <1>s
  <2> QED BY <1>0, <2>1 DEF ParentsFit, Kv!ParentsMatch
<1>3. /\ \A k \in VKeys : \A b \in 1..last : b >= genesis /\ log[b].v[k] # "no" =>
           ver.values[k][b] = Written(log[b].v[k]) /\ ver.latest[k].ver >= b
      /\ \A k \in MKeys : \A b \in 1..last : b >= genesis /\ log[b].m[k] # "no" =>
           mer.values[k][b] = Written(log[b].m[k]) /\ mer.latest[k].ver >= b
  BY <1>0, <1>s DEF KeysReadable
<1>4. ASSUME NEW b \in genesis..last, b # 0
      PROVE  Kv!ReadBack(ver, b, log[b].v) /\ Kv!ReadBack(mer, b, log[b].m)
  <2>1. b \in 1..last /\ b >= genesis
    BY <1>s, <1>4
  <2>2. \A x : x # "no" /\ x # "del" => Written(x) = "put"
    BY DEF Written
  <2> QED BY <1>1, <1>3, <1>s, <2>1, <2>2 DEF Kv!ReadBack
<1>5. root # 0 => trees[root] # Kv!NoTree
  <2>1. root # 0 => root \in 1..root /\ root >= lastDeleted
    BY <1>s
  <2> QED BY <1>0, <2>1 DEF VersionsGrow
<1>6. \A b \in Kv!Blocks : \A k \in pruned[b] : mer.values[k][b] = "put"
  <2> SUFFICES ASSUME NEW b \in Kv!Blocks, NEW k \in pruned[b] PROVE mer.values[k][b] = "put"
    OBVIOUS
  <2>1. k \in MKeys /\ mer.active[k] = b /\ b # 0
    BY <1>0, <1>s DEF PrunedFits
  <2> QED BY <1>0, <2>1 DEF KeysReadable
<1>7. ASSUME genesis # 0
      PROVE  /\ \A k \in Kv!Touched(log[genesis].v) : ver.latest[k].ver >= genesis
             /\ \A k \in Kv!Touched(log[genesis].m) : mer.latest[k].ver >= genesis
             /\ \A b \in Kv!Rewritten(log[genesis].m) : pruned[b] # {}
             /\ Kv!Touched(log[genesis].m) # {} =>
                  /\ lastDeleted < log[genesis].version
                  /\ (lastDeleted + 1)..log[genesis].version \subseteq stale
  <2>1. genesis \in 1..last /\ genesis >= genesis
    BY <1>7, <1>s
  <2>2. /\ \A k \in Kv!Touched(log[genesis].v) : ver.latest[k].ver >= genesis
        /\ \A k \in Kv!Touched(log[genesis].m) : mer.latest[k].ver >= genesis
    BY <1>1, <1>3, <1>s, <2>1
  <2>3. ASSUME NEW b \in Kv!Rewritten(log[genesis].m) PROVE pruned[b] # {}
    <3>1. PICK k \in MKeys : mer.active[k] # 0 /\ b = mer.active[k]
      BY <1>s, <2>1 DEF Kv!Rewritten
    <3>2. mer.active[k] \in 0..MaxBlock
      BY <1>0, CategoryIs DEF KvTyped
    <3>3. b \in Kv!Blocks
      BY <1>s, <3>1, <3>2
    <3> QED BY <1>0, <3>1, <3>3 DEF PrunedFits
  <2>4. ASSUME Kv!Touched(log[genesis].m) # {}
        PROVE  /\ lastDeleted < log[genesis].version
               /\ (lastDeleted + 1)..log[genesis].version \subseteq stale
    <3>1. lastDeleted < log[genesis].version /\ log[genesis].version <= root
      BY <1>0, <2>1, <2>4 DEF VersionsGrow, HasLeaf
    <3>2. \A v \in (lastDeleted + 1)..log[genesis].version : v \in 1..root /\ v > lastDeleted
      <4>1. PICK w \in Nat : w = log[genesis].version
        BY <1>s, <2>1
      <4>2. \A v \in (lastDeleted + 1)..w : v \in 1..root /\ v > lastDeleted
        BY <1>s, <3>1, <4>1
      <4> QED BY <4>1, <4>2
    <3> QED BY <1>0, <3>1, <3>2 DEF VersionsGrow
  <2> QED BY <2>2, <2>3, <2>4
<1> QED BY <1>2, <1>4, <1>5, <1>6, <1>7 DEF Kv!ReadsSucceed

LEMMA ChainIsFollowed == ASSUME ChainSizes, ReadInv, ChainInv PROVE Kv!StorageFollowsChain
<1> SUFFICES ASSUME ~undone
             PROVE  /\ Kv!KeysFollowChain(ver, VKeys, Kv!VOf) /\ Kv!KeysFollowChain(mer, MKeys, Kv!MOf)
                    /\ Kv!LeavesFollowChain
  BY DEF Kv!StorageFollowsChain
<1>0. KvTyped /\ PrunedFits /\ CategoryTyped(ver, VKeys) /\ CategoryTyped(mer, MKeys)
  BY DEF ReadInv, KvTyped
<1>1. /\ KeysFollow(ver, VKeys, VLog, SeenLast, last, genesis)
      /\ KeysFollow(mer, MKeys, MLog, SeenLast, last, genesis)
      /\ \A b \in Kv!Blocks : Kv!LeavesAt(root)[b] = LeafOf(b)
  BY DEF ChainInv
<1>s. /\ MaxBlock \in Nat /\ Kv!Blocks = 1..MaxBlock /\ genesis \in Nat /\ last \in Nat /\ genesis <= last
      /\ last <= MaxBlock
  BY <1>0, ChainShapes
<1>2. \A b \in Kv!Blocks : \A x \in (b + 1)..last : x \in Kv!Blocks
  BY <1>s
<1>3. \A b \in Kv!Blocks : /\ VLog[b] = Kv!VOf(b) /\ MLog[b] = Kv!MOf(b)
                           /\ SeenLast[b] = Kv!LastWhenPruned(b)
  BY DEF VLog, MLog, SeenLast, Kv!VOf, Kv!MOf
<1>4. \A k : \A b \in Kv!Blocks :
        Kv!IsActive(k, b, Kv!VOf) <=> KeyActive(VLog, SeenLast, last, genesis, k, b)
  BY <1>2, <1>3 DEF Kv!IsActive, KeyActive
<1>5. \A k : \A b \in Kv!Blocks :
        Kv!IsActive(k, b, Kv!MOf) <=> KeyActive(MLog, SeenLast, last, genesis, k, b)
  BY <1>2, <1>3 DEF Kv!IsActive, KeyActive
<1>6. \A k : \A b \in Kv!Blocks :
        Kv!ExpectedValue(k, b, Kv!VOf) = ValueOf(VLog, SeenLast, last, genesis, k, b)
  BY <1>3, <1>4 DEF Kv!ExpectedValue, ValueOf, Written
<1>7. \A k : \A b \in Kv!Blocks :
        Kv!ExpectedValue(k, b, Kv!MOf) = ValueOf(MLog, SeenLast, last, genesis, k, b)
  BY <1>3, <1>5 DEF Kv!ExpectedValue, ValueOf, Written
<1>8. MaxBlock + 1 \in 1..MaxBlock + 1
  BY <1>s
<1>9. Kv!KeysFollowChain(ver, VKeys, Kv!VOf)
  <2>1. ASSUME NEW k \in VKeys
        PROVE  /\ \A b \in Kv!Blocks : ver.values[k][b] = Kv!ExpectedValue(k, b, Kv!VOf)
               /\ ver.latest[k] = Kv!Previous(ver, k, MaxBlock + 1)
               /\ \A b \in Kv!Blocks : ver.active[k] = b <=> b < genesis /\ Kv!IsActive(k, b, Kv!VOf)
    <3>1. /\ \A b \in Kv!Blocks : ver.values[k][b] = ValueOf(VLog, SeenLast, last, genesis, k, b)
          /\ LatestIs(ver.values[k], MaxBlock + 1, ver.latest[k])
          /\ \A b \in Kv!Blocks :
               ver.active[k] = b <=> b < genesis /\ KeyActive(VLog, SeenLast, last, genesis, k, b)
      BY <1>1, FollowOne
    <3>2. ver.latest[k] = Kv!Previous(ver, k, MaxBlock + 1)
      BY <1>0, <1>8, <3>1, PreviousIs
    <3> QED BY <1>4, <1>6, <3>1, <3>2
  <2> QED BY <2>1 DEF Kv!KeysFollowChain
<1>10. Kv!KeysFollowChain(mer, MKeys, Kv!MOf)
  <2>1. ASSUME NEW k \in MKeys
        PROVE  /\ \A b \in Kv!Blocks : mer.values[k][b] = Kv!ExpectedValue(k, b, Kv!MOf)
               /\ mer.latest[k] = Kv!Previous(mer, k, MaxBlock + 1)
               /\ \A b \in Kv!Blocks : mer.active[k] = b <=> b < genesis /\ Kv!IsActive(k, b, Kv!MOf)
    <3>1. /\ \A b \in Kv!Blocks : mer.values[k][b] = ValueOf(MLog, SeenLast, last, genesis, k, b)
          /\ LatestIs(mer.values[k], MaxBlock + 1, mer.latest[k])
          /\ \A b \in Kv!Blocks :
               mer.active[k] = b <=> b < genesis /\ KeyActive(MLog, SeenLast, last, genesis, k, b)
      BY <1>1, FollowOne
    <3>2. mer.latest[k] = Kv!Previous(mer, k, MaxBlock + 1)
      BY <1>0, <1>8, <3>1, PreviousIs
    <3> QED BY <1>5, <1>7, <3>1, <3>2
  <2> QED BY <2>1 DEF Kv!KeysFollowChain
<1>11. Kv!LeavesFollowChain
  <2>1. ASSUME NEW b \in Kv!Blocks, b < genesis
        PROVE  pruned[b] = {k \in MKeys : Kv!IsActive(k, b, Kv!MOf)}
    <3>1. \A k \in MKeys : mer.active[k] = b <=> Kv!IsActive(k, b, Kv!MOf)
      BY <1>1, <1>5, <2>1, FollowOne
    <3> QED BY <1>0, <3>1 DEF PrunedFits
  <2>2. \A b \in Kv!Blocks : b >= genesis \/ b < genesis
    BY <1>s
  <2> QED BY <1>1, <2>1, <2>2 DEF Kv!LeavesFollowChain, LeafOf, HasLeaf
<1> QED BY <1>9, <1>10, <1>11

(***************************************************************************)
(* THEOREM.  Whatever is added, linked, pruned, deleted and interrupted by *)
(* a crash: a block's parent digest is that of the block before it, cached *)
(* or not, and what pruning, deleting and reading (getRawBlock) ask for is *)
(* there: the values of the blocks that are left, the active keys of those *)
(* that are not, the latest tree and the stale index without a hole.       *)
(***************************************************************************)
THEOREM BlocksCanBeRead ==
  ASSUME ChainSizes
  PROVE  Kv!Spec => [](Kv!ParentsMatch /\ Kv!ReadsSucceed)
<1>1. Kv!Init => ReadInv /\ ChainInv
  BY ChainInit
<1>2. ReadInv /\ ChainInv /\ [Kv!Next]_(Kv!vars) => ReadInv' /\ ChainInv'
  BY ChainStep
<1>3. ReadInv => Kv!ParentsMatch /\ Kv!ReadsSucceed
  BY ReadsDoSucceed
<1> QED BY <1>1, <1>2, <1>3, PTL DEF Kv!Spec

(***************************************************************************)
(* THEOREM.  Values, latest versions, the index of active keys and the     *)
(* leaves of the tree are a function of the blocks and of the genesis      *)
(* block, however a replica came to them, unless a block was deleted       *)
(* (deleteLastReachableBlock) that had been there when an older one was    *)
(* pruned.                                                                 *)
(***************************************************************************)
THEOREM StorageFollowsBlocks ==
  ASSUME ChainSizes
  PROVE  Kv!Spec => []Kv!StorageFollowsChain
<1>1. Kv!Init => ReadInv /\ ChainInv
  BY ChainInit
<1>2. ReadInv /\ ChainInv /\ [Kv!Next]_(Kv!vars) => ReadInv' /\ ChainInv'
  BY ChainStep
<1>3. ReadInv /\ ChainInv => Kv!StorageFollowsChain
  BY ChainIsFollowed
<1> QED BY <1>1, <1>2, <1>3, PTL DEF Kv!Spec
=============================================================================
