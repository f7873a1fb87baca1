----------------------------- MODULE MCProgress ------------------------------
(*****************************************************************************)
(* What must eventually happen, checked in one run on small instances of the *)
(* modules that state it: `instance` is chosen at the start and never changes. *)
(*                                                                           *)
(*   Combine  shares of a signature are combined                             *)
(*   Leave    replicas leave a view                                          *)
(*   Slot     the pre-execution slot of a client is freed                    *)
(*   Cycle    a cycle of state transfer ends                                 *)
(*   Serve    a source ends its batches                                      *)
(*   Link     the blocks of a cycle are linked, without a crash              *)
(*   Single   the same in batches of one block, with crashes (v4 blockchain) *)
(*   Execute  what was deferred during an execution is applied               *)
(*****************************************************************************)
EXTENDS Integers, Sequences

CONSTANTS s1, s2, s3, NoReplica

VARIABLES
  instance, curView, viewActive, insideActiveWindow, collectingState,
  prePrepare, collector, jobs, transfers, aborted, reps, net, asked, losses,
  restarts, entry, hist, retry, replica, reqs, busy, replies, ran, passed,
  last, psd, blocks, pages, fetch, rvb, pending, sel, certs, asks, run,
  complete, stateTransferAsked, newest, faults, low, head, mode, session,
  batch, ctxs, stSourceLast, held, stSourceBusy, out, refused, linked, st,
  lastSt, first, pc, blockCommitFetch, blockCommitRvb, io, ppq, pp, ppUpper,
  ppMax, blockCommitAborted, crashes, rep, active, started, done, deferred,
  reads, flags, checking, asyncExecutionPc, arrived, dirty, dropped

Combine == INSTANCE SigCollector WITH
  Replicas <- 0..3, Self <- 0, Faulty <- {3}, Required <- 3, MaxView <- 1,
  MaxTransfers <- 0

Leave == INSTANCE ViewChange WITH
  N <- 4, F <- 1, Down <- {3}, Early <- {1, 2}, Gaps <- {}, MaxView <- 1,
  MaxLosses <- 1, MaxRestarts <- 0, Reports <- TRUE

Slot == INSTANCE PreExec WITH
  Replicas <- 0..3, Primary <- 0, RoReplicas <- 0, F <- 1, MaxSeq <- 1,
  MaxRetry <- 2, Data <- {"a"}, BlockIds <- {0}, Errors <- {}

Cycle == INSTANCE StateTransfer WITH
  Sources <- {s1, s2, s3}, MaxRetransmissions <- 1, MinPrePrepares <- 2,
  F <- 1, FetchRange <- 2, RvtK <- 2, Chunks <- 1, ResetCount <- 0,
  Silent <- {s3}, Faulty <- {}, MaxCp <- 1, BlocksPerCp <- 3, MaxStored <- 2,
  ChunksInBatch <- 2, PrimaryAware <- FALSE, MaxCrashes <- 1, MaxClears <- 0,
  asked <- stateTransferAsked

Serve == INSTANCE StSource WITH
  Dests <- {"d1", "d2"}, MaxBlock <- 2, Chunks <- 1, N <- 2, PreFetch <- TRUE,
  MaxSeq <- 1, Head0 <- 1, Modes <- TRUE, last <- stSourceLast,
  busy <- stSourceBusy

Link == INSTANCE BlockCommit WITH
  Last <- 9, FetchRange <- 2, RvtK <- 4, ChunksInBatch <- 3, V4 <- FALSE,
  MaxCrashes <- 0, fetch <- blockCommitFetch,
  rvb <- blockCommitRvb, aborted <- blockCommitAborted

Single == INSTANCE BlockCommit WITH
  Last <- 6, FetchRange <- 1, RvtK <- 3, ChunksInBatch <- 1, V4 <- TRUE,
  MaxCrashes <- 2, fetch <- blockCommitFetch,
  rvb <- blockCommitRvb, aborted <- blockCommitAborted

Execute == INSTANCE AsyncExecution WITH
  W <- 2, C <- 1, Lag <- 1, QueueSize <- 1, Async <- TRUE,
  Kinds <- {"checkpoint"}, MaxSeq <- 3, MaxView <- 0, MaxMsgs <- 2,
  pc <- asyncExecutionPc

sigCollectorVars == <<curView, viewActive, insideActiveWindow,
  collectingState, prePrepare, collector, jobs, transfers, aborted>>
viewChangeVars == <<reps, net, asked, losses, restarts>>
preExecVars == <<entry, hist, retry, replica, reqs, busy, replies, ran,
  passed, last>>
stateTransferVars == <<psd, blocks, pages, fetch, rvb, pending, sel, certs,
  asks, run, complete, stateTransferAsked, newest, faults>>
stSourceVars == <<low, head, mode, session, batch, ctxs, stSourceLast, held,
  stSourceBusy, out, refused>>
blockCommitVars == <<linked, st, lastSt, first, pc, blockCommitFetch,
  blockCommitRvb, io, ppq, pp, ppUpper, ppMax, blockCommitAborted, crashes>>
asyncExecutionVars == <<rep, active, started, done, deferred, reads, flags,
  checking, asyncExecutionPc, arrived, dirty, dropped>>

vars ==
  <<instance, sigCollectorVars, viewChangeVars, preExecVars,
  stateTransferVars, stSourceVars, blockCommitVars, asyncExecutionVars>>

NoSigCollector ==
  /\ curView = "unused" /\ viewActive = "unused"
  /\ insideActiveWindow = "unused" /\ collectingState = "unused"
  /\ prePrepare = "unused" /\ collector = "unused" /\ jobs = "unused"
  /\ transfers = "unused" /\ aborted = "unused"
NoViewChange ==
  /\ reps = "unused" /\ net = "unused" /\ asked = "unused"
  /\ losses = "unused" /\ restarts = "unused"
NoPreExec ==
  /\ entry = "unused" /\ hist = "unused" /\ retry = "unused"
  /\ replica = "unused" /\ reqs = "unused" /\ busy = "unused"
  /\ replies = "unused" /\ ran = "unused" /\ passed = "unused"
  /\ last = "unused"
NoStateTransfer ==
  /\ psd = "unused" /\ blocks = "unused" /\ pages = "unused"
  /\ fetch = "unused" /\ rvb = "unused" /\ pending = "unused"
  /\ sel = "unused" /\ certs = "unused" /\ asks = "unused" /\ run = "unused"
  /\ complete = "unused" /\ stateTransferAsked = "unused"
  /\ newest = "unused" /\ faults = "unused"
NoStSource ==
  /\ low = "unused" /\ head = "unused" /\ mode = "unused"
  /\ session = "unused" /\ batch = "unused" /\ ctxs = "unused"
  /\ stSourceLast = "unused" /\ held = "unused" /\ stSourceBusy = "unused"
  /\ out = "unused" /\ refused = "unused"
NoBlockCommit ==
  /\ linked = "unused" /\ st = "unused" /\ lastSt = "unused"
  /\ first = "unused" /\ pc = "unused" /\ blockCommitFetch = "unused"
  /\ blockCommitRvb = "unused" /\ io = "unused" /\ ppq = "unused"
  /\ pp = "unused" /\ ppUpper = "unused" /\ ppMax = "unused"
  /\ blockCommitAborted = "unused" /\ crashes = "unused"
NoAsyncExecution ==
  /\ rep = "unused" /\ active = "unused" /\ started = "unused"
  /\ done = "unused" /\ deferred = "unused" /\ reads = "unused"
  /\ flags = "unused" /\ checking = "unused" /\ asyncExecutionPc = "unused"
  /\ arrived = "unused" /\ dirty = "unused" /\ dropped = "unused"

\* Only the parts named are in use.
Only(m) ==
  /\ m # "SigCollector" => NoSigCollector
  /\ m # "ViewChange" => NoViewChange
  /\ m # "PreExec" => NoPreExec
  /\ m # "StateTransfer" => NoStateTransfer
  /\ m # "StSource" => NoStSource
  /\ m # "BlockCommit" => NoBlockCommit
  /\ m # "AsyncExecution" => NoAsyncExecution

OnlyNext(m) ==
  /\ m # "SigCollector" => UNCHANGED sigCollectorVars
  /\ m # "ViewChange" => UNCHANGED viewChangeVars
  /\ m # "PreExec" => UNCHANGED preExecVars
  /\ m # "StateTransfer" => UNCHANGED stateTransferVars
  /\ m # "StSource" => UNCHANGED stSourceVars
  /\ m # "BlockCommit" => UNCHANGED blockCommitVars
  /\ m # "AsyncExecution" => UNCHANGED asyncExecutionVars

Init ==
  \/ instance = "Combine" /\ Combine!Init /\ Only("SigCollector")
  \/ instance = "Leave" /\ Leave!Init /\ Only("ViewChange")
  \/ instance = "Slot" /\ Slot!Init /\ Only("PreExec")
  \/ instance = "Cycle" /\ Cycle!Init /\ Only("StateTransfer")
  \/ instance = "Serve" /\ Serve!Init /\ Only("StSource")
  \/ instance = "Link" /\ Link!Init /\ Only("BlockCommit")
  \/ instance = "Single" /\ Single!Init /\ Only("BlockCommit")
  \/ instance = "Execute" /\ Execute!Init /\ Only("AsyncExecution")

Next ==
  /\ UNCHANGED instance
  /\ \/ instance = "Combine" /\ Combine!Next /\ OnlyNext("SigCollector")
     \/ instance = "Leave" /\ Leave!Next /\ OnlyNext("ViewChange")
     \/ instance = "Slot" /\ Slot!Next /\ OnlyNext("PreExec")
     \/ instance = "Cycle" /\ Cycle!Next /\ OnlyNext("StateTransfer")
     \/ instance = "Serve" /\ Serve!Next /\ OnlyNext("StSource")
     \/ instance = "Link" /\ Link!Next /\ OnlyNext("BlockCommit")
     \/ instance = "Single" /\ Single!Next /\ OnlyNext("BlockCommit")
     \/ instance = "Execute" /\ Execute!Next /\ OnlyNext("AsyncExecution")

Spec == Init /\ [][Next]_vars

(*****************************************************************************)
(* Fairness.  Threads, thread pools and timers run; what is sent again and   *)
(* again arrives.  Nothing is assumed of timers that only start something,   *)
(* of clients, of crashes and of messages that are sent once.                *)
(*****************************************************************************)
Runs(name, A) == instance = name /\ A

combineVars == Combine!vars
leaveVars == Leave!vars
slotVars == Slot!vars
cycleVars == Cycle!vars
serveVars == Serve!vars
linkVars == Link!vars
executeVars == Execute!vars

FairSpec ==
  /\ Spec
  \* the thread pool ends every job and its result is handled
  /\ WF_combineVars(Runs("Combine", \E j \in jobs : Combine!OnResult(j)))
  \* a message that is sent again and again, or asked for, arrives
  /\ \A r \in Leave!Up :
       /\ WF_leaveVars(Runs("Leave", Leave!Deliver(r)))
       /\ WF_leaveVars(Runs("Leave", \E q \in Leave!Up : Leave!Status(q, r)))
  \* the job of the primary ends and the status timer is periodic
  /\ WF_slotVars(Runs("Slot", Slot!PrimaryExecutes))
  /\ WF_slotVars(Runs("Slot", Slot!StatusTimerExpires))
  \* the handler thread of a destination runs, time passes, the callbacks return,
  \* and the sources that are up answer
  /\ WF_cycleVars(Runs("Cycle", Cycle!ProcessData))
  /\ WF_cycleVars(Runs("Cycle", Cycle!OnTimerSummaries))
  /\ SF_cycleVars(Runs("Cycle", Cycle!OnTimerData(TRUE)))
  /\ WF_cycleVars(Runs("Cycle", Cycle!OnTimerFinalize))
  /\ \A s \in Cycle!Up :
       /\ SF_cycleVars(Runs("Cycle", Cycle!DeliverNeeded(s)))
       /\ \A c \in Cycle!Cps : SF_cycleVars(Runs("Cycle", Cycle!OnCheckpointSummary(s, c, "right")))
  \* the timer resumes a batch of the source and its workers end their jobs
  /\ WF_serveVars(Runs("Serve", Serve!ContinueSendBatch))
  /\ WF_serveVars(Runs("Serve", \E i \in DOMAIN ctxs : Serve!Worker(i)))
  \* the threads that write and link blocks run; a process that aborted is started again
  /\ WF_linkVars(Runs("Link", Link!StThread))
  /\ WF_linkVars(Runs("Link", Link!PostProcess \/ Link!LinkOne))
  /\ WF_linkVars(Runs("Link", \E i \in 1..Len(io) : Link!Work(i)))
  /\ WF_linkVars(Runs("Single", Single!StThread))
  /\ WF_linkVars(Runs("Single", Single!PostProcess \/ Single!LinkOne))
  /\ WF_linkVars(Runs("Single", \E i \in 1..Len(io) : Single!Work(i)))
  /\ WF_linkVars(Runs("Single", blockCommitAborted # "no" /\ Single!Restart))
  \* the message loop and the thread that executes go on; results of validations
  \* are taken before external messages
  /\ WF_executeVars(Runs("Execute", Execute!Continue))
  /\ SF_executeVars(Runs("Execute", Execute!AnyValidated))

(*****************************************************************************)
(* Properties: what each says of the code is explained in its module.        *)
(*****************************************************************************)
\* Enough good shares for the expected digest become a certificate, unless
\* the view is left or the window moves, however many bad shares come too.
SharesAreCombined ==
  \A v \in 0..1 :
    (instance = "Combine" /\ Combine!EnoughShares /\ curView = v) ~>
      (instance = "Combine" =>
         collector.combinedValid = "good" \/ curView # v \/ ~insideActiveWindow)

\* When f+1 replicas have asked to leave a view, every replica leaves it.
AllLeave ==
  (instance = "Leave" /\ Leave!Asked(0)) ~>
    (instance = "Leave" => \A r \in Leave!Up : reps[r].cur > 0)

\* The pre-execution slot of a client is freed although answers and messages
\* may be lost.
SlotIsFreed ==
  (instance = "Slot" /\ entry # Slot!None) ~> (instance = "Slot" => entry = Slot!None)

\* State transfer ends: a cycle ends, although sources are replaced, reject,
\* restart their stores and stay silent, messages are lost, and this replica
\* crashes; a batch that the source began is sent, rejected or given up; and
\* the blocks of a cycle all become reachable: on the categorized blockchain
\* if the process does not crash, with batches of one block also after
\* crashes. (In larger batches a crash may leave blocks behind a hole, and
\* then the assertion of BCStateTran.cpp:3889 stops every later start.)
TransferEnds ==
  LET Ongoing == \/ instance = "Cycle" /\ psd.fetching
                 \/ instance = "Serve" /\ Serve!Sending
                 \/ instance = "Link" /\ ~(pc = "pages" /\ linked = 9)
                 \/ instance = "Single" /\ ~(pc = "pages" /\ linked = 6)
  IN Ongoing ~> ~Ongoing

\* Although deferred messages may be deferred again and again, a checkpoint
\* certificate that arrived during an execution is applied, unless the queue
\* was full or a state transfer begins.
CheckpointsGetThrough ==
  \A n \in 1..2 :
    (instance = "Execute" /\ Execute!HasCheckpoint(n)) ~>
      (instance = "Execute" => Execute!GotThrough(n))
==============================================================================
