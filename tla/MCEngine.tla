------------------------------ MODULE MCEngine -------------------------------
(*****************************************************************************)
(* Parts of a replica that keep their own state, checked in one run:         *)
(* `instance` is chosen at the start and never changes.  The constants of    *)
(* AsyncExecution are the widest that its instances use; what is not of the  *)
(* instance stays as it is at the start.                                     *)
(*                                                                           *)
(*   Collect    a collector of five shares, three of which make a signature  *)
(*   Transfers  one of four shares, with a state transfer that resets the slot *)
(*   Window     the circular window of a log                                 *)
(*   Threshold  agreement on the fast path with threshold 3f + c + 1         *)
(*   Executing  execution in its own thread, messages are validated asynchronously *)
(*   Leaving    the same with view changes and state transfer                *)
(*   Client     the client table: one request at a time, restarts            *)
(*   Batching   the client table: batches of two requests                    *)
(*   Duplicates the client table: duplicates of answered requests            *)
(*   Outcomes   pre-execution: two results, errors, block ids                *)
(*   Order      pre-execution: two requests of the client                    *)
(*   Batch      pre-execution of a batch at either role, with a view change  *)
(*   AtPrimary  pre-execution of a batch of three, at the primary            *)
(*   AtPeer     pre-execution of a batch of three, at another replica        *)
(*****************************************************************************)
EXTENDS AsyncExecution, Integers, Sequences, TLC

CONSTANTS d1, d2, nullRequest, noMsg, r1, r2, r3, r4

VARIABLES
  instance, curView, viewActive, insideActiveWindow, collectingState,
  prePrepare, collector, jobs, transfers, aborted, beginningOfActiveWindow,
  firstItemOfActiveWindow, numItemsInsideInactiveWindow, workingWindow,
  sbftCurView, sbftViewActive, seqNumInfo, lastExecutedSeqNum,
  lastStableSeqNum, prePrepareMsgs, startSlowMsgs, shares, viewChangeMsgs,
  newViewMsgs, executed, requestsMap, committed, replies,
  pages, isPrimary, requestsQueueOfPrimary, mainLog, sent, answered,
  executions, restarts, entry, hist, retry, replica, reqs, busy,
  preExecReplies, ran, passed, last, primary, batch, slot, loop,
  preExecBatchJobs, timer, msgs, views, abandoned

Collect == INSTANCE SigCollector WITH
  Replicas <- 0..4, Self <- 0, Faulty <- {3, 4}, Required <- 3, MaxView <- 1,
  MaxTransfers <- 0

Transfers == INSTANCE SigCollector WITH
  Replicas <- 0..3, Self <- 0, Faulty <- {3}, Required <- 3, MaxView <- 1,
  MaxTransfers <- 1

Window == INSTANCE ActiveWindow WITH
  WindowSize <- 8, Resolution <- 2, WindowHistory <- 1, Items <- {"x"},
  Empty <- "empty", MaxNumber <- 17

Threshold == INSTANCE Sbft WITH
  F <- 0, C <- 1, Byz <- {}, MaxView <- 1, MaxSeq <- 1, Requests <- {d1, d2},
  FirstPaths <- {"FAST_WITH_THRESHOLD"}, WorkWindow <- 2,
  CheckpointWindow <- 1, MaxConcurrentFastPaths <- 2, ConcurrencyLevel <- 2,
  TimeServiceEnabled <- FALSE, Null <- nullRequest, None <- noMsg,
  curView <- sbftCurView, viewActive <- sbftViewActive

Executing == INSTANCE AsyncExecution WITH
  Kinds <- {"checkpoint", "read"}, MaxView <- 0

Leaving == INSTANCE AsyncExecution WITH Async <- FALSE, MaxSeq <- 4

Client == INSTANCE Clients WITH
  MaxNumOfReqsPerClient <- 1, MaxNumOfRequestsInBatch <- 1,
  MaxPrimaryQueueSize <- 3, ConcurrencyLevel <- 3, ProposalSize <- 1, Batches <- 3,
  MaxRestarts <- 2, StaleDuplicates <- FALSE

Batching == INSTANCE Clients WITH
  MaxNumOfReqsPerClient <- 2, MaxNumOfRequestsInBatch <- 4,
  MaxPrimaryQueueSize <- 2, ConcurrencyLevel <- 2, ProposalSize <- 2, Batches <- 3,
  MaxRestarts <- 1, StaleDuplicates <- FALSE

Duplicates == INSTANCE Clients WITH
  MaxNumOfReqsPerClient <- 1, MaxNumOfRequestsInBatch <- 1,
  MaxPrimaryQueueSize <- 2, ConcurrencyLevel <- 2, ProposalSize <- 1, Batches <- 3,
  MaxRestarts <- 1, StaleDuplicates <- TRUE

Outcomes == INSTANCE PreExec WITH
  Replicas <- {r1, r2, r3, r4}, Primary <- r1, RoReplicas <- 0, F <- 1,
  MaxSeq <- 1, MaxRetry <- 2, Data <- {"a", "b"}, BlockIds <- {0, 1},
  Errors <- {"ERROR"}, replies <- preExecReplies

Order == INSTANCE PreExec WITH
  Replicas <- {r1, r2, r3, r4}, Primary <- r1, RoReplicas <- 0, F <- 1,
  MaxSeq <- 2, MaxRetry <- 3, Data <- {"a"}, BlockIds <- {0}, Errors <- {},
  replies <- preExecReplies

Batch == INSTANCE PreExecBatch WITH
  Size <- 2, MaxBatches <- 2, MaxMsgs <- 2, MaxViews <- 1, MayDecline <- TRUE,
  QuickTimeouts <- TRUE, Roles <- BOOLEAN, jobs <- preExecBatchJobs

AtPrimary == INSTANCE PreExecBatch WITH
  Size <- 3, MaxBatches <- 2, MaxMsgs <- 4, MaxViews <- 0, MayDecline <- TRUE,
  QuickTimeouts <- FALSE, Roles <- {TRUE}, jobs <- preExecBatchJobs

AtPeer == INSTANCE PreExecBatch WITH
  Size <- 3, MaxBatches <- 1, MaxMsgs <- 2, MaxViews <- 0,
  MayDecline <- FALSE, QuickTimeouts <- TRUE, Roles <- {FALSE}, jobs <- preExecBatchJobs

sigCollectorVars == <<curView, viewActive, insideActiveWindow,
  collectingState, prePrepare, collector, jobs, transfers, aborted>>
activeWindowVars == <<beginningOfActiveWindow, firstItemOfActiveWindow,
  numItemsInsideInactiveWindow, workingWindow>>
sbftVars == <<sbftCurView, sbftViewActive, seqNumInfo, lastExecutedSeqNum,
  lastStableSeqNum, prePrepareMsgs, startSlowMsgs, shares, viewChangeMsgs,
  newViewMsgs, executed>>
clientsVars == <<requestsMap, committed, replies, pages, isPrimary,
  requestsQueueOfPrimary, mainLog, sent, answered, executions, restarts>>
preExecVars == <<entry, hist, retry, replica, reqs, busy, preExecReplies, ran,
  passed, last>>
preExecBatchVars == <<primary, batch, slot, loop, preExecBatchJobs, timer,
  msgs, views, abandoned>>

mcVars ==
  <<instance, sigCollectorVars, activeWindowVars, sbftVars, vars,
  clientsVars, preExecVars, preExecBatchVars>>

NoSigCollector ==
  /\ curView = "unused" /\ viewActive = "unused"
  /\ insideActiveWindow = "unused" /\ collectingState = "unused"
  /\ prePrepare = "unused" /\ collector = "unused" /\ jobs = "unused"
  /\ transfers = "unused" /\ aborted = "unused"
NoActiveWindow ==
  /\ beginningOfActiveWindow = 0 /\ firstItemOfActiveWindow = 0
  /\ numItemsInsideInactiveWindow = 0
  /\ workingWindow = [i \in Window!Cells |-> "empty"]
NoSbft ==
  /\ sbftCurView = "unused" /\ sbftViewActive = "unused"
  /\ seqNumInfo = "unused" /\ lastExecutedSeqNum = "unused"
  /\ lastStableSeqNum = "unused" /\ prePrepareMsgs = "unused"
  /\ startSlowMsgs = "unused" /\ shares = "unused"
  /\ viewChangeMsgs = "unused" /\ newViewMsgs = "unused"
  /\ executed = "unused"
NoClients ==
  /\ requestsMap = "unused" /\ committed = "unused" /\ replies = "unused"
  /\ pages = "unused" /\ isPrimary = "unused"
  /\ requestsQueueOfPrimary = "unused" /\ mainLog = "unused"
  /\ sent = "unused" /\ answered = "unused" /\ executions = "unused"
  /\ restarts = "unused"
NoPreExec ==
  /\ entry = "unused" /\ hist = "unused" /\ retry = "unused"
  /\ replica = "unused" /\ reqs = "unused" /\ busy = "unused"
  /\ preExecReplies = "unused" /\ ran = "unused" /\ passed = "unused"
  /\ last = "unused"
NoPreExecBatch ==
  /\ primary = "unused" /\ batch = "unused" /\ slot = "unused"
  /\ loop = "unused" /\ preExecBatchJobs = "unused" /\ timer = "unused" /\ msgs = "unused"
  /\ views = "unused" /\ abandoned = "unused"

\* Only the parts named are in use.
Only(m) ==
  /\ m # "SigCollector" => NoSigCollector
  /\ m # "ActiveWindow" => NoActiveWindow
  /\ m # "Sbft" => NoSbft
  /\ m # "AsyncExecution" => Init
  /\ m # "Clients" => NoClients
  /\ m # "PreExec" => NoPreExec
  /\ m # "PreExecBatch" => NoPreExecBatch

OnlyNext(m) ==
  /\ m # "SigCollector" => UNCHANGED sigCollectorVars
  /\ m # "ActiveWindow" => UNCHANGED activeWindowVars
  /\ m # "Sbft" => UNCHANGED sbftVars
  /\ m # "AsyncExecution" => UNCHANGED vars
  /\ m # "Clients" => UNCHANGED clientsVars
  /\ m # "PreExec" => UNCHANGED preExecVars
  /\ m # "PreExecBatch" => UNCHANGED preExecBatchVars

MCInit ==
  \/ instance = "Collect" /\ Collect!Init /\ Only("SigCollector")
  \/ instance = "Transfers" /\ Transfers!Init /\ Only("SigCollector")
  \/ instance = "Window" /\ Window!Init /\ Only("ActiveWindow")
  \/ instance = "Threshold" /\ Threshold!Init /\ Only("Sbft")
  \/ instance = "Executing" /\ Executing!Init /\ Only("AsyncExecution")
  \/ instance = "Leaving" /\ Leaving!Init /\ Only("AsyncExecution")
  \/ instance = "Client" /\ Client!Init /\ Only("Clients")
  \/ instance = "Batching" /\ Batching!Init /\ Only("Clients")
  \/ instance = "Duplicates" /\ Duplicates!Init /\ Only("Clients")
  \/ instance = "Outcomes" /\ Outcomes!Init /\ Only("PreExec")
  \/ instance = "Order" /\ Order!Init /\ Only("PreExec")
  \/ instance = "Batch" /\ Batch!Init /\ Only("PreExecBatch")
  \/ instance = "AtPrimary" /\ AtPrimary!Init /\ Only("PreExecBatch")
  \/ instance = "AtPeer" /\ AtPeer!Init /\ Only("PreExecBatch")

MCNext ==
  /\ UNCHANGED instance
  /\ \/ instance = "Collect" /\ Collect!Next /\ OnlyNext("SigCollector")
     \/ instance = "Transfers" /\ Transfers!Next /\ OnlyNext("SigCollector")
     \/ instance = "Window" /\ Window!Next /\ OnlyNext("ActiveWindow")
     \/ instance = "Threshold" /\ Threshold!Next /\ OnlyNext("Sbft")
     \/ instance = "Executing" /\ Executing!Next /\ OnlyNext("AsyncExecution")
     \/ instance = "Leaving" /\ Leaving!Next /\ OnlyNext("AsyncExecution")
     \/ instance = "Client" /\ Client!Next /\ OnlyNext("Clients")
     \/ instance = "Batching" /\ Batching!Next /\ OnlyNext("Clients")
     \/ instance = "Duplicates" /\ Duplicates!Next /\ OnlyNext("Clients")
     \/ instance = "Outcomes" /\ Outcomes!Next /\ OnlyNext("PreExec")
     \/ instance = "Order" /\ Order!Next /\ OnlyNext("PreExec")
     \/ instance = "Batch" /\ Batch!Next /\ OnlyNext("PreExecBatch")
     \/ instance = "AtPrimary" /\ AtPrimary!Next /\ OnlyNext("PreExecBatch")
     \/ instance = "AtPeer" /\ AtPeer!Next /\ OnlyNext("PreExecBatch")

MCSpec == MCInit /\ [][MCNext]_mcVars

Symmetry == Permutations({r2, r3, r4}) \cup Permutations({d1, d2})

(*****************************************************************************)
(* Properties: what each says of the code is explained in its module.        *)
(*****************************************************************************)
\* A result of the background reaches only the collector that asked for it,
\* so that its ConcordAsserts hold; a certificate it holds as valid was
\* verified; its counter of usable shares is the number of them; and a
\* collector that waits has exactly one job.
CollectorSafe ==
  /\ instance = "Collect" => Collect!CollectorSafe
  /\ instance = "Transfers" => Transfers!CollectorSafe

\* Safety of the replicated state machine (README.md: "can handle malicious
\* (byzantine) replicas"): no two honest replicas execute different batches
\* for one sequence number, whatever path and view committed them.
Agreement == instance = "Threshold" => Threshold!Agreement

\* The window implements a map from the numbers of the window to their items
\* (WindowMap). In the other instances the window stays as it is at the
\* start.
ImplementsMap == Window!ImplementsMap

\* A request is executed once, however often it is resent, queued and ordered
\* until the client has its reply, across views, restarts and state
\* transfers. A copy delivered after that (Duplicates) is executed again only
\* if another request was executed meanwhile whose reply took its place.
ExecutedAtMostOnce ==
  /\ instance = "Client" => Client!ExecutedAtMostOnce
  /\ instance = "Batching" => Batching!ExecutedAtMostOnce
  /\ instance = "Duplicates" => Duplicates!ExecutedAtMostOnce

\* The replies of the client table are those of the reserved pages, no
\* request that was answered stays pending, and the table keeps its limits.
TableIsSound ==
  /\ instance = "Client" =>
       /\ Client!TypeOK
       /\ Client!RepliesMatchPages
       /\ Client!AnsweredNotPending
  /\ instance = "Batching" =>
       /\ Batching!TypeOK
       /\ Batching!RepliesMatchPages
       /\ Batching!AnsweredNotPending
  /\ instance = "Duplicates" =>
       /\ Duplicates!TypeOK
       /\ Duplicates!RepliesMatchPages
       /\ Duplicates!AnsweredNotPending

\* A result that is passed on to consensus was computed by f+1 replicas, for
\* this request, and no request is pre-executed after a newer one of its
\* client.
AgreedByQuorum ==
  /\ instance = "Outcomes" => Outcomes!AgreedByQuorum
  /\ instance = "Order" => Order!AgreedByQuorum

\* A batch whose requests are all done is released, so that the next one of the
\* client is accepted, and no request expires while its job runs: at a replica that
\* stays the primary, if no request expires before its batch is registered; and at
\* another replica between one message of the client and one of the primary, none of
\* whose requests is declined.  Outside of this the code does leave batches behind: a
\* replica that is not the primary does not count the requests it declines
\* (PreProcessor.cpp:821), a batch may take over the slots of one that the timer has
\* reset, and a job may clear the mark of the request that has its slot by then (1879).
BatchesRelease ==
  /\ instance = "Batch" => Batch!TypeOK
  /\ instance = "AtPrimary" =>
       /\ AtPrimary!NoBatchLeftBehind
       /\ AtPrimary!NotExpiredWhileRunning
  /\ instance = "AtPeer" =>
       /\ AtPeer!NoBatchLeftBehind
       /\ AtPeer!NotExpiredWhileRunning
==============================================================================
