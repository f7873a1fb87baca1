----------------------------- MODULE MCTransfer ------------------------------
(*****************************************************************************)
(* How what a replica lacks reaches it: the messages of a view that it has   *)
(* not entered, and the blocks and pages that state transfer brings, beside  *)
(* the cycle of a destination.  They are checked in one run: `instance` is   *)
(* chosen at the start and never changes.  Chain is the module ViewChange    *)
(* itself, with the constants of the configuration.                          *)
(*                                                                           *)
(*   Chain    two changes of view in a row, a replica is down                *)
(*   Leave    a change of view with a lost message, a restart, PrePrepares   *)
(*            that the pending view lacks, and status reports                *)
(*   Serve    the source serves two destinations                             *)
(*   Chunks   the source sends blocks of two chunks                          *)
(*   Keep     reserved pages: three checkpoints, two of them kept            *)
(*   Crash    reserved pages: a crash, two checkpoints kept                  *)
(*   Commit   blocks are written and linked while workers put them (categories) *)
(*   Commit4  the same, with the v4 blockchain                               *)
(*   Steady   blocks are written and linked without a crash                  *)
(*   Tree     the range validation tree, groups of two                       *)
(*   Tree3    the range validation tree, groups of three                     *)
(*****************************************************************************)
EXTENDS ViewChange, Sequences

VARIABLES
  instance, low, head, mode, session, batch, ctxs, last, held, busy, out,
  refused, written, executed, pending, stored, descs, first, resPagesLast,
  fetching, ending, cache, served, faults, linked, st, lastSt, blockCommitFirst, pc,
  fetch, rvb, io, ppq, pp, ppUpper, ppMax, aborted, crashes, tree, min, max

Leave == INSTANCE ViewChange WITH
  Gaps <- Up, MaxView <- 1, MaxLosses <- 1, MaxRestarts <- 1, Reports <- TRUE

Serve == INSTANCE StSource WITH
  Dests <- {"d1", "d2"}, MaxBlock <- 3, Chunks <- 1, N <- 2, PreFetch <- TRUE,
  MaxSeq <- 2, Head0 <- 3, Modes <- TRUE

Chunks == INSTANCE StSource WITH
  Dests <- {"d1"}, MaxBlock <- 3, Chunks <- 2, N <- 3, PreFetch <- TRUE,
  MaxSeq <- 2, Head0 <- 3, Modes <- TRUE

Keep == INSTANCE ResPages WITH
  Pages <- {1, 2}, MaxCp <- 3, MaxStored <- 2, MaxVBlocks <- 2,
  MaxCrashes <- 0, MaxFetches <- 1, last <- resPagesLast

Crash == INSTANCE ResPages WITH
  Pages <- {1, 2}, MaxCp <- 3, MaxStored <- 2, MaxVBlocks <- 1,
  MaxCrashes <- 1, MaxFetches <- 1, last <- resPagesLast

Commit == INSTANCE BlockCommit WITH
  Last <- 12, FetchRange <- 2, RvtK <- 3, ChunksInBatch <- 4, V4 <- FALSE,
  MaxCrashes <- 2, first <- blockCommitFirst

Commit4 == INSTANCE BlockCommit WITH
  Last <- 12, FetchRange <- 2, RvtK <- 3, ChunksInBatch <- 4, V4 <- TRUE,
  MaxCrashes <- 2, first <- blockCommitFirst

Steady == INSTANCE BlockCommit WITH
  Last <- 12, FetchRange <- 2, RvtK <- 3, ChunksInBatch <- 4, V4 <- FALSE,
  MaxCrashes <- 0, first <- blockCommitFirst

Tree == INSTANCE RangeValidationTree WITH
  K <- 2, MaxIndex <- 20, MaxLevel <- 6

Tree3 == INSTANCE RangeValidationTree WITH
  K <- 3, MaxIndex <- 20, MaxLevel <- 5

stSourceVars == <<low, head, mode, session, batch, ctxs, last, held, busy,
  out, refused>>
resPagesVars == <<written, executed, pending, stored, descs, first,
  resPagesLast, fetching, ending, cache, served, faults>>
blockCommitVars == <<linked, st, lastSt, blockCommitFirst, pc, fetch, rvb, io,
  ppq, pp, ppUpper, ppMax, aborted, crashes>>
rangeValidationTreeVars == <<tree, min, max>>
mcVars ==
  <<instance, vars, stSourceVars, resPagesVars, blockCommitVars,
  rangeValidationTreeVars>>

NoStSource ==
  /\ low = "unused" /\ head = "unused" /\ mode = "unused"
  /\ session = "unused" /\ batch = "unused" /\ ctxs = "unused"
  /\ last = "unused" /\ held = "unused" /\ busy = "unused" /\ out = "unused"
  /\ refused = "unused"
NoResPages ==
  /\ written = "unused" /\ executed = "unused" /\ pending = "unused"
  /\ stored = "unused" /\ descs = "unused" /\ first = "unused"
  /\ resPagesLast = "unused" /\ fetching = "unused" /\ ending = "unused" /\ cache = "unused"
  /\ served = "unused" /\ faults = "unused"
NoBlockCommit ==
  /\ linked = "unused" /\ st = "unused" /\ lastSt = "unused"
  /\ blockCommitFirst = "unused" /\ pc = "unused" /\ fetch = "unused"
  /\ rvb = "unused" /\ io = "unused" /\ ppq = "unused" /\ pp = "unused"
  /\ ppUpper = "unused" /\ ppMax = "unused" /\ aborted = "unused"
  /\ crashes = "unused"
NoRangeValidationTree ==
  /\ tree = "unused" /\ min = "unused" /\ max = "unused"
\* Only the parts named are in use.
Only(m) ==
  /\ m # "ViewChange" => Init
  /\ m # "StSource" => NoStSource
  /\ m # "ResPages" => NoResPages
  /\ m # "BlockCommit" => NoBlockCommit
  /\ m # "RangeValidationTree" => NoRangeValidationTree

OnlyNext(m) ==
  /\ m # "ViewChange" => UNCHANGED vars
  /\ m # "StSource" => UNCHANGED stSourceVars
  /\ m # "ResPages" => UNCHANGED resPagesVars
  /\ m # "BlockCommit" => UNCHANGED blockCommitVars
  /\ m # "RangeValidationTree" => UNCHANGED rangeValidationTreeVars

MCInit ==
  \/ instance = "Chain" /\ Init /\ Only("ViewChange")
  \/ instance = "Leave" /\ Leave!Init /\ Only("ViewChange")
  \/ instance = "Serve" /\ Serve!Init /\ Only("StSource")
  \/ instance = "Chunks" /\ Chunks!Init /\ Only("StSource")
  \/ instance = "Keep" /\ Keep!Init /\ Only("ResPages")
  \/ instance = "Crash" /\ Crash!Init /\ Only("ResPages")
  \/ instance = "Commit" /\ Commit!Init /\ Only("BlockCommit")
  \/ instance = "Commit4" /\ Commit4!Init /\ Only("BlockCommit")
  \/ instance = "Steady" /\ Steady!Init /\ Only("BlockCommit")
  \/ instance = "Tree" /\ Tree!Init /\ Only("RangeValidationTree")
  \/ instance = "Tree3" /\ Tree3!Init /\ Only("RangeValidationTree")

MCNext ==
  /\ UNCHANGED instance
  /\ \/ instance = "Chain" /\ Next /\ OnlyNext("ViewChange")
     \/ instance = "Leave" /\ Leave!Next /\ OnlyNext("ViewChange")
     \/ instance = "Serve" /\ Serve!Next /\ OnlyNext("StSource")
     \/ instance = "Chunks" /\ Chunks!Next /\ OnlyNext("StSource")
     \/ instance = "Keep" /\ Keep!Next /\ OnlyNext("ResPages")
     \/ instance = "Crash" /\ Crash!Next /\ OnlyNext("ResPages")
     \/ instance = "Commit" /\ Commit!Next /\ OnlyNext("BlockCommit")
     \/ instance = "Commit4" /\ Commit4!Next /\ OnlyNext("BlockCommit")
     \/ instance = "Steady" /\ Steady!Next /\ OnlyNext("BlockCommit")
     \/ instance = "Tree" /\ Tree!Next /\ OnlyNext("RangeValidationTree")
     \/ instance = "Tree3" /\ Tree3!Next /\ OnlyNext("RangeValidationTree")

MCSpec == MCInit /\ [][MCNext]_mcVars

(*****************************************************************************)
(* Properties: what each says of the code is explained in its module.        *)
(*****************************************************************************)
\* A context that matches a request holds the block asked for, the answer to
\* a request is the blocks from the last required one downwards, each once,
\* and a destination role that begins finds the pool of contexts free. It
\* serves the pages of the checkpoint asked for, also from its cache of
\* virtual blocks, and can serve every checkpoint it announces a summary of.
SourceServes ==
  /\ instance = "Serve" =>
       /\ Serve!TypeOK
       /\ Serve!ContextsServe
       /\ Serve!AnswerInOrder
       /\ Serve!PoolIsFree
  /\ instance = "Chunks" => Chunks!ContextsServe /\ Chunks!AnswerInOrder
  /\ instance = "Keep" =>
       /\ Keep!TypeOK
       /\ Keep!ServedIsRight
       /\ Keep!SummariesAreServed

\* As long as a replica does not crash, the descriptor of every checkpoint that
\* it stores, of which the digest is compared between the replicas, follows
\* from what was executed, whether it created the checkpoint or fetched it and
\* whatever versions of pages were deleted. (After a crash the pages written
\* again are counted to the next checkpoint, BCStateTran.cpp:611.)
CheckpointsAgree == instance = "Keep" => Keep!CheckpointsAgree

\* After a crash, also at the end of a cycle of state transfer, the current
\* pages are the latest written, and the versions kept are bounded.
PagesSurvive ==
  /\ instance = "Crash" => Crash!LoadIsLatest /\ Crash!StoreIsBounded

\* The first required block is never above a block that is still missing, in
\* any order of the workers, of linking and of crashes; and on the categorized
\* blockchain nothing makes the process stop as long as it does not crash. (On
\* the v4 blockchain the workers race for the last block id, st_chain.cpp:75;
\* after a crash the next start may stop at BCStateTran.cpp:3889.)
RequiredIsMissing ==
  /\ instance = "Commit" => Commit!TypeOK /\ Commit!RequiredIsMissing
  /\ instance = "Commit4" => Commit4!TypeOK /\ Commit4!RequiredIsMissing
  /\ instance = "Steady" => Steady!NothingAborts

\* However RVBs are added and removed, the range validation tree is the one
\* of its range, values included, the assertions of the updates on open nodes,
\* children and root hold, and the groups of the range hold exactly its RVBs.
TreeIsCanonical ==
  /\ instance = "Tree" =>
       /\ Tree!TypeOK
       /\ Tree!TreeIsCanonical
       /\ Tree!GroupsPartition
  /\ instance = "Tree3" =>
       /\ Tree3!TypeOK
       /\ Tree3!TreeIsCanonical
       /\ Tree3!GroupsPartition
==============================================================================
