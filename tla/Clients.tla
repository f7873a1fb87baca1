------------------------------ MODULE Clients ------------------------------
(***************************************************************************)
(* The ClientsManager of one replica, with the handlers of ReplicaImp that *)
(* use it: requests are received, put into PrePrepares, ordered, executed  *)
(* and answered.  One client; its tables are independent of the others'.   *)
(* The client sends batches of MaxNumOfReqsPerClient requests, the next    *)
(* one when it has all replies.  Requests are numbered by ReqId, and       *)
(* Index(q) is the place of q in its client batch.                         *)
(* The order of PrePrepares is what agreement gives (module Sbft): other   *)
(* primaries may propose any requests in the network.  Not here: read-only *)
(* requests, internal clients, public keys and replica specific info.      *)
(***************************************************************************)
EXTENDS Naturals, Sequences, SequencesExt, FiniteSets

CONSTANTS
    MaxNumOfReqsPerClient,     \* maxNumOfReqsPerClient_
    MaxNumOfRequestsInBatch,   \* maxNumOfRequestsInBatch
    MaxPrimaryQueueSize,       \* maxPrimaryQueueSize
    ConcurrencyLevel,          \* bound on PrePrepares not executed yet
    ProposalSize,              \* bound: requests of a PrePrepare of another primary
    Batches,                   \* bound: client batches
    MaxRestarts,               \* bound: restarts, and state transfers
    StaleDuplicates            \* requests may be delivered after the client has their replies

VARIABLES
    requestsMap,          \* RequestsInfo: requests recorded
    committed,            \* those of them marked as committed
    replies,              \* RepliesInfo: index in batch -> request, 0 if none
    pages,                \* reserved pages of the client: the request each reply is for
    isPrimary,
    requestsQueueOfPrimary,
    mainLog,              \* PrePrepares not executed yet, in order
    sent,                 \* client: batches sent
    answered,             \* client: requests with a reply
    executions,           \* how often each request was executed, up to 2
    restarts

vars == <<requestsMap, committed, replies, pages, isPrimary, requestsQueueOfPrimary, mainLog,
          sent, answered, executions, restarts>>
tables == <<requestsMap, committed, replies, pages>>

-----------------------------------------------------------------------------

ReqIds == 1 .. Batches * MaxNumOfReqsPerClient
Indices == 0 .. MaxNumOfReqsPerClient - 1
Index(q) == (q - 1) % MaxNumOfReqsPerClient
None == 0

PrePrepare == [reqs : Seq(ReqIds), committed : BOOLEAN]

(* Requests a replica may get: those sent.  Without StaleDuplicates the    *)
(* copies of a request do not outlive its answer at the client; nothing in *)
(* the code ensures that, and with StaleDuplicates they stay for ever.     *)
InNetwork ==
    {q \in 1 .. sent * MaxNumOfReqsPerClient : StaleDuplicates \/ q \notin answered}

hasReply(q) == \E i \in Indices : replies[i] = q

-----------------------------------------------------------------------------
(* Pending requests                                                        *)

(* canBecomePending, when the recorded requests are pending *)
CanBecomePending(q, pending) ==
    /\ Cardinality(pending) # MaxNumOfReqsPerClient
    /\ q \notin pending
    /\ ~hasReply(q)

(* removeRequestsOutOfBatchBoundsSafe *)
RemoveOutOfBounds(q, pending) ==
    LET maxReqId == Max(pending \cup {0})
    IN  IF q \notin pending /\ Cardinality(pending) = MaxNumOfRequestsInBatch /\ maxReqId > q
        THEN pending \ {maxReqId} ELSE pending

(* The requests of a PrePrepare are tracked one after the other *)
TrackOne(q, pending) ==
    LET p == RemoveOutOfBounds(q, pending)
    IN  IF CanBecomePending(q, p) THEN p \cup {q} ELSE p
Track(pending, reqs) ==
    LET after[k \in 0 .. Len(reqs)] ==
            IF k = 0 THEN pending ELSE TrackOne(reqs[k], after[k - 1])
    IN  after[Len(reqs)]

-----------------------------------------------------------------------------
(* Replies.  repliesBiMap_ is one to one: an insertion that meets the      *)
(* request or the index is ignored; deleteReplyIfNeededSafe frees the      *)
(* index first.  These are the replies at index i; a request has one index *)
(* only, so that the order of the indices does not matter.                 *)

(* mutant: the reply at the index is not deleted *)
InsertReplyOnly(rep, q, i) ==
    IF rep[i] # None \/ (\E j \in Indices : rep[j] = q) THEN rep[i] ELSE q

InsertReply(rep, q, i) == IF \E j \in Indices \ {i} : rep[j] = q THEN None ELSE q

(* loadInfoFromReservedPages *)
LoadReplies(rep, pgs) ==
    [i \in Indices |-> IF pgs[i] = None THEN rep[i] ELSE InsertReply(rep, pgs[i], i)]

KeptAfterLoad(pending, pgs) == {q \in pending : \A i \in Indices : pgs[i] < q}

-----------------------------------------------------------------------------
(* The primary's queue                                                     *)

(* removeDuplicatedRequestsFromRequestsQueue: from the head only *)
WithoutDuplicates(queue) ==
    LET kept == {i \in 1 .. Len(queue) : CanBecomePending(queue[i], requestsMap)}
    IN  IF kept = {} THEN <<>> ELSE SubSeq(queue, Min(kept), Len(queue))

(* addRequestToPrePrepareMessage, for each of reqs *)
AddRequest(q, acc) ==
    IF CanBecomePending(q, acc.pending)
    THEN [pending |-> acc.pending \cup {q}, added |-> Append(acc.added, q)]
    ELSE acc
AddRequests(reqs) ==
    LET after[k \in 0 .. Len(reqs)] ==
            IF k = 0 THEN [pending |-> requestsMap, added |-> <<>>]
            ELSE AddRequest(reqs[k], after[k - 1])
    IN  after[Len(reqs)]

CheckSendPrePrepareMsgPrerequisites(queue) ==
    isPrimary /\ Len(mainLog) < ConcurrencyLevel /\ queue # <<>>

(* tryToSendPrePrepareMsg on the given queue: the batching logic may wait  *)
(* for more requests, or close the batch after the first n                 *)
TryToSendPrePrepareMsg(queue) ==
    LET q == WithoutDuplicates(queue) IN
    IF ~CheckSendPrePrepareMsgPrerequisites(queue)
    THEN requestsQueueOfPrimary' = queue /\ UNCHANGED <<requestsMap, mainLog>>
    ELSE \/ requestsQueueOfPrimary' = q /\ UNCHANGED <<requestsMap, mainLog>>
         \/ \E n \in 1 .. Len(q) :
             LET batch == AddRequests(SubSeq(q, 1, n)) IN
             /\ requestsQueueOfPrimary' = SubSeq(q, n + 1, Len(q))
             /\ requestsMap' = batch.pending
             /\ mainLog' = IF batch.added = <<>> THEN mainLog
                           ELSE Append(mainLog, [reqs |-> batch.added, committed |-> FALSE])

-----------------------------------------------------------------------------
(* Handlers                                                                *)

ClientSend ==
    /\ sent < Batches /\ 1 .. sent * MaxNumOfReqsPerClient \subseteq answered
    /\ sent' = sent + 1
    /\ UNCHANGED <<tables, isPrimary, requestsQueueOfPrimary, mainLog, answered, executions, restarts>>

(* onMessage<ClientRequestMsg>: a request already answered *)
RetransmitReply(q) ==
    /\ q \in InNetwork /\ hasReply(q)
    /\ \E i \in Indices : replies[i] = q /\ pages[i] = q   \* allocateReplyFromSavedOne
    /\ answered' = answered \cup {q}
    /\ UNCHANGED <<tables, isPrimary, requestsQueueOfPrimary, mainLog, sent, executions, restarts>>

(* onMessage<ClientRequestMsg> at the primary *)
OnClientRequestAtPrimary(q) ==
    /\ q \in InNetwork /\ isPrimary /\ ~hasReply(q)
    /\ Len(requestsQueueOfPrimary) < MaxPrimaryQueueSize
    /\ CanBecomePending(q, requestsMap)
    /\ TryToSendPrePrepareMsg(Append(requestsQueueOfPrimary, q))
    /\ UNCHANGED <<committed, replies, pages, isPrimary, sent, answered, executions, restarts>>

(* onMessage<ClientRequestMsg> elsewhere; the forwarded message is the     *)
(* one in the network                                                      *)
OnClientRequestAtBackup(q) ==
    /\ q \in InNetwork /\ ~isPrimary
    /\ CanBecomePending(q, requestsMap)
    /\ requestsMap' = requestsMap \cup {q}
    /\ UNCHANGED <<committed, replies, pages, isPrimary, requestsQueueOfPrimary, mainLog, sent,
                   answered, executions, restarts>>

(* onMessage<PrePrepareMsg>: start tracking its requests *)
OnPrePrepare(reqs) ==
    /\ ~isPrimary /\ Len(mainLog) < ConcurrencyLevel
    /\ mainLog' = Append(mainLog, [reqs |-> reqs, committed |-> FALSE])
    /\ requestsMap' = Track(requestsMap, reqs)
    /\ committed' = committed \cap Track(requestsMap, reqs)
    /\ UNCHANGED <<replies, pages, isPrimary, requestsQueueOfPrimary, sent, answered, executions, restarts>>

(* tryToRemovePendingRequestsForSeqNum, when the k-th PrePrepare commits *)
OnCommitted(k) ==
    /\ ~mainLog[k].committed
    /\ mainLog' = [mainLog EXCEPT ![k].committed = TRUE]
    /\ committed' = committed \cup (ToSet(mainLog[k].reqs) \cap requestsMap)
    /\ UNCHANGED <<requestsMap, replies, pages, isPrimary, requestsQueueOfPrimary, sent, answered,
                   executions, restarts>>

(* mutant: every request of the PrePrepare is executed *)
RequestSetAll(reqs) == ToSet(reqs)

(* executeRequestsInPrePrepareMsg, phase 1 *)
RequestSet(reqs) == {q \in ToSet(reqs) : ~hasReply(q)}

(* allocateNewReplyMsgAndWriteToStorage for each request executed: of      *)
(* requests with the same index the last one keeps its reply               *)
Places(reqs, i) == {k \in DOMAIN reqs : reqs[k] \in RequestSet(reqs) /\ Index(reqs[k]) = i}
SaveReplies(reqs) ==
    [i \in Indices |-> IF Places(reqs, i) = {} THEN replies[i]
                       ELSE InsertReply(replies, reqs[Max(Places(reqs, i))], i)]
SavePages(reqs) ==
    [i \in Indices |-> IF Places(reqs, i) = {} THEN pages[i] ELSE reqs[Max(Places(reqs, i))]]

Count(reqs) ==
    [q \in ReqIds |-> IF q \in RequestSet(reqs) /\ executions[q] < 2
                      THEN executions[q] + 1 ELSE executions[q]]

(* A reply is sent for all of them, and may be lost *)
Reply(S) == answered' = answered \/ answered' = answered \cup S

(* executeRequestsInPrePrepareMsg, phase 2, and sendResponses *)
ExecuteNext ==
    /\ mainLog # <<>> /\ Head(mainLog).committed
    /\ LET reqs == Head(mainLog).reqs IN
       /\ replies' = SaveReplies(reqs)
       /\ pages' = SavePages(reqs)
       /\ requestsMap' = requestsMap \ ToSet(reqs)
       /\ committed' = committed \ ToSet(reqs)
       /\ executions' = Count(reqs)
       /\ Reply(ToSet(reqs))
    /\ mainLog' = Tail(mainLog)
    /\ UNCHANGED <<isPrimary, requestsQueueOfPrimary, sent, restarts>>

(* tryToSendPrePrepareMsg from the timers and the end of an execution *)
TryToSend ==
    /\ CheckSendPrePrepareMsgPrerequisites(requestsQueueOfPrimary)
    /\ TryToSendPrePrepareMsg(requestsQueueOfPrimary)
    /\ UNCHANGED <<committed, replies, pages, isPrimary, sent, answered, executions, restarts>>

(* onNewView: what was not committed may be lost; pending requests and the *)
(* primary's queue are cleared                                             *)
OnNewView(primary) ==
    /\ isPrimary' = primary
    /\ \E kept \in 0 .. Len(mainLog) :
        /\ \A k \in kept + 1 .. Len(mainLog) : ~mainLog[k].committed
        /\ mainLog' = SubSeq(mainLog, 1, kept)
    /\ requestsMap' = {} /\ committed' = {}
    /\ requestsQueueOfPrimary' = <<>>
    /\ UNCHANGED <<replies, pages, sent, answered, executions, restarts>>

(* onTransferringCompleteImp: the other replicas executed the first        *)
(* PrePrepare, its effect on the reserved pages arrives by state transfer  *)
StateTransfer ==
    /\ restarts < MaxRestarts /\ restarts' = restarts + 1
    /\ mainLog # <<>> /\ Head(mainLog).committed
    /\ LET reqs == Head(mainLog).reqs IN
       /\ pages' = SavePages(reqs)
       /\ executions' = Count(reqs)
       /\ Reply(ToSet(reqs))
    /\ replies' = LoadReplies(replies, pages')
    /\ requestsMap' = KeptAfterLoad(requestsMap, pages')
    /\ committed' = committed \cap requestsMap'
    /\ mainLog' = Tail(mainLog)
    /\ UNCHANGED <<isPrimary, requestsQueueOfPrimary, sent>>

(* A restart: the PrePrepares are loaded, the tables read from the pages *)
Restart ==
    /\ restarts < MaxRestarts /\ restarts' = restarts + 1
    /\ requestsMap' = {} /\ committed' = {} /\ requestsQueueOfPrimary' = <<>>
    /\ replies' = LoadReplies([i \in Indices |-> None], pages)
    /\ UNCHANGED <<pages, isPrimary, mainLog, sent, answered, executions>>

(* PrePrepares other primaries may send: different requests *)
OthersProposals ==
    {s \in UNION {[1 .. n -> InNetwork] : n \in 1 .. ProposalSize} :
        \A j, k \in DOMAIN s : s[j] = s[k] => j = k}

Init ==
    /\ requestsMap = {} /\ committed = {}
    /\ replies = [i \in Indices |-> None] /\ pages = [i \in Indices |-> None]
    /\ isPrimary \in BOOLEAN /\ requestsQueueOfPrimary = <<>> /\ mainLog = <<>>
    /\ sent = 0 /\ answered = {}
    /\ executions = [q \in ReqIds |-> 0] /\ restarts = 0

Next ==
    \/ ClientSend
    \/ \E q \in ReqIds : \/ RetransmitReply(q) \/ OnClientRequestAtPrimary(q)
                         \/ OnClientRequestAtBackup(q)
    \/ \E reqs \in OthersProposals : OnPrePrepare(reqs)
    \/ \E k \in DOMAIN mainLog : OnCommitted(k)
    \/ ExecuteNext
    \/ TryToSend
    \/ \E primary \in BOOLEAN : OnNewView(primary)
    \/ StateTransfer
    \/ Restart

Spec == Init /\ [][Next]_vars

-----------------------------------------------------------------------------

(* The tables hold requests of this client, no more than the limit, and    *)
(* the committed ones are recorded ones                                    *)
TypeOK ==
    /\ requestsMap \subseteq ReqIds /\ committed \subseteq requestsMap
    /\ Cardinality(requestsMap) <= MaxNumOfReqsPerClient
    /\ replies \in [Indices -> ReqIds \cup {None}] /\ pages \in [Indices -> ReqIds \cup {None}]
    /\ isPrimary \in BOOLEAN
    /\ requestsQueueOfPrimary \in Seq(ReqIds) /\ Len(requestsQueueOfPrimary) <= MaxPrimaryQueueSize
    /\ mainLog \in Seq(PrePrepare) /\ Len(mainLog) <= ConcurrencyLevel
    /\ sent \in 0 .. Batches /\ answered \subseteq ReqIds
    /\ executions \in [ReqIds -> 0 .. 2] /\ restarts \in 0 .. MaxRestarts

(* Another request with the place of q in its client batch was executed:   *)
(* its reply is saved where that of q was.                                 *)
ReplyReplaced(q) == \E p \in ReqIds \ {q} : Index(p) = Index(q) /\ executions[p] > 0

(* A request is executed once, however often it is resent, queued and      *)
(* ordered until the client has its reply, across views, restarts and      *)
(* state transfers (executeRequestsInPrePrepareMsg leaves out what has a   *)
(* reply).  A copy of it that is delivered later (StaleDuplicates) is      *)
(* executed again only if its reply was replaced meanwhile; then it is.    *)
ExecutedAtMostOnce ==
    \A q \in ReqIds : executions[q] > 1 => StaleDuplicates /\ ReplyReplaced(q)

(* The table of replies is the one in the reserved pages: no recorded      *)
(* reply is missing when it is asked for (the assertion on replySeqNum in  *)
(* allocateReplyFromSavedOne), none in the pages is unknown                *)
RepliesMatchPages == replies = pages

(* No request with a reply is still recorded as pending: it would never be *)
(* removed and make the replica complain about the primary                 *)
AnsweredNotPending == \A q \in requestsMap : ~hasReply(q)

=============================================================================
