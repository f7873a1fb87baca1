----------------------------- MODULE PreExec ------------------------------
(***************************************************************************)
(* Pre-execution of one client's requests, seen by the primary: the        *)
(* primary sends each request to the other replicas, executes it itself,   *)
(* collects the hashes of the results (RequestProcessingState) and passes  *)
(* on a result that F + 1 replicas agree on.  Requests are not batched     *)
(* here (module PreExecBatch has the batches), the view does not change.   *)
(*                                                                         *)
(* Nothing is said of what the application computes: two replicas, or one  *)
(* replica at two times, may come to different outcomes.  Messages may be  *)
(* lost or delayed.                                                        *)
(***************************************************************************)
EXTENDS Naturals, Sequences, FiniteSets, TLC

CONSTANTS
  Replicas,    \* the replicas; Primary is one of them
  Primary,
  RoReplicas,  \* number of read-only replicas
  F,           \* fVal
  MaxSeq,      \* request sequence numbers are 1..MaxSeq
  MaxRetry,    \* bound on the number of registrations at the primary
  Data,        \* what a successful pre-execution may return
  BlockIds,    \* block ids appended to it
  Errors       \* error results of a pre-execution

Seqs == 1..MaxSeq
Peers == Replicas \ {Primary}
None == [seq |-> 0]

\* What a pre-execution may yield.
Outcomes == [op : {"SUCCESS"}, data : Data, blk : BlockIds] \cup [op : Errors, data : {"none"}, blk : {0}]

VARIABLES
  entry,    \* reqProcessingStatePtr of the primary's slot, or None
  hist,     \* sequence number in reqProcessingHistory (of height 1), or 0
  retry,    \* reqRetryId
  replica,  \* what ReplicaImp knows of a request
  reqs,     \* PreProcessRequestMsgs under way
  busy,     \* the request a peer is executing, or None
  replies,  \* PreProcessReplyMsgs under way
  ran,      \* <<replica, seq, outcome>> of every finished execution
  passed,   \* results passed on for consensus, in order
  last      \* the last decision: its kind, and who had answered

vars == <<entry, hist, retry, replica, reqs, busy, replies, ran, passed, last>>

NumOfReplicas == Cardinality(Replicas) + RoReplicas
NumOfRequiredReplies == F + 1

(***************************************************************************)
(* RequestProcessingState                                                  *)
(***************************************************************************)
NewState(s) ==
  [seq |-> s, now |-> TRUE, hash |-> None, n |-> 0, rejected |-> {},
   hashes |-> [o \in Outcomes |-> {}]]

\* The hash covers the data of a successful result only, so an outcome is its hash.
AddSignature(e, o, r) == [e EXCEPT !.hashes[o] = @ \cup {r}, !.n = @ + 1]

ForgetNow(e, o) ==
  [(IF Primary \in e.hashes[o] THEN e ELSE AddSignature(e, o, Primary)) EXCEPT !.hash = o]
HandlePrimaryPreProcessed(e, o) ==
  [(IF Primary \in e.hashes[o] THEN e ELSE AddSignature(e, o, Primary)) EXCEPT !.now = FALSE, !.hash = o]

HandlePreProcessReply(e, m) ==
  IF m.status = "REJECT" THEN [e EXCEPT !.rejected = @ \cup {m.from}]
  ELSE IF m.from \in e.hashes[m.o] THEN e
  ELSE AddSignature(e, m.o, m.from)

\* calculateMaxNbrOfEqualHashes takes the first hash of the longest list: which one
\* of several that are equally long depends on the order of the hash values.
MostFrequent(e) ==
  {o \in Outcomes : \A q \in Outcomes : Cardinality(e.hashes[q]) <= Cardinality(e.hashes[o])}

\* The primary's result with the block id that a peer puts in if it lags behind.
WithoutBlockId(o) == [o EXCEPT !.blk = 0]

EnoughReplies(e, o) == e.n >= NumOfRequiredReplies
EnoughEqual(e, o) == Cardinality(e.hashes[o]) >= NumOfRequiredReplies

\* definePreProcessingConsensusResult, when o is the most frequent hash.
ConsensusResult(e, o) ==
  CASE e.n < NumOfRequiredReplies \/ e.now -> "CONTINUE"
    [] e.n >= NumOfRequiredReplies /\ ~e.now /\ EnoughEqual(e, o) /\
         (\/ o = e.hash
          \/ e.hash.op = "SUCCESS" /\ o.op # "SUCCESS"
          \/ e.hash.op = "SUCCESS" /\ o = WithoutBlockId(e.hash)) -> "COMPLETE"
    [] e.n >= NumOfRequiredReplies /\ ~e.now /\ EnoughEqual(e, o) /\
         e.hash.op = "SUCCESS" /\ o.op = "SUCCESS" /\ o \notin {e.hash, WithoutBlockId(e.hash)} -> "CANCEL"
    [] e.n = NumOfReplicas /\ ~e.now /\ e.n >= NumOfRequiredReplies /\
         (EnoughEqual(e, o) => o # e.hash /\ e.hash.op # "SUCCESS") -> "CANCEL"
    [] OTHER -> "CONTINUE"

\* modifyPrimaryResult replaces the primary's result if only the block id differs;
\* the signatures are those of the primary's hash.
Signatures(e) == e.hashes[e.hash]
ResultSignatures(e, o) ==
  IF o = WithoutBlockId(e.hash) THEN e.hashes[o] \cup {Primary} ELSE Signatures(e)

Answered(e) == UNION {e.hashes[o] : o \in Outcomes}

\* holdCompleteOrCancelRequest, with finalizePreProcessing and cancelPreProcessing.
Decide(e, o) ==
  LET result == ConsensusResult(e, o)
  IN /\ entry' = IF result = "CONTINUE" THEN e ELSE None
     /\ last' = [kind |-> IF result = "CANCEL" /\ ~EnoughEqual(e, o) THEN "NOT_ENOUGH_EQUAL" ELSE result,
                 from |-> IF result = "CONTINUE" THEN {} ELSE Answered(e)]
     /\ IF result = "COMPLETE"
        THEN /\ passed' = Append(passed, [seq |-> e.seq, o |-> o, sigs |-> ResultSignatures(e, o)])
             /\ hist' = e.seq
             /\ replica' = [replica EXCEPT ![e.seq] = IF @ = "new" THEN "queued" ELSE @]
        ELSE UNCHANGED <<passed, hist, replica>>

\* resendPreProcessRequest
ResendTo(e) == {[to |-> r, seq |-> e.seq, retry |-> retry] : r \in e.rejected}

(***************************************************************************)
(* The primary                                                             *)
(***************************************************************************)
\* isRequestPreProcessedBefore
PreProcessedBefore(s) == hist > s

\* registerRequestOnPrimaryReplica
Register(s) ==
  /\ retry' = retry + 1
  /\ entry' = NewState(s)

\* handleSingleClientRequestMessage, sendPreProcessRequestToAllReplicas
ClientRequest(s) ==
  /\ entry = None
  /\ replica[s] \notin {"pending", "replied"}
  /\ ~PreProcessedBefore(s)
  /\ retry < MaxRetry
  /\ Register(s)
  /\ reqs' = reqs \cup {[to |-> r, seq |-> s, retry |-> retry + 1] : r \in Peers}
  /\ UNCHANGED <<hist, replica, busy, replies, ran, passed, last>>

\* handleReqPreProcessedByPrimary
PrimaryExecutes ==
  \E o \in Outcomes :
    /\ entry # None
    /\ entry.now
    /\ ran' = ran \cup {<<Primary, entry.seq, o>>}
    /\ LET e == HandlePrimaryPreProcessed(entry, o)
       IN \E h \in MostFrequent(e) : Decide(e, h)
    /\ UNCHANGED <<retry, reqs, busy, replies>>

\* handleSinglePreProcessReplyMsg: only the sequence number must match.
ReceiveReply ==
  \E m \in replies :
    /\ replies' = replies \ {m}
    /\ IF entry = None \/ entry.seq # m.seq
       THEN UNCHANGED <<entry, last, passed, hist, replica, reqs>>
       ELSE LET e == HandlePreProcessReply(entry, m)
            IN IF m.status = "REJECT"
               THEN entry' = e /\ UNCHANGED <<last, passed, hist, replica, reqs>>
               ELSE \E h \in MostFrequent(e) :
                      IF ConsensusResult(e, h) = "CONTINUE"
                      THEN /\ reqs' = reqs \cup ResendTo(e)
                           /\ Decide([e EXCEPT !.rejected = {}], h)
                      ELSE Decide(e, h) /\ UNCHANGED reqs
    /\ UNCHANGED <<retry, busy, ran>>

\* onRequestsStatusCheckTimer: the request timed out, or is sent again to those that
\* rejected it.
StatusTimerExpires ==
  /\ entry # None
  /\ ~entry.now
  /\ entry' = None
  /\ last' = [kind |-> "EXPIRED", from |-> {}]
  /\ UNCHANGED <<hist, retry, replica, reqs, busy, replies, ran, passed>>

StatusTimerResends ==
  /\ entry # None
  /\ entry.rejected # {}
  /\ \E h \in MostFrequent(entry) : ConsensusResult(entry, h) = "CONTINUE"
  /\ reqs' = reqs \cup ResendTo(entry)
  /\ entry' = [entry EXCEPT !.rejected = {}]
  /\ UNCHANGED <<hist, retry, replica, busy, replies, ran, passed, last>>

(***************************************************************************)
(* The peers, and ReplicaImp of the primary                                *)
(***************************************************************************)
\* handleSinglePreProcessRequestMsg
PeerReceives ==
  \E m \in reqs :
    /\ reqs' = reqs \ {m}
    /\ IF busy[m.to] = None
       THEN busy' = [busy EXCEPT ![m.to] = m] /\ UNCHANGED replies
       ELSE /\ replies' = replies \cup {[from |-> m.to, seq |-> m.seq, retry |-> m.retry, status |-> "REJECT"]}
            /\ UNCHANGED busy
    /\ UNCHANGED <<entry, hist, retry, replica, ran, passed, last>>

\* handleReqPreProcessedByNonPrimary
PeerExecutes ==
  \E r \in Peers, o \in Outcomes :
    /\ busy[r] # None
    /\ busy' = [busy EXCEPT ![r] = None]
    /\ ran' = ran \cup {<<r, busy[r].seq, o>>}
    /\ replies' = replies \cup {[from |-> r, seq |-> busy[r].seq, retry |-> busy[r].retry, o |-> o,
                                 status |-> IF o.op = "SUCCESS" THEN "GOOD" ELSE "FAILED"]}
    /\ UNCHANGED <<entry, hist, retry, replica, reqs, passed, last>>

\* isClientRequestInProcess and isReplyAlreadySentToClient follow the consensus.
ReplicaMoves ==
  \E s \in Seqs :
    /\ \/ replica[s] = "queued" /\ replica' = [replica EXCEPT ![s] = "pending"]
       \/ replica[s] = "queued" /\ replica' = [replica EXCEPT ![s] = "new"]
       \/ replica[s] = "pending" /\ replica' = [replica EXCEPT ![s] = "replied"]
    /\ UNCHANGED <<entry, hist, retry, reqs, busy, replies, ran, passed, last>>

Init ==
  /\ entry = None
  /\ hist = 0
  /\ retry = 1
  /\ replica = [s \in Seqs |-> "new"]
  /\ reqs = {}
  /\ busy = [r \in Peers |-> None]
  /\ replies = {}
  /\ ran = {}
  /\ passed = <<>>
  /\ last = [kind |-> "NONE", from |-> {}]

Next ==
  \/ \E s \in Seqs : ClientRequest(s)
  \/ PrimaryExecutes \/ ReceiveReply \/ StatusTimerExpires \/ StatusTimerResends
  \/ PeerReceives \/ PeerExecutes \/ ReplicaMoves

Spec == Init /\ [][Next]_vars

(***************************************************************************)
(* Properties                                                              *)
(***************************************************************************)
TypeOK ==
  /\ entry # None => entry.seq \in Seqs /\ (entry.now \/ entry.hash \in Outcomes) /\ entry.n \in Nat /\ entry.rejected \subseteq Peers
  /\ hist \in 0..MaxSeq /\ retry \in 1..MaxRetry
  /\ \A i \in 1..Len(passed) : passed[i].seq \in Seqs /\ passed[i].o \in Outcomes

\* What is passed on for consensus was computed by F + 1 different replicas for that
\* very request, however late, repeated or rejected their answers were.
ComputedByQuorum ==
  \A i \in 1..Len(passed) :
    Cardinality({r \in Replicas : <<r, passed[i].seq, passed[i].o>> \in ran}) >= NumOfRequiredReplies

\* After a request was passed on, no older request of the client is.
NeverOlder == \A i, j \in 1..Len(passed) : i < j => passed[i].seq <= passed[j].seq

\* All of that together: agreed upon, and in the order of the client's requests.
AgreedByQuorum == TypeOK /\ ComputedByQuorum /\ NeverOlder
=============================================================================
