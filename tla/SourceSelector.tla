--------------------------- MODULE SourceSelector ---------------------------
(***************************************************************************)
(* SourceSelector of state transfer: which replica the destination fetches *)
(* from, when it is replaced, and how the current primary is avoided.      *)
(* The selector is a record; time is a pair of flags of the caller: the    *)
(* retransmission timeout has expired, the source has been used too long.  *)
(***************************************************************************)
EXTENDS Naturals

CONSTANTS Sources,            \* the other replicas (allOtherReplicas_)
          NoReplica,
          MaxRetransmissions, \* maxFetchRetransmissions_
          MinPrePrepares      \* minPrePrepareMsgsForPrimaryAwareness_

Selectors ==
  [preferred : SUBSET Sources, current : Sources \cup {NoReplica},
   stamped : BOOLEAN, ongoing : BOOLEAN, retries : 0..MaxRetransmissions,
   primary : Sources \cup {NoReplica}, nominated : Sources \cup {NoReplica},
   votes : 0..MinPrePrepares]

ResetSelector ==
  [preferred |-> {}, current |-> NoReplica, stamped |-> FALSE, ongoing |-> FALSE,
   retries |-> 0, primary |-> NoReplica, nominated |-> NoReplica, votes |-> 0]

\* isReset does not look at what is known of the primary.
IsReset(sel) ==
  /\ sel.preferred = {}
  /\ sel.current = NoReplica
  /\ ~sel.stamped /\ ~sel.ongoing /\ sel.retries = 0

NoRefill(sel) == sel
Refill(sel) ==
  IF sel.preferred = {} THEN [sel EXCEPT !.preferred = Sources \ {sel.primary}] ELSE sel

RemoveCurrent(sel) ==
  Refill([sel EXCEPT !.preferred = @ \ {sel.current}, !.current = NoReplica])

\* setFetchingTimeStamp: on a request (ongoing) or on received data.
Stamp(sel, ongoing) ==
  [sel EXCEPT !.stamped = TRUE, !.ongoing = ongoing, !.retries = IF ongoing THEN @ ELSE 0]

\* updateSource chooses at random among the preferred replicas.
UpdateSource(sel) ==
  LET rest == Refill([sel EXCEPT !.preferred = @ \ {sel.current}])
  IN {[rest EXCEPT !.current = r, !.stamped = FALSE, !.ongoing = FALSE, !.retries = 0] :
        r \in rest.preferred}

TimedOut(sel, expired) == sel.current # NoReplica /\ sel.stamped /\ expired

\* The retransmission counter that shouldReplaceSource updates as it decides.
Noted(sel, bad, expired) ==
  IF TimedOut(sel, expired) /\ ~bad /\ sel.ongoing
  THEN [sel EXCEPT !.retries = @ + 1, !.ongoing = FALSE]
  ELSE sel

Replacement(sel, bad, expired, last, overdue) ==
  IF sel.current = NoReplica \/ bad THEN "immediate"
  ELSE IF Noted(sel, bad, expired).retries >= MaxRetransmissions THEN "immediate"
  ELSE IF last /\ (overdue \/ sel.current = sel.primary) THEN "graceful"
  ELSE "no"

(***************************************************************************)
(* A PrePrepare of p tells who the primary is; it is believed after enough *)
(* of them, and then leaves the preferred replicas to the old primary.     *)
(***************************************************************************)
Forget(sel) == [sel EXCEPT !.nominated = NoReplica, !.votes = 0]

Believe(sel, p) ==
  LET old     == IF sel.primary = NoReplica THEN sel
                 ELSE [sel EXCEPT !.preferred = @ \cup {sel.primary}]
      without == IF p \in old.preferred
                 THEN Refill([old EXCEPT !.preferred = @ \ {p}]) ELSE old
  IN [Forget(without) EXCEPT !.primary = p]

UpdateCurrentPrimary(sel, p) ==
  LET n == sel.votes + 1
  IN IF p = sel.primary THEN sel
     ELSE IF sel.nominated = NoReplica THEN [sel EXCEPT !.nominated = p, !.votes = n]
     ELSE IF n >= MinPrePrepares THEN Believe(sel, p)
     ELSE IF p # sel.nominated THEN Forget(sel)
     ELSE [sel EXCEPT !.votes = n]
=============================================================================
