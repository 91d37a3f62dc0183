------------------------ MODULE ComplianceSubmission ------------------------
(***************************************************************************)
(* How one compliance event reaches the chain: the submission layer's      *)
(* retries and idempotency keys around the client's log_compliance, which  *)
(* has to guess the slot its transaction will execute in, because the      *)
(* program derives the log's address from the clock.  The compliance       *)
(* worker makes one call at a time.                                        *)
(***************************************************************************)
EXTENDS Integers, Sequences, FiniteSets

CONSTANTS Keys,         \* idempotency keys
          MaxCalls,     \* bound: calls of log_compliance
          MaxRetries,   \* MAX_BLOCKHASH_RETRIES
          MaxWalks,     \* slots tried in one attempt (10)
          SubIndexes,   \* sub-indexes tried at one slot (256)
          Ahead,        \* the guess: slots past the one the node reports (2)
          MaxSlot,      \* bound: slots of the cluster
          MaxOthers     \* bound: logs other clients write

ASSUME ComplianceAssumption ==
    /\ MaxCalls \in Nat /\ Ahead \in Nat
    /\ MaxSlot \in Nat /\ MaxOthers \in Nat
    /\ MaxRetries \in Nat \ {0} /\ MaxWalks \in Nat \ {0} /\ SubIndexes \in Nat \ {0}

VARIABLES errorsRaised, \* the client raises the error of an executed transaction:
                        \* the loops of log_compliance are written for it, the
                        \* confirm_transaction of the pinned solana-py does not
          lossy,        \* the answer about something sent may be lost
          pc,           \* idle, or what the call does next: slot, send,
                        \* confirm, backoff
          key, attempt, \* of the call in progress; stale while idle
          walk,         \* _slot_retry
          target,       \* current_slot and sub_index
          submitted,    \* _submitted
          slot,         \* the cluster's clock
          others,       \* logs of this agent written by other clients
          txs,          \* transactions sent, in order, and their fates
          results       \* what the calls returned, in order

call == <<key, attempt, walk, target>>
setting == <<errorsRaised, lossy>>
chain == <<setting, slot, others, txs>>
vars == <<pc, call, submitted, chain, results>>

Addresses == [slot : 0..(MaxSlot + Ahead + MaxWalks), sub : 0..SubIndexes]
Errors == {"seeds", "in use"}
Fates == {"flight", "logged", "expired"} \cup Errors

TypeOK ==
    /\ errorsRaised \in BOOLEAN /\ lossy \in BOOLEAN
    /\ pc \in {"idle", "slot", "send", "confirm", "backoff"}
    /\ key \in Keys /\ attempt \in 0..MaxRetries /\ walk \in 0..(MaxWalks - 1)
    /\ target \in Addresses /\ (pc = "send" => target.sub < SubIndexes)
    /\ submitted \subseteq Keys
    /\ slot \in 0..MaxSlot /\ others \subseteq Addresses
    /\ txs \in Seq([key : Keys, at : Addresses, fate : Fates])
    /\ results \in Seq([key : Keys, tx : Nat, kind : {"signature", "skipped", "raised"}])

Init ==
    /\ errorsRaised \in BOOLEAN /\ lossy \in BOOLEAN
    /\ pc = "idle" /\ key \in Keys /\ attempt = 0 /\ walk = 0
    /\ target = [slot |-> 0, sub |-> 0]
    /\ submitted = {} /\ slot = 0 /\ others = {}
    /\ txs = <<>> /\ results = <<>>

Last == txs[Len(txs)]

Returned(k, kind) ==
    /\ pc' = "idle"
    /\ results' = Append(results, [key |-> k, kind |-> kind, tx |-> Len(txs)])

----------------------------------------------------------------------------
(* The submission layer.                                                   *)

LogCompliance(k) ==
    /\ pc = "idle" /\ Len(results) < MaxCalls
    /\ key' = k /\ UNCHANGED <<walk, target, submitted, chain>>
    /\ IF k \in submitted
       THEN Returned(k, "skipped") /\ UNCHANGED attempt
       ELSE pc' = "slot" /\ attempt' = 1 /\ UNCHANGED results

\* log_compliance raised: 429 and BlockhashNotFound are retried from the
\* start after a pause, anything else and the last attempt propagate.
AttemptFailed ==
    /\ \/ attempt < MaxRetries /\ pc' = "backoff" /\ UNCHANGED results
       \/ Returned(key, "raised")
    /\ UNCHANGED <<call, submitted, chain>>

\* The pause ends.  Variant: the loop does not count its attempts.
BackoffUncounted ==
    /\ pc = "backoff" /\ pc' = "slot"
    /\ UNCHANGED <<call, submitted, chain, results>>
Backoff ==
    /\ pc = "backoff" /\ pc' = "slot" /\ attempt' = attempt + 1
    /\ UNCHANGED <<key, walk, target, submitted, chain, results>>

----------------------------------------------------------------------------
(* The client's log_compliance.                                            *)

\* get_slot: the node may lag one slot behind the cluster.
GetSlot ==
    /\ pc = "slot" /\ pc' = "send"
    /\ \E seen \in {slot, slot - 1} \cap Nat :
           target' = [slot |-> seen + Ahead, sub |-> 0]
    /\ walk' = 0
    /\ UNCHANGED <<key, attempt, submitted, chain, results>>

\* get_slot, the blockhash or send_transaction fails: nothing was sent.
RequestFails ==
    /\ pc \in {"slot", "send"}
    /\ AttemptFailed

Send ==
    /\ pc = "send" /\ pc' = "confirm"
    /\ txs' = Append(txs, [key |-> key, at |-> target, fate |-> "flight"])
    /\ UNCHANGED <<setting, call, submitted, slot, others, results>>

\* confirm_transaction returned without an error the caller sees.
\* Variants: send_transaction's answer is enough; the key is not remembered.
ConfirmedEarly ==
    /\ pc = "confirm"
    /\ submitted' = submitted \cup {key}
    /\ Returned(key, "signature") /\ UNCHANGED <<call, chain>>
ConfirmedForgotten ==
    /\ pc = "confirm"
    /\ \/ Last.fate = "logged"
       \/ Last.fate \in Errors /\ ~errorsRaised
    /\ Returned(key, "signature") /\ UNCHANGED <<call, submitted, chain>>
Confirmed ==
    /\ pc = "confirm"
    /\ \/ Last.fate = "logged"
       \/ Last.fate \in Errors /\ ~errorsRaised
    /\ submitted' = submitted \cup {key}
    /\ Returned(key, "signature") /\ UNCHANGED <<call, chain>>

\* The log's address is taken: the next sub-index, or give up on the 256th.
SlotCollision ==
    /\ pc = "confirm" /\ Last.fate = "in use" /\ errorsRaised
    /\ IF target.sub + 1 < SubIndexes
       THEN /\ pc' = "send" /\ target' = [target EXCEPT !.sub = @ + 1]
            /\ UNCHANGED <<key, attempt, walk, results>>
       ELSE Returned(key, "raised") /\ UNCHANGED call
    /\ UNCHANGED <<submitted, chain>>

\* ConstraintSeeds: the transaction executed in another slot; walk one slot
\* on without asking again, or give up on the tenth.
SlotAdvanced ==
    /\ pc = "confirm" /\ Last.fate = "seeds" /\ errorsRaised
    /\ IF walk + 1 < MaxWalks
       THEN /\ pc' = "send" /\ walk' = walk + 1
            /\ target' = [slot |-> target.slot + 1, sub |-> 0]
            /\ UNCHANGED <<key, attempt, results>>
       ELSE Returned(key, "raised") /\ UNCHANGED call
    /\ UNCHANGED <<submitted, chain>>

\* confirm_transaction gives up on an expired transaction, or the request for
\* its status fails whatever became of it.
ConfirmFails ==
    /\ pc = "confirm"
    /\ \/ /\ Last.fate = "expired" /\ Returned(key, "raised")
          /\ UNCHANGED <<call, submitted, chain>>
       \/ lossy /\ AttemptFailed

----------------------------------------------------------------------------
(* The cluster.                                                            *)

Taken == others \cup {txs[i].at : i \in {j \in 1..Len(txs) : txs[j].fate = "logged"}}

\* A transaction executes in the current slot, whatever slot it guessed.
Outcome(at) ==
    CASE at.slot # slot -> "seeds"
      [] at.slot = slot /\ at \in Taken -> "in use"
      [] OTHER -> "logged"

Execute ==
    \E i \in 1..Len(txs) :
        /\ txs[i].fate = "flight"
        /\ \E fate \in {Outcome(txs[i].at), "expired"} :
               txs' = [txs EXCEPT ![i].fate = fate]
        /\ UNCHANGED <<setting, pc, call, submitted, slot, others, results>>

Tick ==
    /\ slot < MaxSlot /\ slot' = slot + 1
    /\ UNCHANGED <<setting, pc, call, submitted, others, txs, results>>

\* An operator's script logs for the same agent.
OtherLogs ==
    /\ Cardinality(others) < MaxOthers
    /\ \E sub \in 0..(SubIndexes - 1) :
          /\ [slot |-> slot, sub |-> sub] \notin Taken
          /\ others' = others \cup {[slot |-> slot, sub |-> sub]}
    /\ UNCHANGED <<setting, pc, call, submitted, slot, txs, results>>

Caller == \/ Backoff \/ GetSlot \/ RequestFails \/ Send \/ Confirmed
          \/ SlotCollision \/ SlotAdvanced \/ ConfirmFails

Next == \/ \E k \in Keys : LogCompliance(k)
        \/ Caller \/ Execute \/ Tick \/ OtherLogs

Spec == Init /\ [][Next]_vars

\* Requests are answered or time out, and transactions execute or expire.
LiveSpec == Spec /\ WF_vars(Caller) /\ WF_vars(Execute)

----------------------------------------------------------------------------
LoggedAtMostOnce ==
    \A i, j \in 1..Len(txs) :
        txs[i].fate = "logged" /\ txs[j].fate = "logged" /\ txs[i].key = txs[j].key
            => i = j

\* As long as no answer about something sent is lost, an event is logged at most
\* once, however its key is retried over slots, sub-indexes and attempts.
LoggedOnceIfAnswered == ~lossy => LoggedAtMostOnce

Executed(t) == t.fate = "logged" \/ (t.fate \in Errors /\ ~errorsRaised)

\* A signature returned for an event is of a transaction for it that executed,
\* and of one that wrote the log if the client raises execution errors.
SignatureMeansExecuted ==
    \A r \in 1..Len(results) :
        results[r].kind = "signature" =>
            /\ results[r].tx \in 1..Len(txs)
            /\ txs[results[r].tx].key = results[r].key
            /\ Executed(txs[results[r].tx])

\* The promise, read off the chain and the return values: a transaction takes
\* effect when it executes without an error that the client raises.
Effects == [k \in Keys |-> {i \in 1..Len(txs) : txs[i].key = k /\ Executed(txs[i])}]
Signed == {r \in 1..Len(results) : results[r].kind = "signature"}
Acknowledged == {results[r].key : r \in Signed}

Promise == INSTANCE IdempotentSubmission WITH effects <- Effects, acknowledged <- Acknowledged

\* A call of log_compliance ends, whatever slots its transactions execute in,
\* so the worker comes to the next task.
CallReturns == (pc # "idle") ~> (pc = "idle")

\* client.py:360: log_compliance writes the log and returns the signature of
\* the transaction that did.  The bridge counts, records and broadcasts the
\* event on that evidence.
SignatureMeansLogged ==
    \A r \in 1..Len(results) :
        results[r].kind = "signature" => txs[results[r].tx].fate = "logged"
=============================================================================
