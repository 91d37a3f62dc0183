------------------------- MODULE PaymentSubmission -------------------------
(***************************************************************************)
(* How one payment reaches the chain: a privacy provider (cloak, umbra or  *)
(* magicblock, all alike), its fallback DirectProvider, and the client's   *)
(* _send, which signs, sends and confirms.  The payment worker makes one   *)
(* call at a time, so the calls are sequential; the chain is not: what was *)
(* sent lands or expires in its own time.                                  *)
(***************************************************************************)
EXTENDS Integers, Sequences

CONSTANTS Keys,         \* idempotency keys
          MaxCalls,     \* bound: calls of send_payment
          MaxRetries,   \* _MAX_RETRIES
          Providers     \* what may be configured: the direct provider, a
                        \* privacy provider alone, or one with a fallback

ASSUME SubmissionAssumption ==
    /\ MaxCalls \in Nat /\ MaxRetries \in Nat \ {0}
    /\ Providers \subseteq {"direct", "private", "fallback"}

VARIABLES provider,    \* the configured one
          lossy,       \* the answer about something sent may be lost
          pc,          \* where the call waits: idle, private, deposited,
                       \* direct, sent, backoff
          key, attempt, \* of the call in progress; stale while idle
          submitted,   \* submitted[p]: provider p's _submitted set
          txs,         \* transactions sent, in order: key, and fate on chain
          results      \* what the calls returned, in order

setting == <<provider, lossy>>
vars == <<setting, pc, key, attempt, submitted, txs, results>>

\* What the cluster does with a transaction: the payment is made, the
\* instruction fails on chain, or it is never included.
Fates == {"landed", "failed", "expired"}
Tx == [key : Keys, fate : Fates \cup {"flight"}]
Result == [key : Keys, tx : Nat,
           kind : {"signature", "private", "skipped", "raised"}]

TypeOK ==
    /\ provider \in Providers /\ lossy \in BOOLEAN
    /\ pc \in {"idle", "private", "deposited", "direct", "sent", "backoff"}
    /\ pc # "idle" => key \in Keys
    /\ attempt \in 0..MaxRetries
    /\ submitted \in [{"private", "direct"} -> SUBSET Keys]
    /\ txs \in Seq(Tx) /\ results \in Seq(Result)

Init ==
    /\ provider \in Providers /\ lossy \in BOOLEAN
    /\ pc = "idle" /\ key \in Keys /\ attempt = 0
    /\ submitted = [p \in {"private", "direct"} |-> {}]
    /\ txs = <<>> /\ results = <<>>

Processed(t) == t.fate \in {"landed", "failed"}

Send == txs' = Append(txs, [key |-> key, fate |-> "flight"])
Last == txs[Len(txs)]

Returned(k, kind) ==
    /\ pc' = "idle"
    /\ results' = Append(results, [key |-> k, kind |-> kind, tx |-> Len(txs)])

\* DirectProvider.send_payment up to its first attempt.
DirectProvider(k) ==
    /\ key' = k /\ attempt' = 1
    /\ IF k \in submitted["direct"]
       THEN Returned(k, "skipped")
       ELSE pc' = "direct" /\ UNCHANGED results

----------------------------------------------------------------------------
SendPayment(k) ==
    /\ pc = "idle" /\ Len(results) < MaxCalls
    /\ IF provider = "direct" THEN DirectProvider(k)
       ELSE /\ key' = k /\ UNCHANGED attempt
            /\ IF k \in submitted["private"]
               THEN Returned(k, "skipped")
               ELSE pc' = "private" /\ UNCHANGED results
    /\ UNCHANGED <<setting, submitted, txs>>

\* The deposit script, the sidecar or the rollup sends the private transfer.
Deposit ==
    /\ pc = "private" /\ pc' = "deposited" /\ Send
    /\ UNCHANGED <<setting, key, attempt, submitted, results>>

Deposited ==
    /\ pc = "deposited"
    /\ submitted' = [submitted EXCEPT !["private"] = @ \cup {key}]
    /\ Returned(key, "private")
    /\ UNCHANGED <<setting, key, attempt, txs>>

\* _deposit or _transfer raises: before anything was sent, or after, when it
\* timed out (the node process is left running) or its answer was unreadable.
PrivateFails ==
    /\ pc = "private" \/ (pc = "deposited" /\ lossy)
    /\ IF provider = "fallback" THEN DirectProvider(key)
                             ELSE Returned(key, "raised") /\ UNCHANGED <<key, attempt>>
    /\ UNCHANGED <<setting, submitted, txs>>

\* An attempt raised: 429 and BlockhashNotFound are retried after a pause,
\* anything else and the last attempt propagate.
MayRetry == attempt < MaxRetries

AttemptFailed ==
    \/ MayRetry /\ pc' = "backoff" /\ UNCHANGED results
    \/ Returned(key, "raised")

\* No blockhash, or the transaction was refused: it is not on the network.
SendFails ==
    /\ pc = "direct"
    /\ AttemptFailed
    /\ UNCHANGED <<setting, key, attempt, submitted, txs>>

SendTransaction ==
    /\ pc = "direct" /\ pc' = "sent" /\ Send
    /\ UNCHANGED <<setting, key, attempt, submitted, results>>

\* The pause ends.  Variant: the loop does not count its attempts.
BackoffUncounted ==
    /\ pc = "backoff" /\ pc' = "direct"
    /\ UNCHANGED <<setting, key, attempt, submitted, txs, results>>
Backoff ==
    /\ pc = "backoff" /\ pc' = "direct" /\ attempt' = attempt + 1
    /\ UNCHANGED <<setting, key, submitted, txs, results>>

\* confirm_transaction waits for the transaction to be processed, and its
\* answer, which says whether the instruction failed, is not read; the key is
\* remembered.  Variants: it is not; send_transaction's answer is taken for a
\* confirmation.
ConfirmedForgotten ==
    /\ pc = "sent" /\ Processed(Last)
    /\ Returned(key, "signature")
    /\ UNCHANGED <<setting, key, attempt, submitted, txs>>
ConfirmedEarly ==
    /\ pc = "sent"
    /\ submitted' = [submitted EXCEPT !["direct"] = @ \cup {key}]
    /\ Returned(key, "signature")
    /\ UNCHANGED <<setting, key, attempt, txs>>
Confirmed ==
    /\ pc = "sent" /\ Processed(Last)
    /\ submitted' = [submitted EXCEPT !["direct"] = @ \cup {key}]
    /\ Returned(key, "signature")
    /\ UNCHANGED <<setting, key, attempt, txs>>

\* confirm_transaction gives up on an expired transaction, or the request for
\* its status fails (429 included) whatever became of it.
ConfirmFails ==
    /\ pc = "sent"
    /\ \/ Last.fate = "expired" /\ Returned(key, "raised")
       \/ lossy /\ AttemptFailed
    /\ UNCHANGED <<setting, key, attempt, submitted, txs>>

\* The cluster decides a transaction.
Decide(i, fate) ==
    /\ txs[i].fate = "flight"
    /\ txs' = [txs EXCEPT ![i].fate = fate]
    /\ UNCHANGED <<setting, pc, key, attempt, submitted, results>>

Cluster == \E i \in 1..Len(txs) : \E fate \in Fates : Decide(i, fate)

Caller == \/ Deposit \/ Deposited \/ PrivateFails
          \/ SendFails \/ SendTransaction \/ Backoff \/ Confirmed \/ ConfirmFails

Next == (\E k \in Keys : SendPayment(k)) \/ Caller \/ Cluster

Spec == Init /\ [][Next]_vars

\* Requests are answered or time out, and the cluster decides.
LiveSpec == Spec /\ WF_vars(Caller) /\ WF_vars(Cluster)

----------------------------------------------------------------------------
\* What base.py:97 requires of every provider: repeated calls with a key do not
\* submit twice, so one of its transactions lands at most.
PaidAtMostOnce ==
    \A i, j \in 1..Len(txs) :
        txs[i].fate = "landed" /\ txs[j].fate = "landed" /\ txs[i].key = txs[j].key
            => i = j

\* As long as no answer about something sent is lost and there is one provider,
\* the in-memory sets are enough: however often a key is submitted and however
\* its attempts fail, one of its transactions lands at most.
PaidOnceIfAnswered == ~lossy /\ provider # "fallback" => PaidAtMostOnce

\* A signature the direct provider returned is of a transaction for this key
\* that the cluster processed: never of a pending, lost or other one.
SignatureMeansProcessed ==
    \A r \in 1..Len(results) :
        results[r].kind = "signature" =>
            /\ results[r].tx \in 1..Len(txs)
            /\ Processed(txs[results[r].tx])
            /\ txs[results[r].tx].key = results[r].key

\* The promise, read off the chain and the return values: a transaction takes
\* effect when it is processed, and a signature acknowledges it.
Effects == [k \in Keys |-> {i \in 1..Len(txs) : txs[i].key = k /\ Processed(txs[i])}]
Signed == {r \in 1..Len(results) : results[r].kind = "signature"}
Acknowledged == {results[r].key : r \in Signed}

Promise == INSTANCE IdempotentSubmission WITH effects <- Effects, acknowledged <- Acknowledged

\* A call of send_payment ends: retries are bounded on every failing path.
CallReturns == (pc # "idle") ~> (pc = "idle")
=============================================================================
