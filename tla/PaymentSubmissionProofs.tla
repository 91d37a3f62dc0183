---------------------- MODULE PaymentSubmissionProofs ----------------------
(***************************************************************************)
(* What a payment's caller may rely on, for any keys, any number of calls  *)
(* and any bound on the retries.                                           *)
(***************************************************************************)
EXTENDS PaymentSubmission, FiniteSetTheorems, TLAPS

\* The transaction being waited for is the last one, and is for this call.
Confirming == pc \in {"deposited", "sent"} => Len(txs) > 0 /\ Last.key = key

Retrying == pc = "backoff" => attempt < MaxRetries

IInv == TypeOK /\ Confirming /\ Retrying /\ SignatureMeansProcessed

LEMMA AppendTx ==
    ASSUME NEW S, NEW s \in Seq(S), NEW e \in S
    PROVE  /\ Append(s, e) \in Seq(S)
           /\ Len(Append(s, e)) = Len(s) + 1
           /\ Append(s, e)[Len(s) + 1] = e
           /\ \A i \in 1..Len(s) : Append(s, e)[i] = s[i]
           /\ Len(s) \in Nat
OBVIOUS

LEMMA InitIInv == ASSUME Init PROVE IInv
BY SubmissionAssumption DEF Init, IInv, TypeOK, Confirming, Retrying, SignatureMeansProcessed

\* A call that ends appends its result and leaves the rest of the invariant.
LEMMA ReturnedIInv ==
    ASSUME IInv, NEW k \in Keys, NEW kind \in {"signature", "private", "skipped", "raised"},
           Returned(k, kind), UNCHANGED <<setting, txs>>,
           key' = key \/ key' = k, attempt' \in 0..MaxRetries,
           submitted' \in [{"private", "direct"} -> SUBSET Keys],
           kind = "signature" => pc = "sent" /\ k = key /\ Processed(Last)
    PROVE  IInv'
<1> DEFINE new == [key |-> k, kind |-> kind, tx |-> Len(txs)]
<1>1. txs \in Seq(Tx) /\ results \in Seq(Result) /\ Len(txs) \in Nat
  BY DEF IInv, TypeOK
<1>2. new \in Result
  BY <1>1 DEF Result
<1>3. results' = Append(results, new) /\ pc' = "idle" /\ txs' = txs
  BY DEF Returned
<1>4. TypeOK'
  BY <1>1, <1>2, <1>3, AppendTx DEF IInv, TypeOK, setting
<1>5. Confirming' /\ Retrying'
  BY <1>3 DEF Confirming, Retrying
<1>6. ASSUME NEW r \in 1..Len(results'), results'[r].kind = "signature"
      PROVE  /\ results'[r].tx \in 1..Len(txs')
             /\ Processed(txs'[results'[r].tx])
             /\ txs'[results'[r].tx].key = results'[r].key
  <2>1. CASE r \in 1..Len(results)
    <3>1. results'[r] = results[r]
      BY <2>1, <1>1, <1>2, <1>3, AppendTx
    <3> QED
      BY <2>1, <3>1, <1>3, <1>6 DEF IInv, SignatureMeansProcessed
  <2>2. CASE r = Len(results) + 1
    <3>1. results'[r] = new
      BY <2>2, <1>1, <1>2, <1>3, AppendTx
    <3>2. kind = "signature"
      BY <3>1, <1>6
    <3>3. Len(txs) > 0 /\ Last.key = k /\ Processed(Last)
      BY <3>2 DEF IInv, Confirming
    <3> QED
      BY <3>1, <3>3, <1>1, <1>3 DEF Last
  <2> QED
    BY <2>1, <2>2, <1>1, <1>2, <1>3, AppendTx
<1> QED
  BY <1>4, <1>5, <1>6 DEF IInv, SignatureMeansProcessed

\* A step that returns nothing and sends nothing.
LEMMA QuietIInv ==
    ASSUME IInv, UNCHANGED <<setting, txs, results>>, key' \in Keys,
           pc' \in {"private", "direct", "backoff"}, attempt' \in 0..MaxRetries,
           submitted' \in [{"private", "direct"} -> SUBSET Keys],
           pc' = "backoff" => attempt' < MaxRetries
    PROVE  IInv'
BY DEF IInv, TypeOK, setting, Confirming, Retrying, SignatureMeansProcessed

LEMMA DirectIInv ==
    ASSUME IInv, NEW k \in Keys, DirectProvider(k), UNCHANGED <<setting, submitted, txs>>
    PROVE  IInv'
<1>1. /\ attempt' \in 0..MaxRetries /\ key' = k
      /\ submitted' \in [{"private", "direct"} -> SUBSET Keys]
  BY SubmissionAssumption DEF DirectProvider, IInv, TypeOK
<1>2. CASE k \in submitted["direct"]
  BY <1>1, <1>2, ReturnedIInv DEF DirectProvider
<1>3. CASE k \notin submitted["direct"]
  BY <1>1, <1>3, QuietIInv DEF DirectProvider
<1> QED
  BY <1>2, <1>3

\* A transaction is sent: earlier ones stay where they are.
LEMMA SendIInv ==
    ASSUME IInv, Send, pc # "idle", pc' \in {"deposited", "sent"},
           UNCHANGED <<setting, key, attempt, submitted, results>>
    PROVE  IInv'
<1> DEFINE new == [key |-> key, fate |-> "flight"]
<1>1. txs \in Seq(Tx) /\ results \in Seq(Result) /\ key \in Keys
  BY DEF IInv, TypeOK
<1>2. new \in Tx
  BY <1>1 DEF Tx
<1>3. txs' = Append(txs, new)
  BY DEF Send
<1> HIDE DEF new
<1>4. /\ txs' \in Seq(Tx) /\ Len(txs') = Len(txs) + 1 /\ txs'[Len(txs')] = new
      /\ \A i \in 1..Len(txs) : txs'[i] = txs[i]
      /\ Len(txs) \in Nat
  BY <1>1, <1>2, <1>3, AppendTx
<1>5. TypeOK'
  BY <1>4 DEF IInv, TypeOK, setting
<1>6. Confirming' /\ Retrying'
  BY <1>4 DEF Confirming, Retrying, Last, new
<1>7. SignatureMeansProcessed'
  BY <1>4 DEF IInv, SignatureMeansProcessed
<1> QED
  BY <1>5, <1>6, <1>7 DEF IInv

LEMMA FailedIInv ==
    ASSUME IInv, AttemptFailed, pc # "idle",
           UNCHANGED <<setting, key, attempt, submitted, txs>>
    PROVE  IInv'
<1>1. /\ key \in Keys /\ attempt' \in 0..MaxRetries
      /\ submitted' \in [{"private", "direct"} -> SUBSET Keys]
  BY DEF IInv, TypeOK
<1>2. CASE MayRetry /\ pc' = "backoff" /\ UNCHANGED results
  BY <1>1, <1>2, QuietIInv DEF MayRetry
<1>3. CASE Returned(key, "raised")
  BY <1>1, <1>3, ReturnedIInv
<1> QED
  BY <1>2, <1>3 DEF AttemptFailed

LEMMA DecideTxs ==
    ASSUME txs \in Seq(Tx), NEW i \in 1..Len(txs), NEW fate \in Fates,
           Decide(i, fate)
    PROVE  /\ txs' \in Seq(Tx) /\ Len(txs') = Len(txs)
           /\ txs'[i] = [key |-> txs[i].key, fate |-> fate]
           /\ \A j \in 1..Len(txs) : txs'[j].key = txs[j].key
           /\ \A j \in 1..Len(txs) : j # i => txs'[j] = txs[j]
<1> DEFINE new == [txs[i] EXCEPT !.fate = fate]
<1>1. txs[i] \in Tx
  OBVIOUS
<1>2. new = [key |-> txs[i].key, fate |-> fate] /\ new \in Tx /\ new.key = txs[i].key
  BY <1>1 DEF Tx
<1>3. txs' = [txs EXCEPT ![i] = new]
  BY DEF Decide
<1> HIDE DEF new
<1> QED
  BY <1>2, <1>3

\* A transaction is decided once: a decision changes no
\* transaction a result speaks of.
LEMMA DecideIInv ==
    ASSUME IInv, NEW i \in 1..Len(txs), NEW fate \in Fates, Decide(i, fate)
    PROVE  IInv'
<1>1. txs \in Seq(Tx)
  BY DEF IInv, TypeOK
<1>2. /\ txs' \in Seq(Tx) /\ Len(txs') = Len(txs)
      /\ \A j \in 1..Len(txs) : txs'[j].key = txs[j].key
      /\ \A j \in 1..Len(txs) : j # i => txs'[j] = txs[j]
  BY <1>1, DecideTxs
<1>3. \A j \in 1..Len(txs) : Processed(txs[j]) => txs'[j] = txs[j]
  BY <1>2 DEF Decide, Processed
<1>4. TypeOK'
  BY <1>2 DEF IInv, TypeOK, Decide, setting
<1>5. Confirming' /\ Retrying'
  BY <1>1, <1>2 DEF IInv, Confirming, Retrying, Decide, Last
<1>6. SignatureMeansProcessed'
  <2> SUFFICES ASSUME NEW r \in 1..Len(results), results[r].kind = "signature"
               PROVE  /\ results[r].tx \in 1..Len(txs')
                      /\ Processed(txs'[results[r].tx])
                      /\ txs'[results[r].tx].key = results[r].key
    BY DEF SignatureMeansProcessed, Decide
  <2>1. /\ results[r].tx \in 1..Len(txs)
        /\ Processed(txs[results[r].tx])
        /\ txs[results[r].tx].key = results[r].key
    BY DEF IInv, SignatureMeansProcessed
  <2> QED
    BY <2>1, <1>2, <1>3
<1> QED
  BY <1>4, <1>5, <1>6 DEF IInv

LEMMA StepIInv == ASSUME IInv, [Next]_vars PROVE IInv'
<1>1. ASSUME NEW k \in Keys, SendPayment(k) PROVE IInv'
  <2>1. CASE provider = "direct"
    BY <1>1, <2>1, DirectIInv DEF SendPayment
  <2>2. CASE provider # "direct" /\ k \in submitted["private"]
    BY <1>1, <2>2, ReturnedIInv DEF SendPayment, IInv, TypeOK
  <2>3. CASE provider # "direct" /\ k \notin submitted["private"]
    BY <1>1, <2>3, QuietIInv DEF SendPayment, IInv, TypeOK
  <2> QED
    BY <2>1, <2>2, <2>3
<1>2. CASE Deposit
  BY <1>2, SendIInv DEF Deposit
<1>3. CASE Deposited
  BY <1>3, ReturnedIInv DEF Deposited, IInv, TypeOK
<1>4. CASE PrivateFails
  <2>1. key \in Keys
    BY <1>4 DEF PrivateFails, IInv, TypeOK
  <2>2. CASE provider = "fallback"
    BY <1>4, <2>1, <2>2, DirectIInv DEF PrivateFails
  <2>3. CASE provider # "fallback"
    BY <1>4, <2>1, <2>3, ReturnedIInv DEF PrivateFails, IInv, TypeOK
  <2> QED
    BY <2>2, <2>3
<1>5. CASE SendFails
  BY <1>5, FailedIInv DEF SendFails
<1>6. CASE SendTransaction
  BY <1>6, SendIInv DEF SendTransaction
<1>7. CASE Backoff
  <2>1. attempt \in 0..MaxRetries /\ attempt < MaxRetries /\ key \in Keys
    BY <1>7 DEF Backoff, IInv, TypeOK, Retrying
  <2>2. attempt' \in 0..MaxRetries
    BY <1>7, <2>1, SubmissionAssumption DEF Backoff
  <2> QED
    BY <1>7, <2>1, <2>2, QuietIInv DEF Backoff, IInv, TypeOK
<1>8. CASE Confirmed
  BY <1>8, ReturnedIInv DEF Confirmed, IInv, TypeOK
<1>9. CASE ConfirmFails
  <2>1. CASE Last.fate = "expired" /\ Returned(key, "raised")
    BY <1>9, <2>1, ReturnedIInv DEF ConfirmFails, IInv, TypeOK
  <2>2. CASE AttemptFailed
    BY <1>9, <2>2, FailedIInv DEF ConfirmFails
  <2> QED
    BY <1>9, <2>1, <2>2 DEF ConfirmFails
<1>10. CASE Cluster
  BY <1>10, DecideIInv DEF Cluster
<1>11. CASE UNCHANGED vars
  BY <1>11 DEF IInv, TypeOK, Confirming, Retrying, SignatureMeansProcessed, vars, setting, Last
<1> QED
  BY <1>1, <1>2, <1>3, <1>4, <1>5, <1>6, <1>7, <1>8, <1>9, <1>10, <1>11 DEF Next, Caller

\* A signature the direct provider returns is always of a processed
\* transaction for the key it was asked to pay.
THEOREM SignatureSound == Spec => []SignatureMeansProcessed
<1>1. IInv => SignatureMeansProcessed
  BY DEF IInv
<1> QED
  BY <1>1, InitIInv, StepIInv, PTL DEF Spec

\* The submission state keeps its types: no call makes more than MaxRetries
\* attempts.
THEOREM SubmissionTypes == Spec => []TypeOK
<1>1. IInv => TypeOK
  BY DEF IInv
<1> QED
  BY <1>1, InitIInv, StepIInv, PTL DEF Spec

----------------------------------------------------------------------------
(* With one provider, and when no answer about something sent is lost, the *)
(* in-memory keys are enough.                                              *)

Answered == ~lossy /\ provider # "fallback"

\* The set the configured provider keeps.
Store == IF provider = "direct" THEN "direct" ELSE "private"

Alive(i) == txs[i].fate # "expired"

\* A key has one live transaction, and then it is remembered or still being
\* waited for; a key is attempted only while it is not remembered.
Once ==
    /\ pc \in IF provider = "direct" THEN {"idle", "direct", "sent", "backoff"}
                                     ELSE {"idle", "private", "deposited"}
    /\ pc # "idle" => key \notin submitted[Store]
    /\ \A i, j \in 1..Len(txs) :
          Alive(i) /\ Alive(j) /\ txs[i].key = txs[j].key => i = j
    /\ \A i \in 1..Len(txs) :
          Alive(i) => \/ txs[i].key \in submitted[Store]
                      \/ pc \in {"deposited", "sent"} /\ i = Len(txs)

OInv == IInv /\ (Answered => Once)

LEMMA InitOnce == ASSUME Init PROVE OInv
BY InitIInv DEF Init, OInv, Once

\* A transaction is sent for a key that has no live one.
LEMMA SendOnce ==
    ASSUME IInv, Once, Send, pc \in {"private", "direct"}, pc' \in {"deposited", "sent"},
           pc' = "sent" <=> provider = "direct",
           UNCHANGED <<setting, key, attempt, submitted, results>>
    PROVE  Once'
<1> DEFINE new == [key |-> key, fate |-> "flight"]
<1>1. txs \in Seq(Tx) /\ new \in Tx
  BY DEF IInv, TypeOK, Tx
<1>2. txs' = Append(txs, new)
  BY DEF Send
<1> HIDE DEF new
<1>3. /\ Len(txs') = Len(txs) + 1 /\ txs'[Len(txs')] = new /\ Len(txs) \in Nat
      /\ \A i \in 1..Len(txs) : txs'[i] = txs[i]
  BY <1>1, <1>2, AppendTx
<1>4. new.key = key
  BY DEF new
<1>5. \A i \in 1..Len(txs) : Alive(i) => txs[i].key # key
  BY DEF Once
<1>6. Store' = Store /\ provider' = provider /\ submitted' = submitted /\ key' = key
  BY DEF Store, setting
<1> QED
  BY <1>3, <1>4, <1>5, <1>6 DEF Once, Alive

\* The key of the transaction being waited for is remembered.
LEMMA RememberedOnce ==
    ASSUME IInv, Once, pc \in {"deposited", "sent"}, pc' = "idle",
           submitted' = [submitted EXCEPT ![Store] = @ \cup {key}],
           UNCHANGED <<setting, key, txs>>
    PROVE  Once'
<1>1. Len(txs) > 0 /\ txs[Len(txs)].key = key
  BY DEF IInv, Confirming, Last
<1>2. Store' = Store /\ provider' = provider /\ Store \in {"private", "direct"}
  BY DEF Store, setting
<1>3. submitted'[Store] = submitted[Store] \cup {key}
  BY <1>2 DEF IInv, TypeOK
<1> QED
  BY <1>1, <1>2, <1>3 DEF Once, Alive

LEMMA StepOnce == ASSUME OInv, [Next]_vars PROVE OInv'
<1>1. SUFFICES ASSUME Answered' PROVE Once'
  BY StepIInv DEF OInv
<1>2. provider' = provider /\ lossy' = lossy /\ Store' = Store
  BY DEF Next, vars, setting, SendPayment, Caller, Deposit, Deposited, PrivateFails,
         SendFails, SendTransaction, Backoff, Confirmed, ConfirmFails, Cluster, Decide, Store
<1>3. IInv /\ Once /\ Answered
  BY <1>1, <1>2 DEF OInv, Answered
<1>4. txs \in Seq(Tx) /\ submitted \in [{"private", "direct"} -> SUBSET Keys]
  BY <1>3 DEF IInv, TypeOK
<1>5. ASSUME NEW k \in Keys, SendPayment(k) PROVE Once'
  BY <1>2, <1>3, <1>5 DEF SendPayment, DirectProvider, Returned, Once, Alive, Store
<1>6. CASE Deposit
  BY <1>3, <1>6, SendOnce DEF Deposit, Once
<1>7. CASE Deposited
  <2>1. Store = "private"
    BY <1>3, <1>7 DEF Deposited, Once, Store
  <2> QED
    BY <1>3, <1>7, <2>1, RememberedOnce DEF Deposited, Returned
<1>8. CASE PrivateFails
  <2>1. pc = "private" /\ provider # "fallback"
    BY <1>3, <1>8 DEF PrivateFails, Answered
  <2>2. pc' = "idle" /\ UNCHANGED <<txs, submitted>>
    BY <1>8, <2>1 DEF PrivateFails, Returned
  <2> QED
    BY <1>2, <1>3, <2>1, <2>2 DEF Once, Alive
<1>9. CASE SendFails
  BY <1>2, <1>3, <1>9 DEF SendFails, AttemptFailed, Returned, Once, Alive
<1>10. CASE SendTransaction
  BY <1>3, <1>10, SendOnce DEF SendTransaction, Once
<1>11. CASE Backoff
  BY <1>2, <1>3, <1>11 DEF Backoff, Once, Alive
<1>12. CASE Confirmed
  <2>1. Store = "direct"
    BY <1>3, <1>12 DEF Confirmed, Once, Store
  <2> QED
    BY <1>3, <1>12, <2>1, RememberedOnce DEF Confirmed, Returned
<1>13. CASE ConfirmFails
  <2>1. Last.fate = "expired" /\ pc' = "idle" /\ UNCHANGED <<key, submitted, txs>>
    BY <1>3, <1>13 DEF ConfirmFails, Returned, Answered
  <2> QED
    BY <1>2, <1>3, <2>1 DEF Once, Alive, Last
<1>14. ASSUME NEW i \in 1..Len(txs), NEW fate \in Fates, Decide(i, fate)
       PROVE  Once'
  <2>1. /\ Len(txs') = Len(txs)
        /\ \A j \in 1..Len(txs) : txs'[j].key = txs[j].key
        /\ \A j \in 1..Len(txs) : j # i => txs'[j] = txs[j]
    BY <1>4, <1>14, DecideTxs
  <2>2. \A j \in 1..Len(txs) : Alive(j)' => Alive(j)
    BY <1>14, <2>1 DEF Alive, Decide
  <2> QED
    BY <1>2, <1>3, <1>14, <2>1, <2>2 DEF Once, Decide
<1>15. CASE UNCHANGED vars
  BY <1>2, <1>3, <1>15 DEF vars, Once, Alive
<1> QED
  BY <1>5, <1>6, <1>7, <1>8, <1>9, <1>10, <1>11, <1>12, <1>13, <1>14, <1>15
  DEF Next, Caller, Cluster

\* With one provider, and when no answer about something sent is lost, a key is
\* paid at most once however often it is submitted.
THEOREM PaidOnce == Spec => []PaidOnceIfAnswered
<1>1. OInv => PaidOnceIfAnswered
  BY DEF OInv, Once, Alive, Answered, PaidOnceIfAnswered, PaidAtMostOnce
<1>2. Init => OInv
  BY InitOnce
<1>3. OInv /\ [Next]_vars => OInv'
  BY StepOnce
<1> QED
  BY <1>1, <1>2, <1>3, PTL DEF Spec

----------------------------------------------------------------------------
(* A call is bounded: what it may still do shrinks with each of its steps. *)

\* Attempts not yet begun, four steps each; a provider that falls back still
\* has all of them.
StepsLeft ==
    CASE pc = "private"   -> 4 * MaxRetries + 5
      [] pc = "deposited" -> 4 * MaxRetries + 4
      [] pc = "direct"    -> 4 * (MaxRetries - attempt) + 3
      [] pc = "sent"      -> 4 * (MaxRetries - attempt) + 2
      [] pc = "backoff"   -> 4 * (MaxRetries - attempt) + 1
      [] OTHER            -> 0

\* The caller's steps use some of it up, and no step of the cluster gives any
\* back; it is used up when the call returns.
CallShrinks ==
    /\ Caller => StepsLeft' < StepsLeft
    /\ Cluster => StepsLeft' = StepsLeft
    /\ StepsLeft \in 0..(4 * MaxRetries + 5) /\ (StepsLeft = 0 <=> pc = "idle")

LEMMA StepsLeftRange ==
    ASSUME IInv
    PROVE  StepsLeft \in 0..(4 * MaxRetries + 5) /\ (StepsLeft = 0 <=> pc = "idle")
<1>1. MaxRetries \in Nat \ {0} /\ attempt \in 0..MaxRetries
  BY SubmissionAssumption DEF IInv, TypeOK
<1>2. CASE pc = "idle"
  BY <1>1, <1>2 DEF StepsLeft
<1>3. CASE pc \in {"private", "deposited"}
  BY <1>1, <1>3 DEF StepsLeft
<1>4. CASE pc \in {"direct", "sent", "backoff"}
  <2> DEFINE left == 4 * (MaxRetries - attempt)
  <2>1. StepsLeft \in {left + 3, left + 2, left + 1}
    BY <1>4 DEF StepsLeft
  <2>2. left \in 0..(4 * MaxRetries)
    BY <1>1
  <2> HIDE DEF left
  <2> QED
    BY <1>1, <1>4, <2>1, <2>2
<1> QED
  BY <1>2, <1>3, <1>4 DEF IInv, TypeOK

LEMMA ReturnedShrinks ==
    ASSUME IInv, pc # "idle", pc' = "idle" PROVE StepsLeft' < StepsLeft
<1>1. StepsLeft' = 0
  BY DEF StepsLeft
<1>2. StepsLeft \in Nat /\ StepsLeft # 0
  BY StepsLeftRange, SubmissionAssumption
<1> QED
  BY <1>1, <1>2

LEMMA FailedShrinks ==
    ASSUME IInv, AttemptFailed, pc \in {"direct", "sent"}, attempt' = attempt
    PROVE  StepsLeft' < StepsLeft
<1>1. CASE pc' = "backoff"
  BY <1>1, SubmissionAssumption DEF IInv, TypeOK, StepsLeft
<1>2. CASE pc' = "idle"
  BY <1>2, ReturnedShrinks
<1> QED
  BY <1>1, <1>2 DEF AttemptFailed, Returned

LEMMA StepShrinks == ASSUME IInv, [Next]_vars PROVE CallShrinks
<1>1. MaxRetries \in Nat \ {0} /\ attempt \in 0..MaxRetries
  BY SubmissionAssumption DEF IInv, TypeOK
<1>2. ASSUME Caller PROVE StepsLeft' < StepsLeft
  <2>1. CASE Deposit
    BY <1>1, <2>1 DEF Deposit, StepsLeft
  <2>2. CASE Deposited
    BY <2>2, ReturnedShrinks DEF Deposited, Returned
  <2>3. CASE PrivateFails
    <3>1. CASE pc' = "direct"
      BY <1>1, <2>3, <3>1 DEF PrivateFails, DirectProvider, Returned, StepsLeft
    <3>2. CASE pc' = "idle"
      BY <2>3, <3>2, ReturnedShrinks DEF PrivateFails
    <3> QED
      BY <2>3, <3>1, <3>2 DEF PrivateFails, DirectProvider, Returned
  <2>4. CASE SendFails
    BY <2>4, FailedShrinks DEF SendFails
  <2>5. CASE SendTransaction
    BY <1>1, <2>5 DEF SendTransaction, StepsLeft
  <2>6. CASE Backoff
    BY <1>1, <2>6 DEF Backoff, StepsLeft
  <2>7. CASE Confirmed
    BY <2>7, ReturnedShrinks DEF Confirmed, Returned
  <2>8. CASE ConfirmFails
    <3>1. CASE Returned(key, "raised")
      BY <2>8, <3>1, ReturnedShrinks DEF ConfirmFails, Returned
    <3>2. CASE AttemptFailed
      BY <2>8, <3>2, FailedShrinks DEF ConfirmFails
    <3> QED
      BY <2>8, <3>1, <3>2 DEF ConfirmFails
  <2> QED
    BY <1>2, <2>1, <2>2, <2>3, <2>4, <2>5, <2>6, <2>7, <2>8 DEF Caller
<1>3. ASSUME Cluster PROVE StepsLeft' = StepsLeft
  BY <1>3 DEF Cluster, Decide, StepsLeft
<1> QED
  BY <1>2, <1>3, StepsLeftRange DEF CallShrinks

\* However its attempts fail and whatever the cluster does meanwhile, a call has
\* at most 4 * MaxRetries + 5 steps of its own and then has returned: what
\* CallReturns needs besides that the next step is taken at all.
THEOREM CallsAreBounded == Spec => [][CallShrinks]_vars
<1>1. Init => IInv
  BY InitIInv
<1>2. IInv /\ [Next]_vars => IInv'
  BY StepIInv
<1>3. IInv /\ [Next]_vars => [CallShrinks]_vars
  BY StepShrinks
<1> QED
  BY <1>1, <1>2, <1>3, PTL DEF Spec
----------------------------------------------------------------------------
(* With one provider and no lost answer, every step keeps the promise of   *)
(* idempotent submission, or is invisible to it.                           *)

PromiseKept == Promise!Next \/ UNCHANGED <<Effects, Acknowledged>>

\* Nothing takes effect while the transactions stay as they are, and nothing
\* is acknowledged by a call that returns no signature.
LEMMA QuietResults ==
    ASSUME IInv, NEW k \in Keys, NEW kind \in {"private", "skipped", "raised"},
           UNCHANGED results \/ Returned(k, kind)
    PROVE  Acknowledged' = Acknowledged
<1>1. CASE UNCHANGED results
  BY <1>1 DEF Acknowledged, Signed
<1>2. CASE Returned(k, kind)
  <2> DEFINE new == [key |-> k, kind |-> kind, tx |-> Len(txs)]
  <2>1. results \in Seq(Result) /\ new \in Result /\ new.kind = kind
    BY DEF IInv, TypeOK, Result
  <2>2. results' = Append(results, new)
    BY <1>2 DEF Returned
  <2> HIDE DEF new
  <2>3. /\ Len(results') = Len(results) + 1 /\ Len(results) \in Nat
        /\ results'[Len(results) + 1] = new
        /\ \A r \in 1..Len(results) : results'[r] = results[r]
    BY <2>1, <2>2, AppendTx
  <2>4. Signed' = Signed
    BY <2>1, <2>3 DEF Signed
  <2>5. \A r \in Signed : results'[r] = results[r]
    BY <2>3 DEF Signed
  <2> QED
    BY <2>4, <2>5 DEF Acknowledged
<1> QED
  BY <1>1, <1>2

\* A transaction on its way has not taken effect.
LEMMA SendNoEffect == ASSUME IInv, Send, key \in Keys PROVE Effects' = Effects
<1> DEFINE new == [key |-> key, fate |-> "flight"]
<1>1. txs \in Seq(Tx) /\ new \in Tx /\ ~Processed(new)
  BY DEF IInv, TypeOK, Tx, Processed
<1>2. txs' = Append(txs, new)
  BY DEF Send
<1> HIDE DEF new
<1>3. /\ Len(txs') = Len(txs) + 1 /\ txs'[Len(txs) + 1] = new /\ Len(txs) \in Nat
      /\ \A i \in 1..Len(txs) : txs'[i] = txs[i]
  BY <1>1, <1>2, AppendTx
<1>4. ASSUME NEW k \in Keys
      PROVE  {i \in 1..Len(txs') : txs'[i].key = k /\ Processed(txs'[i])}
             = {i \in 1..Len(txs) : txs[i].key = k /\ Processed(txs[i])}
  BY <1>1, <1>3
<1> QED
  BY <1>4 DEF Effects

\* The cluster processes a transaction: the key's first, by Once.
LEMMA DecideKeeps ==
    ASSUME IInv, Once, NEW i \in 1..Len(txs), NEW fate \in Fates, Decide(i, fate)
    PROVE  PromiseKept
<1> DEFINE k == txs[i].key
           Of(q) == {j \in 1..Len(txs) : txs[j].key = q /\ Processed(txs[j])}
<1>0. txs \in Seq(Tx) /\ Len(txs) \in Nat
  BY DEF IInv, TypeOK
<1>1. k \in Keys
  <2>1. txs[i] \in Tx
    BY <1>0
  <2> QED
    BY <2>1 DEF Tx
<1>2. /\ Len(txs') = Len(txs) /\ txs'[i] = [key |-> k, fate |-> fate]
      /\ \A j \in 1..Len(txs) : txs'[j].key = txs[j].key
      /\ \A j \in 1..Len(txs) : j # i => txs'[j] = txs[j]
  BY <1>0, DecideTxs
<1>3. ~Processed(txs[i]) /\ UNCHANGED results
  BY DEF Decide, Processed
<1>4. Acknowledged' = Acknowledged
  BY <1>3 DEF Acknowledged, Signed
<1>5. Effects = [q \in Keys |-> Of(q)]
  BY DEF Effects
<1>6. Effects' = [q \in Keys |-> {j \in 1..Len(txs) : txs[j].key = q /\ Processed(txs'[j])}]
  BY <1>2 DEF Effects
<1>7. CASE fate = "expired"
  <2>1. \A j \in 1..Len(txs) : Processed(txs'[j]) <=> Processed(txs[j])
    BY <1>2, <1>3, <1>7 DEF Processed
  <2> QED
    BY <1>4, <1>6, <2>1 DEF Effects, PromiseKept
<1>8. CASE fate # "expired"
  <2>1. \A j \in 1..Len(txs) : Processed(txs'[j]) <=> Processed(txs[j]) \/ j = i
    BY <1>2, <1>8 DEF Processed, Fates
  <2>2. \A j \in 1..Len(txs) : Processed(txs[j]) => txs[j].key # k
    BY <1>3 DEF Once, Alive, Processed, Decide
  <2>3. Of(k) = {}
    BY <2>2
  <2>4. \A q \in Keys : {j \in 1..Len(txs) : txs[j].key = q /\ Processed(txs'[j])}
                        = IF q = k THEN {i} ELSE Of(q)
    BY <2>1, <2>2
  <2>5. Effects' = [Effects EXCEPT ![k] = {i}]
    BY <1>5, <1>6, <2>4
  <2>6. Effects[k] = {} /\ i \in Nat
    <3>1. Effects[k] = Of(k)
      BY ONLY <1>1, <1>5
    <3> QED
      BY <1>0, <2>3, <3>1
  <2>7. Promise!TakeEffect(k)
    BY <1>4, <2>5, <2>6 DEF Promise!TakeEffect
  <2> QED
    BY <1>1, <2>7 DEF Promise!Next, PromiseKept
<1> QED
  BY <1>7, <1>8

\* A signature acknowledges the key whose transaction was processed.
LEMMA ConfirmedKeeps == ASSUME IInv, Confirmed PROVE PromiseKept
<1> DEFINE new == [key |-> key, kind |-> "signature", tx |-> Len(txs)]
<1>1. results \in Seq(Result) /\ new \in Result /\ key \in Keys
      /\ new.kind = "signature" /\ new.key = key
  BY DEF IInv, TypeOK, Result, Confirmed
<1>2. results' = Append(results, new)
  BY DEF Confirmed, Returned
<1> HIDE DEF new
<1>3. /\ Len(results') = Len(results) + 1 /\ Len(results) \in Nat
      /\ results'[Len(results) + 1] = new
      /\ \A r \in 1..Len(results) : results'[r] = results[r]
  BY <1>1, <1>2, AppendTx
<1>4. Signed' = Signed \cup {Len(results) + 1}
  BY <1>1, <1>3 DEF Signed
<1>5. \A r \in Signed : results'[r] = results[r]
  BY <1>3 DEF Signed
<1>6. Acknowledged' = Acknowledged \cup {key}
  BY <1>1, <1>3, <1>4, <1>5 DEF Acknowledged
<1>7. Len(txs) \in 1..Len(txs) /\ txs[Len(txs)].key = key /\ Processed(txs[Len(txs)])
  BY DEF IInv, TypeOK, Confirming, Confirmed, Last
<1>8. Effects[key] # {}
  BY <1>1, <1>7 DEF Effects
<1>9. Effects' = Effects
  BY DEF Confirmed, Effects
<1>10. Promise!Acknowledge(key)
  BY <1>6, <1>8, <1>9 DEF Promise!Acknowledge
<1> QED
  BY <1>1, <1>10 DEF Promise!Next, PromiseKept

LEMMA StepKeeps == ASSUME OInv, Answered, [Next]_vars PROVE PromiseKept
<1>1. IInv /\ Once
  BY DEF OInv
<1>2. pc # "idle" => key \in Keys
  BY <1>1 DEF IInv, TypeOK
<1>3. CASE \E k \in Keys : SendPayment(k)
  <2>1. PICK k \in Keys : SendPayment(k)
    BY <1>3
  <2>2. UNCHANGED txs /\ (UNCHANGED results \/ Returned(k, "skipped"))
    BY <2>1 DEF SendPayment, DirectProvider
  <2> QED
    BY <1>1, <2>2, QuietResults DEF PromiseKept, Effects
<1>4. CASE Deposit \/ SendTransaction
  <2>1. Send /\ key \in Keys /\ UNCHANGED results
    BY <1>2, <1>4 DEF Deposit, SendTransaction
  <2> QED
    BY <1>1, <2>1, SendNoEffect, QuietResults DEF PromiseKept
<1>5. CASE Deposited \/ PrivateFails \/ SendFails \/ Backoff \/ ConfirmFails
  <2>1. /\ key \in Keys /\ UNCHANGED txs
        /\ \/ UNCHANGED results
           \/ \E kind \in {"private", "skipped", "raised"} : Returned(key, kind)
    BY <1>2, <1>5 DEF Deposited, PrivateFails, DirectProvider, SendFails, Backoff,
                      ConfirmFails, AttemptFailed
  <2> QED
    BY <1>1, <2>1, QuietResults DEF PromiseKept, Effects
<1>6. CASE Confirmed
  BY <1>1, <1>6, ConfirmedKeeps
<1>7. CASE Cluster
  BY <1>1, <1>7, DecideKeeps DEF Cluster
<1>8. CASE UNCHANGED vars
  BY <1>8 DEF vars, PromiseKept, Effects, Acknowledged, Signed
<1> QED
  BY <1>3, <1>4, <1>5, <1>6, <1>7, <1>8 DEF Next, Caller

LEMMA StepAnswered == ASSUME Answered, [Next]_vars PROVE Answered'
BY DEF Answered, Next, vars, setting, SendPayment, Caller, Deposit, Deposited, PrivateFails,
       SendFails, SendTransaction, Backoff, Confirmed, ConfirmFails, Cluster, Decide

\* With one provider and no lost answer, the payment path implements idempotent
\* submission: however often a key is submitted and however its attempts fail,
\* one of its transactions is processed, and a signature is returned for it only
\* after that.
THEOREM PaymentIsIdempotent == Spec /\ Answered => Promise!Spec
<1>1. Init /\ Answered => OInv /\ Promise!Init
  <2>1. Init => Effects = [k \in Keys |-> {}] /\ Acknowledged = {}
    BY DEF Init, Effects, Acknowledged, Signed
  <2> QED
    BY <2>1, InitOnce DEF Promise!Init
<1>2. OInv /\ [Next]_vars => OInv'
  BY StepOnce
<1>3. Answered /\ [Next]_vars => Answered'
  BY StepAnswered
<1>4. OInv /\ Answered /\ [Next]_vars => [Promise!Next]_Promise!vars
  BY StepKeeps DEF PromiseKept, Promise!vars
<1> QED
  BY <1>1, <1>2, <1>3, <1>4, PTL DEF Spec, Promise!Spec
----------------------------------------------------------------------------
(* What goes wrong when answers are lost is bounded: a call sends so many  *)
(* transactions for its key, and no other.                                 *)

\* What one call may send: an attempt each, and the deposit of a provider that
\* falls back.
Fallen == IF provider = "fallback" THEN 1 ELSE 0
PerCall == CASE provider = "direct"  -> MaxRetries
             [] provider = "private" -> 1
             [] OTHER                -> MaxRetries + 1

\* What the call in progress has sent at most.
SentByCall ==
    CASE pc = "deposited"           -> 1
      [] pc = "direct"              -> attempt - 1 + Fallen
      [] pc \in {"sent", "backoff"} -> attempt + Fallen
      [] OTHER                      -> 0

SentFor(k) == {i \in 1..Len(txs) : txs[i].key = k}
\* A skipped call sends nothing, unless the provider that falls back skips it:
\* its deposit may be under way by then.
Costs(result) == result.kind # "skipped" \/ provider = "fallback"
CallsFor(k) == {r \in 1..Len(results) : results[r].key = k /\ Costs(results[r])}

\* A key has been sent at most PerCall times for every call of it that
\* costs, the one in progress included.
OverpaymentBounded ==
    \A k \in Keys :
        Cardinality(SentFor(k)) <=
            PerCall * (Cardinality(CallsFor(k)) + IF pc # "idle" /\ key = k THEN 1 ELSE 0)

\* The call in progress owes for what it has sent so far only.
SentWithin ==
    \A k \in Keys :
        Cardinality(SentFor(k)) <=
            PerCall * Cardinality(CallsFor(k)) + IF key = k THEN SentByCall ELSE 0

Staged ==
    /\ pc \in {"private", "deposited"} => provider # "direct"
    /\ pc \in {"direct", "sent", "backoff"} => provider # "private" /\ attempt > 0

BInv == IInv /\ Staged /\ SentWithin

LEMMA PerCallRange ==
    ASSUME IInv, Staged
    PROVE  /\ PerCall \in Nat /\ SentByCall \in 0..PerCall
           /\ pc = "idle" => SentByCall = 0
<1>1. MaxRetries \in Nat \ {0} /\ attempt \in 0..MaxRetries /\ Fallen \in {0, 1}
  BY SubmissionAssumption DEF IInv, TypeOK, Fallen
<1>2. provider \in {"direct", "private", "fallback"}
  BY SubmissionAssumption DEF IInv, TypeOK
<1>3. PerCall \in Nat /\ PerCall > 0
  BY <1>1, <1>2 DEF PerCall
<1>4. CASE pc \in {"idle", "private"}
  BY <1>3, <1>4 DEF SentByCall
<1>5. CASE pc = "deposited"
  BY <1>3, <1>5 DEF SentByCall
<1>6. CASE pc \in {"direct", "sent", "backoff"}
  <2>1. PerCall = MaxRetries + Fallen /\ attempt > 0
    BY <1>1, <1>2, <1>6 DEF Staged, PerCall, Fallen
  <2>2. SentByCall \in {attempt - 1 + Fallen, attempt + Fallen}
    BY <1>6 DEF SentByCall
  <2> QED
    BY <1>1, <1>6, <2>1, <2>2
<1> QED
  BY <1>4, <1>5, <1>6 DEF IInv, TypeOK

LEMMA OneMoreCall ==
    ASSUME NEW p \in Nat, NEW c \in Nat
    PROVE  p * c \in Nat /\ p * (c + 1) = p * c + p
OBVIOUS

LEMMA Counts ==
    ASSUME IInv, NEW k
    PROVE  /\ IsFiniteSet(SentFor(k)) /\ Cardinality(SentFor(k)) \in Nat
           /\ IsFiniteSet(CallsFor(k)) /\ Cardinality(CallsFor(k)) \in Nat
<1>1. Len(txs) \in Nat /\ Len(results) \in Nat
  BY DEF IInv, TypeOK
<1>2. IsFiniteSet(1..Len(txs)) /\ IsFiniteSet(1..Len(results))
  BY <1>1, FS_Interval
<1>3. IsFiniteSet(SentFor(k)) /\ IsFiniteSet(CallsFor(k))
  BY <1>2, FS_Subset DEF SentFor, CallsFor
<1> QED
  BY <1>3, FS_CardinalityType

\* A step that neither sends nor returns.
LEMMA QuietWithin ==
    ASSUME BInv, UNCHANGED <<provider, txs, results>>,
           key' = key \/ SentByCall = 0, SentByCall' \in Nat, SentByCall' >= SentByCall
    PROVE  SentWithin'
<1>1. PICK p \in Nat, n \in Nat : p = PerCall /\ n = SentByCall
  BY PerCallRange DEF BInv
<1>2. PICK m \in Nat : m = SentByCall' /\ m >= n
  BY <1>1
<1> SUFFICES ASSUME NEW k \in Keys
             PROVE  Cardinality(SentFor(k)') <=
                        PerCall' * Cardinality(CallsFor(k)') + IF key' = k THEN m ELSE 0
  BY <1>2 DEF SentWithin
<1>3. SentFor(k)' = SentFor(k) /\ CallsFor(k)' = CallsFor(k) /\ PerCall' = p
  BY <1>1 DEF SentFor, CallsFor, Costs, PerCall
<1>4. PICK s \in Nat, c \in Nat : s = Cardinality(SentFor(k)) /\ c = Cardinality(CallsFor(k))
  BY Counts DEF BInv
<1>5. s <= p * c + (IF key = k THEN n ELSE 0)
  BY <1>1, <1>4 DEF BInv, SentWithin
<1>6. s <= p * c + IF key' = k THEN m ELSE 0
  <2>1. PICK b \in Nat : b = p * c
    BY OneMoreCall
  <2>2. key' = key \/ n = 0
    BY <1>1
  <2>3. s <= b + (IF key = k THEN n ELSE 0) => s <= b + IF key' = k THEN m ELSE 0
    BY <1>1, <1>2, <1>4, <2>1, <2>2
  <2> QED
    BY <1>5, <2>1, <2>3
<1> QED
  BY <1>3, <1>4, <1>6

\* A call returns: it was worth what it has sent.
LEMMA ReturnedWithin ==
    ASSUME BInv, NEW k \in Keys, NEW kind \in {"signature", "private", "skipped", "raised"},
           Returned(k, kind), UNCHANGED <<provider, txs>>,
           k = key \/ SentByCall = 0,
           kind = "skipped" => provider = "fallback" \/ SentByCall = 0
    PROVE  SentWithin'
<1> DEFINE new == [key |-> k, kind |-> kind, tx |-> Len(txs)]
<1>1. PICK p \in Nat, n \in Nat : p = PerCall /\ n = SentByCall /\ n <= p
  BY PerCallRange DEF BInv
<1>2. SentByCall' = 0 /\ PerCall' = p
  BY <1>1 DEF Returned, SentByCall, PerCall
<1>3. /\ results \in Seq(Result) /\ new \in Result
      /\ new.key = k /\ (Costs(new) <=> kind # "skipped" \/ provider = "fallback")
  BY DEF BInv, IInv, TypeOK, Result, Costs
<1>4. results' = Append(results, new)
  BY DEF Returned
<1> HIDE DEF new
<1>5. /\ Len(results') = Len(results) + 1 /\ Len(results) \in Nat
      /\ results'[Len(results) + 1] = new
      /\ \A r \in 1..Len(results) : results'[r] = results[r]
  BY <1>3, <1>4, AppendTx
<1> SUFFICES ASSUME NEW q \in Keys
             PROVE  Cardinality(SentFor(q)') <= PerCall' * Cardinality(CallsFor(q)')
  <2>1. ASSUME NEW q \in Keys
        PROVE  PerCall' * Cardinality(CallsFor(q)') + (IF key' = q THEN SentByCall' ELSE 0)
               = PerCall' * Cardinality(CallsFor(q)')
    <3>1. IsFiniteSet(CallsFor(q)')
      <4>1. IsFiniteSet(1..Len(results'))
        BY <1>5, FS_Interval
      <4> QED
        BY <4>1, FS_Subset DEF CallsFor
    <3>2. PICK d \in Nat : d = Cardinality(CallsFor(q)')
      BY <3>1, FS_CardinalityType
    <3>3. p * d \in Nat
      BY OneMoreCall
    <3> QED
      BY <1>2, <3>2, <3>3
  <2> QED
    BY <2>1 DEF SentWithin
<1>6. SentFor(q)' = SentFor(q)
  BY DEF SentFor
<1>7. PICK s \in Nat, c \in Nat : s = Cardinality(SentFor(q)) /\ c = Cardinality(CallsFor(q))
  BY Counts DEF BInv
<1>8. s <= p * c + IF key = q THEN n ELSE 0
  BY <1>1, <1>7 DEF BInv, SentWithin
<1>9. p * c \in Nat /\ p * (c + 1) = p * c + p
  BY OneMoreCall
<1>10. CASE q = k /\ Costs(new)
  <2>1. CallsFor(q)' = CallsFor(q) \cup {Len(results) + 1}
    BY <1>3, <1>5, <1>10 DEF CallsFor, Costs
  <2>2. Len(results) + 1 \notin CallsFor(q)
    BY <1>5 DEF CallsFor
  <2>3. Cardinality(CallsFor(q)') = c + 1
    BY <1>7, <2>1, <2>2, Counts, FS_AddElement DEF BInv
  <2>4. s <= p * (c + 1)
    BY <1>1, <1>8, <1>9
  <2> QED
    BY <1>2, <1>6, <1>7, <2>3, <2>4
<1>11. CASE q # k \/ ~Costs(new)
  <2>1. CallsFor(q)' = CallsFor(q)
    BY <1>3, <1>5, <1>11 DEF CallsFor, Costs
  <2>2. key # q \/ n = 0
    BY <1>1, <1>3, <1>11
  <2>3. s <= p * c
    BY <1>8, <1>9, <2>2
  <2> QED
    BY <1>2, <1>6, <1>7, <2>1, <2>3
<1> QED
  BY <1>10, <1>11

LEMMA SendWithin ==
    ASSUME BInv, Send, pc # "idle", UNCHANGED <<provider, key, results>>,
           SentByCall' = SentByCall + 1
    PROVE  SentWithin'
<1> DEFINE new == [key |-> key, fate |-> "flight"]
<1>1. PICK p \in Nat, n \in Nat : p = PerCall /\ n = SentByCall
  BY PerCallRange DEF BInv
<1>2. SentByCall' = n + 1 /\ PerCall' = p
  BY <1>1 DEF PerCall
<1>3. txs \in Seq(Tx) /\ new \in Tx /\ new.key = key
  BY DEF BInv, IInv, TypeOK, Tx
<1>4. txs' = Append(txs, new)
  BY DEF Send
<1> HIDE DEF new
<1>5. /\ Len(txs') = Len(txs) + 1 /\ Len(txs) \in Nat /\ txs'[Len(txs) + 1] = new
      /\ \A i \in 1..Len(txs) : txs'[i] = txs[i]
  BY <1>3, <1>4, AppendTx
<1> SUFFICES ASSUME NEW q \in Keys
             PROVE  Cardinality(SentFor(q)') <=
                        PerCall' * Cardinality(CallsFor(q)')
                        + IF key' = q THEN SentByCall' ELSE 0
  BY DEF SentWithin
<1>6. CallsFor(q)' = CallsFor(q)
  BY DEF CallsFor, Costs
<1>7. PICK s \in Nat, c \in Nat : s = Cardinality(SentFor(q)) /\ c = Cardinality(CallsFor(q))
  BY Counts DEF BInv
<1>8. s <= p * c + IF key = q THEN n ELSE 0
  BY <1>1, <1>7 DEF BInv, SentWithin
<1>9. p * c \in Nat
  BY OneMoreCall
<1>10. CASE q = key
  <2>1. SentFor(q)' = SentFor(q) \cup {Len(txs) + 1}
    BY <1>3, <1>5, <1>10 DEF SentFor
  <2>2. Len(txs) + 1 \notin SentFor(q)
    BY <1>5 DEF SentFor
  <2>3. Cardinality(SentFor(q)') = s + 1
    BY <1>7, <2>1, <2>2, Counts, FS_AddElement DEF BInv
  <2>4. s + 1 <= p * c + (n + 1)
    BY <1>8, <1>9, <1>10
  <2> QED
    BY <1>2, <1>6, <1>7, <1>10, <2>3, <2>4
<1>11. CASE q # key
  <2>1. SentFor(q)' = SentFor(q)
    BY <1>3, <1>5, <1>11 DEF SentFor
  <2> QED
    BY <1>2, <1>6, <1>7, <1>8, <1>11, <2>1
<1> QED
  BY <1>10, <1>11

LEMMA DecideWithin ==
    ASSUME BInv, NEW i \in 1..Len(txs), NEW fate \in Fates, Decide(i, fate)
    PROVE  SentWithin'
<1>1. Len(txs') = Len(txs) /\ \A j \in 1..Len(txs) : txs'[j].key = txs[j].key
  BY DecideTxs DEF BInv, IInv, TypeOK
<1>2. \A k \in Keys : SentFor(k)' = SentFor(k) /\ CallsFor(k)' = CallsFor(k)
  BY <1>1 DEF SentFor, CallsFor, Costs, Decide, setting
<1>3. PerCall' = PerCall /\ SentByCall' = SentByCall /\ key' = key
  BY DEF PerCall, SentByCall, Fallen, Decide, setting
<1> QED
  BY <1>2, <1>3 DEF BInv, SentWithin


LEMMA StepBInv == ASSUME BInv, [Next]_vars PROVE BInv'
<1>1. IInv /\ Staged /\ IInv'
  BY StepIInv DEF BInv
<1> SUFFICES Staged' /\ SentWithin'
  BY <1>1 DEF BInv
<1>2. /\ attempt \in 0..MaxRetries /\ attempt' \in 0..MaxRetries /\ MaxRetries \in Nat
      /\ Fallen \in {0, 1} /\ SentByCall \in Nat /\ (pc = "idle" => SentByCall = 0)
  BY <1>1, SubmissionAssumption, PerCallRange DEF IInv, TypeOK, Fallen
<1>3. ASSUME NEW k \in Keys, SendPayment(k) PROVE Staged' /\ SentWithin'
  <2>1. pc = "idle" /\ SentByCall = 0 /\ UNCHANGED <<provider, lossy, txs>>
    BY <1>2, <1>3 DEF SendPayment, setting
  <2>2. CASE pc' = "idle"
    <3>1. Returned(k, "skipped")
      BY <1>3, <2>1, <2>2 DEF SendPayment, DirectProvider
    <3> QED
      BY <2>1, <2>2, <3>1, ReturnedWithin DEF Staged
  <2>3. CASE pc' # "idle"
    <3>1. /\ UNCHANGED results
          /\ \/ provider = "direct" /\ pc' = "direct" /\ attempt' = 1
             \/ provider # "direct" /\ pc' = "private"
      BY <1>3, <2>1, <2>3 DEF SendPayment, DirectProvider, Returned
    <3>2. Staged'
      BY <2>1, <3>1 DEF Staged
    <3>3. SentByCall' = 0
      BY <2>1, <3>1 DEF SentByCall, Fallen
    <3> QED
      BY <2>1, <3>1, <3>2, <3>3, QuietWithin
  <2> QED
    BY <2>2, <2>3
<1>4. CASE Deposit
  <2>1. SentByCall = 0 /\ SentByCall' = 1
    BY <1>4 DEF Deposit, SentByCall
  <2> QED
    BY <1>1, <1>4, <2>1, SendWithin DEF Deposit, Staged, setting
<1>5. CASE Deposited
  BY <1>1, <1>5, ReturnedWithin DEF Deposited, Returned, Staged, setting, IInv, TypeOK
<1>6. CASE PrivateFails
  <2>1. /\ pc \in {"private", "deposited"} /\ UNCHANGED <<provider, txs>>
        /\ provider # "direct" /\ key \in Keys /\ SentByCall \in {0, 1}
    BY <1>1, <1>6 DEF PrivateFails, Staged, setting, IInv, TypeOK, SentByCall
  <2>2. CASE pc' = "idle"
    <3>1. PICK kind \in {"skipped", "raised"} :
              Returned(key, kind) /\ (kind = "skipped" => provider = "fallback")
      BY <1>6, <2>2 DEF PrivateFails, DirectProvider
    <3> QED
      BY <2>1, <2>2, <3>1, ReturnedWithin DEF Staged
  <2>3. CASE pc' # "idle"
    <3>1. provider = "fallback" /\ pc' = "direct" /\ attempt' = 1 /\ UNCHANGED <<key, results>>
      BY <1>6, <2>3 DEF PrivateFails, DirectProvider, Returned
    <3>2. SentByCall' = 1
      BY <2>1, <3>1 DEF SentByCall, Fallen
    <3> QED
      BY <2>1, <3>1, <3>2, QuietWithin DEF Staged
  <2> QED
    BY <2>2, <2>3
<1>7. CASE pc \in {"direct", "sent"} /\ AttemptFailed /\ UNCHANGED <<setting, key, attempt, submitted, txs>>
  <2>1. UNCHANGED provider /\ key \in Keys
    BY <1>1, <1>7 DEF setting, IInv, TypeOK
  <2>2. CASE Returned(key, "raised")
    BY <1>7, <2>1, <2>2, ReturnedWithin DEF Returned, Staged
  <2>3. CASE pc' = "backoff" /\ UNCHANGED results
    <3>1. SentByCall \in {attempt - 1 + Fallen, attempt + Fallen}
      BY <1>7 DEF SentByCall
    <3>2. SentByCall' = attempt + Fallen
      BY <1>7, <2>1, <2>3 DEF SentByCall, Fallen
    <3>3. SentByCall' \in Nat /\ SentByCall' >= SentByCall
      BY <1>2, <3>1, <3>2
    <3> QED
      BY <1>1, <1>7, <2>1, <2>3, <3>3, QuietWithin DEF Staged
  <2> QED
    BY <1>7, <2>2, <2>3 DEF AttemptFailed
<1>8. CASE SendTransaction
  <2>1. UNCHANGED provider /\ Fallen' = Fallen
    BY <1>8 DEF SendTransaction, setting, Fallen
  <2>2. SentByCall = attempt - 1 + Fallen /\ SentByCall' = attempt + Fallen
    BY <1>8, <2>1 DEF SendTransaction, SentByCall
  <2>3. SentByCall' = SentByCall + 1
    BY <1>2, <2>2
  <2> QED
    BY <1>1, <1>8, <2>1, <2>3, SendWithin DEF SendTransaction, Staged
<1>9. CASE Backoff
  <2>1. UNCHANGED <<provider, key, txs, results>> /\ Fallen' = Fallen
    BY <1>9 DEF Backoff, setting, Fallen
  <2>2. SentByCall = attempt + Fallen /\ SentByCall' = attempt + 1 - 1 + Fallen
    BY <1>2, <1>9, <2>1 DEF Backoff, SentByCall
  <2>3. SentByCall' = SentByCall
    BY <1>2, <2>2
  <2>4. Staged'
    BY <1>1, <1>2, <1>9, <2>1 DEF Backoff, Staged
  <2> QED
    BY <1>2, <2>1, <2>3, <2>4, QuietWithin
<1>10. CASE Confirmed
  BY <1>1, <1>10, ReturnedWithin DEF Confirmed, Returned, Staged, setting, IInv, TypeOK
<1>11. CASE pc = "sent" /\ Returned(key, "raised") /\ UNCHANGED <<setting, txs>>
  BY <1>1, <1>11, ReturnedWithin DEF Returned, Staged, setting, IInv, TypeOK
<1>12. CASE Cluster
  BY <1>1, <1>12, DecideWithin DEF Cluster, Decide, Staged, setting
<1>13. CASE UNCHANGED vars
  <2>1. UNCHANGED <<provider, key, txs, results>> /\ SentByCall' = SentByCall
    BY <1>13 DEF vars, setting, SentByCall, Fallen
  <2>2. Staged'
    BY <1>1, <1>13 DEF vars, setting, Staged
  <2> QED
    BY <1>2, <2>1, <2>2, QuietWithin
<1> QED
  BY <1>1, <1>3, <1>4, <1>5, <1>6, <1>7, <1>8, <1>9, <1>10, <1>11, <1>12, <1>13
  DEF Next, Caller, SendFails, ConfirmFails, BInv

LEMMA InitBInv == ASSUME Init PROVE BInv
<1>1. IInv
  BY InitIInv
<1>2. pc = "idle" /\ txs = <<>> /\ results = <<>>
  BY DEF Init
<1>3. Staged /\ SentByCall = 0
  BY <1>2 DEF Staged, SentByCall
<1>4. \A k \in Keys : SentFor(k) = {} /\ CallsFor(k) = {}
  BY <1>2 DEF SentFor, CallsFor
<1>5. Cardinality({}) = 0
  BY FS_EmptySet
<1>6. PerCall \in Nat
  BY <1>1, <1>3, PerCallRange
<1>7. PerCall * 0 = 0
  BY <1>6
<1>8. SentWithin
  <2>1. \A k \in Keys : (IF key = k THEN SentByCall ELSE 0) = 0
    BY <1>3
  <2>2. 0 <= 0 + 0
    OBVIOUS
  <2> QED
    BY <1>4, <1>5, <1>7, <2>1, <2>2 DEF SentWithin
<1> QED
  BY <1>1, <1>3, <1>8 DEF BInv

LEMMA BInvBounds == ASSUME BInv PROVE OverpaymentBounded
<1> SUFFICES ASSUME NEW k \in Keys
             PROVE  Cardinality(SentFor(k)) <=
                        PerCall * (Cardinality(CallsFor(k)) + IF pc # "idle" /\ key = k THEN 1 ELSE 0)
  BY DEF OverpaymentBounded
<1>1. PICK p \in Nat, n \in Nat :
          p = PerCall /\ n = SentByCall /\ n <= p /\ (pc = "idle" => n = 0)
  BY PerCallRange DEF BInv
<1>2. PICK s \in Nat, c \in Nat : s = Cardinality(SentFor(k)) /\ c = Cardinality(CallsFor(k))
  BY Counts DEF BInv
<1>3. s <= p * c + IF key = k THEN n ELSE 0
  BY <1>1, <1>2 DEF BInv, SentWithin
<1>4. p * c \in Nat /\ p * (c + 1) = p * c + p
  BY OneMoreCall
<1>5. CASE pc # "idle" /\ key = k
  BY <1>1, <1>2, <1>3, <1>4, <1>5
<1>6. CASE ~(pc # "idle" /\ key = k)
  <2>1. s <= p * c
    BY <1>1, <1>3, <1>4, <1>6
  <2>2. c + 0 = c
    OBVIOUS
  <2> QED
    BY <1>1, <1>2, <1>6, <2>1, <2>2
<1> QED
  BY <1>5, <1>6

\* Whatever provider is configured and whichever answers are lost, a key is sent
\* at most MaxRetries times (once, or MaxRetries + 1 times, with a privacy
\* provider) for every call of it: keys are paid twice only by the call's own
\* retries and fallback or by a call repeated after it raised, and never without end.
THEOREM OverpaymentIsBounded == Spec => []OverpaymentBounded
<1>1. Init => BInv
  BY InitBInv
<1>2. BInv /\ [Next]_vars => BInv'
  BY StepBInv
<1>3. BInv => OverpaymentBounded
  BY BInvBounds
<1> QED
  BY <1>1, <1>2, <1>3, PTL DEF Spec
=============================================================================
