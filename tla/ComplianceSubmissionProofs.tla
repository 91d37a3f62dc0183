--------------------- MODULE ComplianceSubmissionProofs ---------------------
(***************************************************************************)
(* What the compliance worker may rely on, for any keys, slots and bounds  *)
(* of the retry loops.                                                     *)
(***************************************************************************)
EXTENDS ComplianceSubmission, FiniteSetTheorems, TLAPS

\* The transaction being confirmed is the last one, and is for this call.
Confirming == pc = "confirm" => Len(txs) > 0 /\ Last.key = key

Retrying == pc = "backoff" => attempt < MaxRetries

\* The walk starts at a guess and goes on one slot at a time.
Walking == target.slot <= MaxSlot + Ahead + walk

IInv == TypeOK /\ Confirming /\ Retrying /\ Walking /\ SignatureMeansExecuted

Transaction == [key : Keys, at : Addresses, fate : Fates]
Answer == [key : Keys, tx : Nat, kind : {"signature", "skipped", "raised"}]

LEMMA AppendSeq ==
    ASSUME NEW S, NEW s \in Seq(S), NEW e \in S
    PROVE  /\ Append(s, e) \in Seq(S)
           /\ Len(Append(s, e)) = Len(s) + 1
           /\ Append(s, e)[Len(s) + 1] = e
           /\ \A i \in 1..Len(s) : Append(s, e)[i] = s[i]
           /\ Len(s) \in Nat
OBVIOUS

LEMMA InitIInv == ASSUME Init PROVE IInv
<1>1. target \in Addresses /\ target.slot = 0 /\ target.sub = 0
  BY ComplianceAssumption DEF Init, Addresses
<1>2. Len(results) = 0
  BY DEF Init
<1>3. 0 \in 0..MaxRetries /\ 0 \in 0..(MaxWalks - 1) /\ 0 \in 0..MaxSlot
      /\ 0 <= MaxSlot + Ahead + 0
  BY ComplianceAssumption
<1>4. TypeOK
  BY <1>1, <1>3 DEF Init, TypeOK
<1>5. Confirming /\ Retrying /\ Walking /\ SignatureMeansExecuted
  BY <1>1, <1>2, <1>3 DEF Init, Confirming, Retrying, Walking, SignatureMeansExecuted, Executed
<1> QED
  BY <1>4, <1>5 DEF IInv

\* A call that ends appends its result and leaves the rest of the invariant.
LEMMA ReturnedIInv ==
    ASSUME IInv, NEW k \in Keys, NEW kind \in {"signature", "skipped", "raised"},
           Returned(k, kind), UNCHANGED <<walk, target, chain>>,
           key' \in Keys, attempt' \in 0..MaxRetries, submitted' \subseteq Keys,
           kind = "signature" => pc = "confirm" /\ k = key /\ Executed(Last)
    PROVE  IInv'
<1> DEFINE new == [key |-> k, kind |-> kind, tx |-> Len(txs)]
<1>1. txs \in Seq(Transaction) /\ results \in Seq(Answer) /\ Len(txs) \in Nat
  BY DEF IInv, TypeOK, Transaction, Answer
<1>2. new \in Answer
  BY <1>1 DEF Answer
<1>3. results' = Append(results, new) /\ pc' = "idle" /\ UNCHANGED <<errorsRaised, lossy, slot, others, txs>>
  BY DEF Returned, chain, setting
<1>4. new.key = k /\ new.kind = kind /\ new.tx = Len(txs)
  OBVIOUS
<1> HIDE DEF new
<1>5. /\ results' \in Seq(Answer) /\ Len(results') = Len(results) + 1
      /\ results'[Len(results) + 1] = new
      /\ \A r \in 1..Len(results) : results'[r] = results[r]
      /\ Len(results) \in Nat
  BY <1>1, <1>2, <1>3, AppendSeq
<1>6. TypeOK'
  BY <1>3, <1>5 DEF IInv, TypeOK, Answer
<1>7. Confirming' /\ Retrying' /\ Walking'
  BY <1>3 DEF IInv, Confirming, Retrying, Walking
<1>8. ASSUME NEW r \in 1..Len(results'), results'[r].kind = "signature"
      PROVE  /\ results'[r].tx \in 1..Len(txs')
             /\ txs'[results'[r].tx].key = results'[r].key
             /\ Executed(txs'[results'[r].tx])
  <2>1. CASE r \in 1..Len(results)
    BY <2>1, <1>3, <1>5, <1>8 DEF IInv, SignatureMeansExecuted, Executed
  <2>2. CASE r = Len(results) + 1
    <3>1. kind = "signature"
      BY <2>2, <1>4, <1>5, <1>8
    <3>2. Len(txs) > 0 /\ Last.key = k /\ Executed(Last)
      BY <3>1 DEF IInv, Confirming
    <3> QED
      BY <2>2, <3>2, <1>1, <1>3, <1>4, <1>5 DEF Last
  <2> QED
    BY <2>1, <2>2, <1>5
<1>9. SignatureMeansExecuted'
  BY <1>3, <1>8 DEF SignatureMeansExecuted, Executed
<1> QED
  BY <1>6, <1>7, <1>9 DEF IInv

\* A step within a call that returns nothing and sends nothing.
LEMMA QuietIInv ==
    ASSUME IInv, UNCHANGED <<submitted, chain, results>>, key' \in Keys,
           pc' \in {"slot", "send", "backoff"}, attempt' \in 0..MaxRetries,
           walk' \in 0..(MaxWalks - 1), target' \in Addresses, Walking',
           pc' = "send" => target'.sub < SubIndexes,
           pc' = "backoff" => attempt' < MaxRetries
    PROVE  IInv'
<1>1. TypeOK'
  BY DEF IInv, TypeOK, chain, setting
<1>2. Confirming' /\ Retrying'
  BY DEF Confirming, Retrying
<1>3. SignatureMeansExecuted'
  BY DEF IInv, SignatureMeansExecuted, Executed, chain, setting
<1> QED
  BY <1>1, <1>2, <1>3 DEF IInv

LEMMA FailedIInv == ASSUME IInv, AttemptFailed PROVE IInv'
<1>1. /\ key \in Keys /\ attempt \in 0..MaxRetries /\ walk \in 0..(MaxWalks - 1)
      /\ target \in Addresses /\ Walking /\ submitted \subseteq Keys
  BY DEF IInv, TypeOK
<1>2. UNCHANGED <<key, attempt, walk, target, submitted, chain>>
  BY DEF AttemptFailed, call
<1>3. CASE attempt < MaxRetries /\ pc' = "backoff" /\ UNCHANGED results
  BY <1>1, <1>2, <1>3, QuietIInv DEF Walking
<1>4. CASE Returned(key, "raised")
  BY <1>1, <1>2, <1>4, ReturnedIInv
<1> QED
  BY <1>3, <1>4 DEF AttemptFailed

LEMMA SendIInv == ASSUME IInv, Send PROVE IInv'
<1> DEFINE new == [key |-> key, at |-> target, fate |-> "flight"]
<1>1. txs \in Seq(Transaction)
  BY DEF IInv, TypeOK, Transaction
<1>2. new \in Transaction
  BY DEF IInv, TypeOK, Transaction, Fates
<1>3. txs' = Append(txs, new) /\ new.key = key
  BY DEF Send
<1> HIDE DEF new
<1>4. /\ txs' \in Seq(Transaction) /\ Len(txs') = Len(txs) + 1
      /\ txs'[Len(txs')] = new /\ Len(txs) \in Nat
      /\ \A i \in 1..Len(txs) : txs'[i] = txs[i]
  BY <1>1, <1>2, <1>3, AppendSeq
<1>5. pc' = "confirm" /\ UNCHANGED <<errorsRaised, lossy, key, attempt, walk, target,
                                    submitted, slot, others, results>>
  BY DEF Send, call, setting
<1>6. TypeOK'
  BY <1>4, <1>5 DEF IInv, TypeOK, Transaction
<1>7. Confirming' /\ Retrying' /\ Walking'
  BY <1>3, <1>4, <1>5 DEF IInv, Confirming, Retrying, Walking, Last
<1>8. SignatureMeansExecuted'
  BY <1>4, <1>5 DEF IInv, SignatureMeansExecuted, Executed
<1> QED
  BY <1>6, <1>7, <1>8 DEF IInv

\* A transaction is decided once: its key and address stay, and no other
\* transaction changes.
LEMMA ExecuteTxs ==
    ASSUME TypeOK, Execute
    PROVE  \E i \in 1..Len(txs) :
              /\ txs[i].fate = "flight"
              /\ txs' \in Seq(Transaction) /\ Len(txs') = Len(txs)
              /\ \A j \in 1..Len(txs) : txs'[j].key = txs[j].key
              /\ \A j \in 1..Len(txs) : j # i => txs'[j] = txs[j]
<1>1. PICK i \in 1..Len(txs) :
         /\ txs[i].fate = "flight"
         /\ \E fate \in {Outcome(txs[i].at), "expired"} :
                txs' = [txs EXCEPT ![i].fate = fate]
  BY DEF Execute
<1>2. PICK fate \in {Outcome(txs[i].at), "expired"} : txs' = [txs EXCEPT ![i].fate = fate]
  BY <1>1
<1>3. fate \in Fates
  BY DEF Outcome, Fates, Errors
<1>4. txs \in Seq(Transaction)
  BY DEF TypeOK, Transaction
<1>5. txs[i] \in Transaction
  BY ONLY <1>4, i \in 1..Len(txs)
<1> DEFINE new == [txs[i] EXCEPT !.fate = fate]
<1>6. new \in Transaction /\ new.key = txs[i].key
  BY <1>3, <1>5 DEF Transaction
<1>7. txs' = [txs EXCEPT ![i] = new]
  BY <1>2
<1> HIDE DEF new
<1> QED
  BY <1>1, <1>4, <1>6, <1>7

LEMMA ExecuteIInv == ASSUME IInv, Execute PROVE IInv'
<1>1. PICK i \in 1..Len(txs) :
         /\ txs[i].fate = "flight"
         /\ txs' \in Seq(Transaction) /\ Len(txs') = Len(txs)
         /\ \A j \in 1..Len(txs) : txs'[j].key = txs[j].key
         /\ \A j \in 1..Len(txs) : j # i => txs'[j] = txs[j]
  BY ExecuteTxs DEF IInv
<1>2. UNCHANGED <<errorsRaised, lossy, pc, key, attempt, walk, target,
                  submitted, slot, others, results>>
  BY DEF Execute, call, setting
<1>3. TypeOK'
  BY <1>1, <1>2 DEF IInv, TypeOK, Transaction
<1>4. txs \in Seq(Transaction)
  BY DEF IInv, TypeOK, Transaction
<1>5. Confirming' /\ Retrying' /\ Walking'
  BY <1>1, <1>2, <1>4 DEF IInv, Confirming, Retrying, Walking, Last
<1>6. SignatureMeansExecuted'
  BY <1>1, <1>2 DEF IInv, SignatureMeansExecuted, Executed, Errors
<1> QED
  BY <1>3, <1>5, <1>6 DEF IInv

LEMMA GetSlotIInv == ASSUME IInv, GetSlot PROVE IInv'
<1>1. PICK seen \in {slot, slot - 1} \cap Nat : target' = [slot |-> seen + Ahead, sub |-> 0]
  BY DEF GetSlot
<1>2. seen \in 0..MaxSlot
  BY ComplianceAssumption, <1>1 DEF IInv, TypeOK
<1>3. seen + Ahead \in 0..(MaxSlot + Ahead + MaxWalks) /\ seen + Ahead <= MaxSlot + Ahead + 0
  BY <1>2, ComplianceAssumption
<1>4. target' \in Addresses /\ target'.slot = seen + Ahead /\ target'.sub < SubIndexes
  BY <1>1, <1>3, ComplianceAssumption DEF Addresses
<1>5. walk' = 0 /\ 0 \in 0..(MaxWalks - 1)
  BY ComplianceAssumption DEF GetSlot
<1>6. Walking'
  BY <1>3, <1>4, <1>5 DEF Walking
<1>7. key' \in Keys /\ attempt' \in 0..MaxRetries /\ pc' = "send"
      /\ UNCHANGED <<submitted, chain, results>>
  BY DEF GetSlot, IInv, TypeOK
<1> QED
  BY <1>4, <1>5, <1>6, <1>7, QuietIInv

LEMMA SlotCollisionIInv == ASSUME IInv, SlotCollision PROVE IInv'
<1>1. /\ key \in Keys /\ attempt \in 0..MaxRetries /\ walk \in 0..(MaxWalks - 1)
      /\ target \in Addresses /\ Walking /\ submitted \subseteq Keys
  BY DEF IInv, TypeOK
<1>2. CASE target.sub + 1 < SubIndexes
  <2>1. target' = [target EXCEPT !.sub = @ + 1] /\ pc' = "send"
        /\ UNCHANGED <<key, attempt, walk, results, submitted, chain>>
    BY <1>2 DEF SlotCollision
  <2>2. target' = [slot |-> target.slot, sub |-> target.sub + 1]
    BY <1>1, <2>1 DEF Addresses
  <2>3. target.sub + 1 \in 0..SubIndexes
    BY <1>1, <1>2, ComplianceAssumption DEF Addresses
  <2>4. target' \in Addresses /\ target'.slot = target.slot /\ target'.sub < SubIndexes
    BY <1>1, <1>2, <2>2, <2>3 DEF Addresses
  <2> QED
    BY <1>1, <2>1, <2>4, QuietIInv DEF Walking
<1>3. CASE ~(target.sub + 1 < SubIndexes)
  <2>1. Returned(key, "raised") /\ UNCHANGED <<key, attempt, walk, target, submitted, chain>>
    BY <1>3 DEF SlotCollision, call
  <2> QED
    BY <1>1, <2>1, ReturnedIInv
<1> QED
  BY <1>2, <1>3

LEMMA SlotAdvancedIInv == ASSUME IInv, SlotAdvanced PROVE IInv'
<1>1. /\ key \in Keys /\ attempt \in 0..MaxRetries /\ walk \in 0..(MaxWalks - 1)
      /\ target \in Addresses /\ Walking /\ submitted \subseteq Keys
  BY DEF IInv, TypeOK
<1>2. CASE walk + 1 < MaxWalks
  <2>1. target' = [slot |-> target.slot + 1, sub |-> 0] /\ pc' = "send" /\ walk' = walk + 1
        /\ UNCHANGED <<key, attempt, results, submitted, chain>>
    BY <1>2 DEF SlotAdvanced
  <2>2. target.slot \in Nat /\ target.slot + 1 <= MaxSlot + Ahead + (walk + 1)
        /\ walk + 1 \in 0..(MaxWalks - 1)
    BY <1>1, <1>2, ComplianceAssumption DEF Walking, Addresses
  <2>3. target.slot + 1 \in 0..(MaxSlot + Ahead + MaxWalks) /\ 0 \in 0..SubIndexes
        /\ 0 < SubIndexes
    BY <2>2, ComplianceAssumption
  <2>4. target' \in Addresses /\ target'.slot = target.slot + 1 /\ target'.sub < SubIndexes
    BY <2>1, <2>3 DEF Addresses
  <2>5. Walking'
    BY <2>1, <2>2, <2>4 DEF Walking
  <2> QED
    BY <1>1, <2>1, <2>2, <2>4, <2>5, QuietIInv
<1>3. CASE ~(walk + 1 < MaxWalks)
  <2>1. Returned(key, "raised") /\ UNCHANGED <<key, attempt, walk, target, submitted, chain>>
    BY <1>3 DEF SlotAdvanced, call
  <2> QED
    BY <1>1, <2>1, ReturnedIInv
<1> QED
  BY <1>2, <1>3

LEMMA StepIInv == ASSUME IInv, [Next]_vars PROVE IInv'
<1>1. /\ key \in Keys /\ attempt \in 0..MaxRetries /\ walk \in 0..(MaxWalks - 1)
      /\ target \in Addresses /\ Walking /\ submitted \subseteq Keys
  BY DEF IInv, TypeOK
<1>2. ASSUME NEW k \in Keys, LogCompliance(k) PROVE IInv'
  <2>1. key' = k /\ UNCHANGED <<walk, target, submitted, chain>>
    BY <1>2 DEF LogCompliance
  <2>2. CASE k \in submitted
    BY <1>1, <1>2, <2>1, <2>2, ReturnedIInv DEF LogCompliance
  <2>3. CASE k \notin submitted
    <3>1. pc' = "slot" /\ attempt' = 1 /\ UNCHANGED results
      BY <1>2, <2>3 DEF LogCompliance
    <3>2. 1 \in 0..MaxRetries
      BY ComplianceAssumption
    <3> QED
      BY <1>1, <2>1, <3>1, <3>2, QuietIInv DEF Walking
  <2> QED
    BY <2>2, <2>3
<1>3. CASE Backoff
  <2>1. attempt + 1 \in 0..MaxRetries
    BY <1>1, <1>3, ComplianceAssumption DEF Backoff, IInv, Retrying
  <2> QED
    BY <1>1, <1>3, <2>1, QuietIInv DEF Backoff, Walking
<1>4. CASE RequestFails
  BY <1>4, FailedIInv DEF RequestFails
<1>5. CASE Confirmed
  <2>1. Returned(key, "signature") /\ UNCHANGED <<key, attempt, walk, target, chain>>
        /\ submitted' = submitted \cup {key}
    BY <1>5 DEF Confirmed, call
  <2>2. pc = "confirm" /\ Executed(Last)
    BY <1>5 DEF Confirmed, Executed
  <2> QED
    BY <1>1, <2>1, <2>2, ReturnedIInv
<1>6. CASE ConfirmFails
  <2>1. CASE /\ Returned(key, "raised")
             /\ UNCHANGED <<call, submitted, chain>>
    BY <1>1, <2>1, ReturnedIInv DEF call
  <2>2. CASE AttemptFailed
    BY <2>2, FailedIInv
  <2> QED
    BY <1>6, <2>1, <2>2 DEF ConfirmFails
<1>7. CASE Tick
  <2>1. slot' \in 0..MaxSlot /\ UNCHANGED <<errorsRaised, lossy, pc, key, attempt,
                                      walk, target, submitted, others, txs, results>>
    BY <1>7, ComplianceAssumption DEF Tick, IInv, TypeOK, call, setting
  <2> QED
    BY <2>1 DEF IInv, TypeOK, Confirming, Retrying, Walking, SignatureMeansExecuted, Executed, Last
<1>8. CASE OtherLogs
  <2>1. PICK sub \in 0..(SubIndexes - 1) : others' = others \cup {[slot |-> slot, sub |-> sub]}
    BY <1>8 DEF OtherLogs
  <2>2. slot \in 0..(MaxSlot + Ahead + MaxWalks) /\ sub \in 0..SubIndexes
    BY ComplianceAssumption DEF IInv, TypeOK
  <2>3. [slot |-> slot, sub |-> sub] \in Addresses
    BY <2>2 DEF Addresses
  <2>4. others' \subseteq Addresses
        /\ UNCHANGED <<errorsRaised, lossy, pc, key, attempt, walk, target,
                       submitted, slot, txs, results>>
    BY <1>8, <2>1, <2>3 DEF OtherLogs, IInv, TypeOK, call, setting
  <2> QED
    BY <2>4 DEF IInv, TypeOK, Confirming, Retrying, Walking, SignatureMeansExecuted, Executed, Last
<1>9. CASE UNCHANGED vars
  BY <1>9 DEF IInv, TypeOK, Confirming, Retrying, Walking, SignatureMeansExecuted, Executed,
              vars, call, chain, setting, Last
<1> QED
  BY <1>2, <1>3, <1>4, <1>5, <1>6, <1>7, <1>8, <1>9, GetSlotIInv, SendIInv,
     SlotCollisionIInv, SlotAdvancedIInv, ExecuteIInv DEF Next, Caller

\* The submission state keeps its types: the sub-index sent is one there is,
\* no call makes more than MaxRetries attempts or MaxWalks walks.
THEOREM ComplianceTypes == Spec => []TypeOK
<1>1. IInv => TypeOK
  BY DEF IInv
<1> QED
  BY <1>1, InitIInv, StepIInv, PTL DEF Spec

\* A signature is of a transaction for its event that executed, and of one that
\* wrote the log if the client raises execution errors.
THEOREM SignatureIsEvidence == Spec => []SignatureMeansExecuted
<1>1. IInv => SignatureMeansExecuted
  BY DEF IInv
<1> QED
  BY <1>1, InitIInv, StepIInv, PTL DEF Spec

----------------------------------------------------------------------------
(* When no answer about something sent is lost, the in-memory keys are     *)
(* enough.                                                                 *)

Alive(i) == txs[i].fate = "flight" \/ Executed(txs[i])

\* A key has one transaction that is or may be logged, and then the key is
\* remembered or that transaction is being confirmed.
Once ==
    /\ pc # "idle" => key \notin submitted
    /\ \A i, j \in 1..Len(txs) :
          Alive(i) /\ Alive(j) /\ txs[i].key = txs[j].key => i = j
    /\ \A i \in 1..Len(txs) :
          Alive(i) => \/ txs[i].key \in submitted
                      \/ pc = "confirm" /\ i = Len(txs)

OInv == IInv /\ (~lossy => Once)

LEMMA SettingFixed == ASSUME [Next]_vars PROVE UNCHANGED setting
BY DEF Next, Caller, vars, chain, LogCompliance, Backoff, GetSlot, RequestFails,
       AttemptFailed, Send, Confirmed, SlotCollision, SlotAdvanced, ConfirmFails,
       Execute, Tick, OtherLogs

\* A step of the caller that leaves the last transaction dead or remembered.
LEMMA QuietOnce ==
    ASSUME Once, UNCHANGED <<errorsRaised, key, submitted, txs>>,
           pc # "idle", pc = "confirm" => ~Alive(Len(txs))
    PROVE  Once'
BY DEF Once, Alive, Executed

LEMMA StepOnce == ASSUME OInv, [Next]_vars PROVE OInv'
<1>0. SUFFICES ASSUME ~lossy' PROVE Once'
  BY StepIInv DEF OInv
<1>1. IInv /\ ~lossy /\ Once /\ errorsRaised' = errorsRaised
  BY <1>0, SettingFixed DEF OInv, setting
<1> USE <1>1
<1>2. txs \in Seq(Transaction)
  BY DEF IInv, TypeOK, Transaction
<1>3. ASSUME NEW k \in Keys, LogCompliance(k) PROVE Once'
  BY <1>3 DEF LogCompliance, Returned, chain, setting, Once, Alive, Executed
<1>4. ASSUME AttemptFailed, pc \in {"slot", "send"} PROVE Once'
  BY <1>4, QuietOnce DEF AttemptFailed, call, chain, setting
<1>5. CASE RequestFails
  BY <1>4, <1>5 DEF RequestFails
<1>6. CASE Backoff
  BY <1>6, QuietOnce DEF Backoff, chain, setting
<1>7. CASE GetSlot
  BY <1>7, QuietOnce DEF GetSlot, chain, setting
<1>8. CASE Send
  <2> DEFINE new == [key |-> key, at |-> target, fate |-> "flight"]
  <2>1. new \in Transaction
    BY DEF IInv, TypeOK, Transaction, Fates
  <2>2. txs' = Append(txs, new) /\ new.key = key
    BY <1>8 DEF Send
  <2> HIDE DEF new
  <2>3. /\ Len(txs') = Len(txs) + 1 /\ txs'[Len(txs')] = new /\ Len(txs) \in Nat
        /\ \A i \in 1..Len(txs) : txs'[i] = txs[i]
    BY <1>2, <2>1, <2>2, AppendSeq
  <2>4. pc = "send" /\ pc' = "confirm" /\ UNCHANGED <<key, submitted>>
    BY <1>8 DEF Send, call
  <2>5. \A i \in 1..Len(txs) : Alive(i) => txs[i].key # key
    BY <2>4 DEF Once
  <2> QED
    BY <2>2, <2>3, <2>4, <2>5 DEF Once, Alive, Executed
<1>9. CASE Confirmed
  <2>1. pc' = "idle" /\ submitted' = submitted \cup {key} /\ txs' = txs
    BY <1>9 DEF Confirmed, Returned, chain, setting
  <2>2. Len(txs) > 0 /\ txs[Len(txs)].key = key
    BY <1>9 DEF Confirmed, IInv, Confirming, Last
  <2> QED
    BY <2>1, <2>2 DEF Once, Alive, Executed
<1>10. CASE SlotCollision
  <2>1. ~Alive(Len(txs))
    BY <1>10 DEF SlotCollision, Alive, Executed, Errors, Last
  <2> QED
    BY <1>10, <2>1, QuietOnce DEF SlotCollision, Returned, call, chain, setting
<1>11. CASE SlotAdvanced
  <2>1. ~Alive(Len(txs))
    BY <1>11 DEF SlotAdvanced, Alive, Executed, Errors, Last
  <2> QED
    BY <1>11, <2>1, QuietOnce DEF SlotAdvanced, Returned, call, chain, setting
<1>12. CASE ConfirmFails
  <2>1. Last.fate = "expired" /\ pc = "confirm" /\ UNCHANGED <<call, submitted, chain>>
    BY <1>12 DEF ConfirmFails
  <2>2. ~Alive(Len(txs))
    BY <2>1 DEF Alive, Executed, Errors, Last
  <2> QED
    BY <2>1, <2>2, QuietOnce DEF call, chain, setting
<1>13. CASE Execute
  <2>1. PICK i \in 1..Len(txs) :
           /\ txs[i].fate = "flight"
           /\ txs' \in Seq(Transaction) /\ Len(txs') = Len(txs)
           /\ \A j \in 1..Len(txs) : txs'[j].key = txs[j].key
           /\ \A j \in 1..Len(txs) : j # i => txs'[j] = txs[j]
    BY <1>13, ExecuteTxs DEF IInv
  <2>2. \A j \in 1..Len(txs) : Alive(j)' => Alive(j)
    BY <2>1 DEF Alive, Executed
  <2>3. UNCHANGED <<pc, key, submitted>>
    BY <1>13 DEF Execute, call
  <2> QED
    BY <2>1, <2>2, <2>3 DEF Once
<1>14. CASE UNCHANGED <<pc, call, submitted, txs>>
  BY <1>14 DEF Once, Alive, Executed, call
<1> QED
  BY <1>1, <1>3, <1>5, <1>6, <1>7, <1>8, <1>9, <1>10, <1>11, <1>12, <1>13, <1>14
  DEF Next, Caller, Tick, OtherLogs, vars, chain, setting

\* When no answer about something sent is lost, an event is logged at most
\* once, however often its key is submitted and wherever its transactions
\* execute.
THEOREM LoggedOnce == Spec => []LoggedOnceIfAnswered
<1>1. OInv => LoggedOnceIfAnswered
  BY DEF OInv, Once, Alive, Executed, LoggedOnceIfAnswered, LoggedAtMostOnce
<1>2. Init => OInv
  BY InitIInv DEF Init, OInv, Once
<1>3. OInv /\ [Next]_vars => OInv'
  BY StepOnce
<1> QED
  BY <1>1, <1>2, <1>3, PTL DEF Spec

----------------------------------------------------------------------------
(* A call is bounded: four nested loops, attempts around slots around      *)
(* sub-indexes around the steps of one transaction, each counted down.     *)

AttemptsLeft == IF pc = "idle" THEN 0 ELSE MaxRetries - attempt

WalksLeft == CASE pc = "slot" -> MaxWalks
               [] pc \in {"send", "confirm"} -> MaxWalks - 1 - walk
               [] OTHER -> 0

SubsLeft == IF pc \in {"send", "confirm"} THEN SubIndexes - target.sub ELSE 0

StagesLeft == CASE pc = "send" -> 3
                [] pc = "confirm" -> 2
                [] pc \in {"slot", "backoff"} -> 1
                [] OTHER -> 0

\* An outer loop has gone on, or it stands still and an inner one has gone on.
CallProgresses ==
    \/ AttemptsLeft' < AttemptsLeft
    \/ /\ AttemptsLeft' = AttemptsLeft
       /\ \/ WalksLeft' < WalksLeft
          \/ /\ WalksLeft' = WalksLeft
             /\ \/ SubsLeft' < SubsLeft
                \/ SubsLeft' = SubsLeft /\ StagesLeft' < StagesLeft

CallStands == UNCHANGED <<AttemptsLeft, WalksLeft, SubsLeft, StagesLeft>>

\* The caller's steps make progress in the loops, and no step of the cluster or
\* of other clients takes any back.  No count is below zero, so there are
\* finitely many steps.
CallShrinks ==
    /\ Caller => CallProgresses
    /\ Execute \/ Tick \/ OtherLogs => CallStands
    /\ AttemptsLeft \in 0..MaxRetries /\ WalksLeft \in 0..MaxWalks
    /\ SubsLeft \in 0..SubIndexes /\ StagesLeft \in 0..3

LEMMA CountsRange ==
    ASSUME IInv
    PROVE  /\ AttemptsLeft \in 0..MaxRetries /\ WalksLeft \in 0..MaxWalks
           /\ SubsLeft \in 0..SubIndexes /\ StagesLeft \in 0..3
<1>1. /\ MaxRetries \in Nat \ {0} /\ MaxWalks \in Nat \ {0} /\ SubIndexes \in Nat \ {0}
      /\ attempt \in 0..MaxRetries /\ walk \in 0..(MaxWalks - 1) /\ target.sub \in 0..SubIndexes
  BY ComplianceAssumption DEF IInv, TypeOK, Addresses
<1> QED
  BY <1>1 DEF AttemptsLeft, WalksLeft, SubsLeft, StagesLeft

LEMMA ReturnedProgresses ==
    ASSUME IInv, pc # "idle", pc' = "idle" PROVE CallProgresses
<1>1. AttemptsLeft' = 0 /\ WalksLeft' = 0 /\ SubsLeft' = 0 /\ StagesLeft' = 0
  BY DEF AttemptsLeft, WalksLeft, SubsLeft, StagesLeft
<1>2. /\ AttemptsLeft \in Nat /\ WalksLeft \in Nat /\ SubsLeft \in Nat
      /\ StagesLeft \in Nat /\ StagesLeft # 0
  BY CountsRange, ComplianceAssumption DEF IInv, TypeOK, StagesLeft
<1> QED
  BY <1>1, <1>2 DEF CallProgresses

LEMMA FailedProgresses ==
    ASSUME IInv, AttemptFailed, pc \in {"slot", "send", "confirm"} PROVE CallProgresses
<1>1. CASE pc' = "backoff"
  <2>1. /\ AttemptsLeft' = AttemptsLeft /\ WalksLeft' = 0 /\ SubsLeft' = 0 /\ StagesLeft' = 1
    BY <1>1 DEF AttemptFailed, call, AttemptsLeft, WalksLeft, SubsLeft, StagesLeft
  <2>2. WalksLeft \in Nat /\ SubsLeft \in Nat
    BY CountsRange, ComplianceAssumption
  <2>3. pc = "slot" => WalksLeft > 0
    BY ComplianceAssumption DEF WalksLeft
  <2>4. pc # "slot" => StagesLeft > 1
    BY DEF StagesLeft
  <2> QED
    BY <2>1, <2>2, <2>3, <2>4 DEF CallProgresses
<1>2. CASE pc' = "idle"
  BY <1>2, ReturnedProgresses
<1> QED
  BY <1>1, <1>2 DEF AttemptFailed, Returned

LEMMA StepShrinks == ASSUME IInv, [Next]_vars PROVE CallShrinks
<1>1. /\ MaxRetries \in Nat \ {0} /\ MaxWalks \in Nat \ {0} /\ SubIndexes \in Nat \ {0}
      /\ attempt \in 0..MaxRetries /\ walk \in 0..(MaxWalks - 1) /\ target \in Addresses
      /\ target.sub \in 0..SubIndexes
  BY ComplianceAssumption DEF IInv, TypeOK, Addresses
<1>2. ASSUME Caller PROVE CallProgresses
  <2>1. CASE Backoff
    BY <1>1, <2>1 DEF Backoff, CallProgresses, AttemptsLeft
  <2>2. CASE GetSlot
    BY <1>1, <2>2 DEF GetSlot, CallProgresses, AttemptsLeft, WalksLeft
  <2>3. CASE RequestFails
    BY <2>3, FailedProgresses DEF RequestFails
  <2>4. CASE Send
    <3>1. UNCHANGED <<AttemptsLeft, WalksLeft, SubsLeft>> /\ StagesLeft' = 2 /\ StagesLeft = 3
      BY <2>4 DEF Send, call, AttemptsLeft, WalksLeft, SubsLeft, StagesLeft
    <3> QED
      BY <3>1 DEF CallProgresses
  <2>5. CASE Confirmed
    BY <2>5, ReturnedProgresses DEF Confirmed, Returned
  <2>6. CASE SlotCollision
    <3>1. CASE target.sub + 1 < SubIndexes
      <4>1. target'.sub = target.sub + 1
        BY <1>1, <2>6, <3>1 DEF SlotCollision, Addresses
      <4>2. pc = "confirm" /\ pc' = "send" /\ UNCHANGED <<attempt, walk>>
        BY <2>6, <3>1 DEF SlotCollision
      <4>3. AttemptsLeft' = AttemptsLeft /\ WalksLeft' = WalksLeft
        BY <4>2 DEF AttemptsLeft, WalksLeft
      <4>4. SubsLeft' = SubsLeft - 1
        BY <1>1, <4>1, <4>2 DEF SubsLeft
      <4>5. SubsLeft \in Nat
        BY CountsRange, <1>1
      <4> QED
        BY <4>3, <4>4, <4>5 DEF CallProgresses
    <3>2. CASE ~(target.sub + 1 < SubIndexes)
      BY <2>6, <3>2, ReturnedProgresses DEF SlotCollision, Returned
    <3> QED
      BY <3>1, <3>2
  <2>7. CASE SlotAdvanced
    <3>1. CASE walk + 1 < MaxWalks
      <4>1. AttemptsLeft' = AttemptsLeft /\ WalksLeft' = WalksLeft - 1
        BY <1>1, <2>7, <3>1 DEF SlotAdvanced, AttemptsLeft, WalksLeft
      <4>2. WalksLeft \in Nat
        BY CountsRange, <1>1
      <4> QED
        BY <4>1, <4>2 DEF CallProgresses
    <3>2. CASE ~(walk + 1 < MaxWalks)
      BY <2>7, <3>2, ReturnedProgresses DEF SlotAdvanced, Returned
    <3> QED
      BY <3>1, <3>2
  <2>8. CASE ConfirmFails
    <3>1. CASE Returned(key, "raised")
      BY <2>8, <3>1, ReturnedProgresses DEF ConfirmFails, Returned
    <3>2. CASE AttemptFailed
      BY <2>8, <3>2, FailedProgresses DEF ConfirmFails
    <3> QED
      BY <2>8, <3>1, <3>2 DEF ConfirmFails
  <2> QED
    BY <1>2, <2>1, <2>2, <2>3, <2>4, <2>5, <2>6, <2>7, <2>8 DEF Caller
<1>3. ASSUME Execute \/ Tick \/ OtherLogs PROVE CallStands
  BY <1>3 DEF Execute, Tick, OtherLogs, call, CallStands, AttemptsLeft, WalksLeft, SubsLeft, StagesLeft
<1> QED
  BY <1>2, <1>3, CountsRange DEF CallShrinks

\* However many slots pass and whatever is in use, a call goes through its
\* attempts, slots and sub-indexes once and then has returned: what CallReturns
\* needs besides that the next step is taken at all.
THEOREM CallsAreBounded == Spec => [][CallShrinks]_vars
<1>1. Init => IInv
  BY InitIInv
<1>2. IInv /\ [Next]_vars => IInv'
  BY StepIInv
<1>3. IInv /\ [Next]_vars => [CallShrinks]_vars
  BY StepShrinks
<1> QED
  BY <1>1, <1>2, <1>3, PTL DEF Spec
----------------------------------------------------------------------------
(* When no answer is lost, every step keeps the promise of idempotent      *)
(* submission, or is invisible to it.                                      *)

PromiseKept == Promise!Next \/ UNCHANGED <<Effects, Acknowledged>>

\* Nothing is acknowledged by a call that returns no signature.
LEMMA QuietResults ==
    ASSUME IInv, NEW k \in Keys, NEW kind \in {"skipped", "raised"},
           UNCHANGED results \/ Returned(k, kind)
    PROVE  Acknowledged' = Acknowledged
<1>1. CASE UNCHANGED results
  BY <1>1 DEF Acknowledged, Signed
<1>2. CASE Returned(k, kind)
  <2> DEFINE new == [key |-> k, kind |-> kind, tx |-> Len(txs)]
  <2>1. results \in Seq(Answer) /\ new \in Answer /\ new.kind = kind
    BY DEF IInv, TypeOK, Answer
  <2>2. results' = Append(results, new)
    BY <1>2 DEF Returned
  <2> HIDE DEF new
  <2>3. /\ Len(results') = Len(results) + 1 /\ Len(results) \in Nat
        /\ results'[Len(results) + 1] = new
        /\ \A r \in 1..Len(results) : results'[r] = results[r]
    BY <2>1, <2>2, AppendSeq
  <2>4. Signed' = Signed
    BY <2>1, <2>3 DEF Signed
  <2>5. \A r \in Signed : results'[r] = results[r]
    BY <2>3 DEF Signed
  <2> QED
    BY <2>4, <2>5 DEF Acknowledged
<1> QED
  BY <1>1, <1>2

\* A step that leaves the transactions and returns no signature is invisible.
LEMMA QuietKeeps ==
    ASSUME IInv, NEW k \in Keys, NEW kind \in {"skipped", "raised"},
           UNCHANGED <<errorsRaised, txs>>, UNCHANGED results \/ Returned(k, kind)
    PROVE  PromiseKept
BY QuietResults DEF PromiseKept, Effects, Executed

\* A transaction on its way has not taken effect.
LEMMA SendKeeps == ASSUME IInv, Send PROVE PromiseKept
<1> DEFINE new == [key |-> key, at |-> target, fate |-> "flight"]
<1>1. txs \in Seq(Transaction) /\ new \in Transaction /\ ~Executed(new)
  BY DEF IInv, TypeOK, Transaction, Fates, Executed, Errors
<1>2. txs' = Append(txs, new) /\ UNCHANGED <<errorsRaised, results>>
  BY DEF Send, setting
<1> HIDE DEF new
<1>3. /\ Len(txs') = Len(txs) + 1 /\ txs'[Len(txs) + 1] = new /\ Len(txs) \in Nat
      /\ \A i \in 1..Len(txs) : txs'[i] = txs[i]
  BY <1>1, <1>2, AppendSeq
<1>4. ASSUME NEW k \in Keys
      PROVE  {i \in 1..Len(txs') : txs'[i].key = k /\ Executed(txs'[i])}
             = {i \in 1..Len(txs) : txs[i].key = k /\ Executed(txs[i])}
  BY <1>1, <1>3
<1>5. Effects' = Effects
  BY <1>2, <1>4 DEF Effects, Executed
<1>6. Acknowledged' = Acknowledged
  BY <1>2 DEF Acknowledged, Signed
<1> QED
  BY <1>5, <1>6 DEF PromiseKept

\* A transaction executes: the event's first to take effect, by Once.
LEMMA ExecuteKeeps ==
    ASSUME IInv, Once, Execute PROVE PromiseKept
<1>1. PICK i \in 1..Len(txs) :
         /\ txs[i].fate = "flight"
         /\ txs' \in Seq(Transaction) /\ Len(txs') = Len(txs)
         /\ \A j \in 1..Len(txs) : txs'[j].key = txs[j].key
         /\ \A j \in 1..Len(txs) : j # i => txs'[j] = txs[j]
  BY ExecuteTxs DEF IInv
<1> DEFINE k == txs[i].key
           Of(q) == {j \in 1..Len(txs) : txs[j].key = q /\ Executed(txs[j])}
<1>2. txs \in Seq(Transaction) /\ Len(txs) \in Nat
  BY DEF IInv, TypeOK, Transaction
<1>3. k \in Keys
  <2>1. txs[i] \in Transaction
    BY <1>2
  <2> QED
    BY <2>1 DEF Transaction
<1>4. UNCHANGED <<errorsRaised, results>>
  BY DEF Execute, setting
<1>5. Acknowledged' = Acknowledged
  BY <1>4 DEF Acknowledged, Signed
<1>6. Effects = [q \in Keys |-> Of(q)]
  BY DEF Effects
<1>7. Effects' = [q \in Keys |-> {j \in 1..Len(txs) : txs[j].key = q /\ Executed(txs'[j])}]
  BY <1>1, <1>4 DEF Effects, Executed
<1>8. ~Executed(txs[i])
  BY <1>1 DEF Executed, Errors
<1>9. CASE ~Executed(txs'[i])
  <2>1. \A j \in 1..Len(txs) : Executed(txs'[j]) <=> Executed(txs[j])
    BY <1>1, <1>8, <1>9
  <2> QED
    BY <1>5, <1>7, <2>1 DEF Effects, PromiseKept
<1>10. CASE Executed(txs'[i])
  <2>1. \A j \in 1..Len(txs) : Executed(txs'[j]) <=> Executed(txs[j]) \/ j = i
    BY <1>1, <1>10
  <2>2. \A j \in 1..Len(txs) : Executed(txs[j]) => txs[j].key # k
    BY <1>1, <1>8 DEF Once, Alive
  <2>3. Of(k) = {}
    BY <2>2
  <2>4. \A q \in Keys : {j \in 1..Len(txs) : txs[j].key = q /\ Executed(txs'[j])}
                        = IF q = k THEN {i} ELSE Of(q)
    BY <2>1, <2>2
  <2>5. Effects' = [Effects EXCEPT ![k] = {i}]
    BY <1>6, <1>7, <2>4
  <2>6. Effects[k] = {} /\ i \in Nat
    <3>1. Effects[k] = Of(k)
      BY ONLY <1>3, <1>6
    <3> QED
      BY <1>2, <2>3, <3>1
  <2>7. Promise!TakeEffect(k)
    BY <1>5, <2>5, <2>6 DEF Promise!TakeEffect
  <2> QED
    BY <1>3, <2>7 DEF Promise!Next, PromiseKept
<1> QED
  BY <1>9, <1>10

\* A signature acknowledges the event whose transaction executed.
LEMMA ConfirmedKeeps == ASSUME IInv, Confirmed PROVE PromiseKept
<1> DEFINE new == [key |-> key, kind |-> "signature", tx |-> Len(txs)]
<1>1. results \in Seq(Answer) /\ new \in Answer /\ key \in Keys
      /\ new.kind = "signature" /\ new.key = key
  BY DEF IInv, TypeOK, Answer
<1>2. results' = Append(results, new) /\ UNCHANGED <<errorsRaised, txs>>
  BY DEF Confirmed, Returned, chain, setting
<1> HIDE DEF new
<1>3. /\ Len(results') = Len(results) + 1 /\ Len(results) \in Nat
      /\ results'[Len(results) + 1] = new
      /\ \A r \in 1..Len(results) : results'[r] = results[r]
  BY <1>1, <1>2, AppendSeq
<1>4. Signed' = Signed \cup {Len(results) + 1}
  BY <1>1, <1>3 DEF Signed
<1>5. \A r \in Signed : results'[r] = results[r]
  BY <1>3 DEF Signed
<1>6. Acknowledged' = Acknowledged \cup {key}
  BY <1>1, <1>3, <1>4, <1>5 DEF Acknowledged
<1>7. Len(txs) \in 1..Len(txs) /\ txs[Len(txs)].key = key /\ Executed(txs[Len(txs)])
  BY DEF IInv, TypeOK, Confirming, Confirmed, Last, Executed
<1>8. Effects[key] # {}
  BY <1>1, <1>7 DEF Effects
<1>9. Effects' = Effects
  BY <1>2 DEF Effects, Executed
<1>10. Promise!Acknowledge(key)
  BY <1>6, <1>8, <1>9 DEF Promise!Acknowledge
<1> QED
  BY <1>1, <1>10 DEF Promise!Next, PromiseKept

LEMMA StepKeeps == ASSUME OInv, ~lossy, [Next]_vars PROVE PromiseKept
<1>1. IInv /\ Once /\ key \in Keys /\ UNCHANGED errorsRaised
  BY SettingFixed DEF OInv, IInv, TypeOK, setting
<1>2. CASE \E k \in Keys : LogCompliance(k)
  <2>1. PICK k \in Keys : LogCompliance(k)
    BY <1>2
  <2>2. UNCHANGED txs /\ (UNCHANGED results \/ Returned(k, "skipped"))
    BY <2>1 DEF LogCompliance, chain
  <2> QED
    BY <1>1, <2>2, QuietKeeps
<1>3. CASE Backoff \/ GetSlot \/ RequestFails \/ SlotCollision \/ SlotAdvanced \/ ConfirmFails
  <2>1. UNCHANGED txs /\ (UNCHANGED results \/ Returned(key, "raised"))
    BY <1>3 DEF Backoff, GetSlot, RequestFails, SlotCollision, SlotAdvanced, ConfirmFails,
                AttemptFailed, chain
  <2> QED
    BY <1>1, <2>1, QuietKeeps
<1>4. CASE Send
  BY <1>1, <1>4, SendKeeps
<1>5. CASE Confirmed
  BY <1>1, <1>5, ConfirmedKeeps
<1>6. CASE Execute
  BY <1>1, <1>6, ExecuteKeeps
<1>7. CASE Tick \/ OtherLogs \/ UNCHANGED vars
  BY <1>1, <1>7, QuietKeeps DEF Tick, OtherLogs, vars, chain
<1> QED
  BY <1>2, <1>3, <1>4, <1>5, <1>6, <1>7 DEF Next, Caller

\* When no answer is lost, the compliance path implements idempotent submission:
\* over all attempts, slots and sub-indexes, one transaction of an event takes
\* effect, and a signature is returned for it only after that.
THEOREM ComplianceIsIdempotent == Spec /\ ~lossy => Promise!Spec
<1>1. Init /\ ~lossy => OInv /\ Promise!Init
  <2>1. Init => Effects = [k \in Keys |-> {}] /\ Acknowledged = {}
    BY DEF Init, Effects, Acknowledged, Signed
  <2> QED
    BY <2>1, InitIInv DEF Promise!Init, Init, OInv, Once
<1>2. OInv /\ [Next]_vars => OInv'
  BY StepOnce
<1>3. ~lossy /\ [Next]_vars => ~lossy'
  BY SettingFixed DEF setting
<1>4. OInv /\ ~lossy /\ [Next]_vars => [Promise!Next]_Promise!vars
  BY StepKeeps DEF PromiseKept, Promise!vars
<1> QED
  BY <1>1, <1>2, <1>3, <1>4, PTL DEF Spec, Promise!Spec
----------------------------------------------------------------------------
(* What goes wrong when answers are lost is bounded by the outermost loop: *)
(* slots are walked and sub-indexes tried only after a transaction failed, *)
(* so each attempt leaves one live transaction at most.                    *)

LiveFor(k) == {i \in 1..Len(txs) : txs[i].key = k /\ Alive(i)}
CallsFor(k) == {r \in 1..Len(results) : results[r].key = k /\ results[r].kind # "skipped"}

\* An event is logged, or may still be, at most MaxRetries times for every call
\* that was not skipped, the one in progress included.
DuplicatesBounded ==
    \A k \in Keys :
        Cardinality(LiveFor(k)) <=
            MaxRetries * (Cardinality(CallsFor(k)) + IF pc # "idle" /\ key = k THEN 1 ELSE 0)

\* What the attempts of the call in progress have left live at most.
LiveByCall ==
    CASE pc \in {"slot", "send"} -> attempt - 1
      [] pc = "confirm"          -> attempt - 1 + IF Alive(Len(txs)) THEN 1 ELSE 0
      [] pc = "backoff"          -> attempt
      [] OTHER                   -> 0

LiveWithin ==
    \A k \in Keys :
        Cardinality(LiveFor(k)) <=
            MaxRetries * Cardinality(CallsFor(k)) + IF key = k THEN LiveByCall ELSE 0

Attempted == pc # "idle" => attempt > 0

BInv == IInv /\ Attempted /\ LiveWithin

LEMMA LiveByCallRange ==
    ASSUME IInv, Attempted
    PROVE  LiveByCall \in 0..MaxRetries /\ (pc = "idle" => LiveByCall = 0)
<1>1. MaxRetries \in Nat \ {0} /\ attempt \in 0..MaxRetries
  BY ComplianceAssumption DEF IInv, TypeOK
<1>2. CASE pc = "idle"
  BY <1>1, <1>2 DEF LiveByCall
<1>3. CASE pc # "idle"
  <2>1. attempt > 0
    BY <1>3 DEF Attempted
  <2>2. LiveByCall \in {attempt - 1, attempt - 1 + 0, attempt - 1 + 1, attempt}
    BY <1>3 DEF LiveByCall, IInv, TypeOK
  <2> QED
    BY <1>1, <1>3, <2>1, <2>2
<1> QED
  BY <1>2, <1>3

LEMMA OneMoreCall ==
    ASSUME NEW p \in Nat, NEW c \in Nat
    PROVE  p * c \in Nat /\ p * (c + 1) = p * c + p
OBVIOUS

LEMMA Counts ==
    ASSUME IInv, NEW k
    PROVE  /\ IsFiniteSet(LiveFor(k)) /\ Cardinality(LiveFor(k)) \in Nat
           /\ IsFiniteSet(CallsFor(k)) /\ Cardinality(CallsFor(k)) \in Nat
<1>1. Len(txs) \in Nat /\ Len(results) \in Nat
  BY DEF IInv, TypeOK
<1>2. IsFiniteSet(1..Len(txs)) /\ IsFiniteSet(1..Len(results))
  BY <1>1, FS_Interval
<1>3. IsFiniteSet(LiveFor(k)) /\ IsFiniteSet(CallsFor(k))
  BY <1>2, FS_Subset DEF LiveFor, CallsFor
<1> QED
  BY <1>3, FS_CardinalityType

\* A step of the caller that neither sends nor returns.
LEMMA QuietWithin ==
    ASSUME BInv, UNCHANGED <<errorsRaised, txs, results>>,
           key' = key \/ LiveByCall = 0, LiveByCall' \in Nat, LiveByCall' >= LiveByCall
    PROVE  LiveWithin'
<1>0. MaxRetries \in Nat
  BY ComplianceAssumption
<1>1. PICK n \in Nat : n = LiveByCall
  BY <1>0, LiveByCallRange DEF BInv
<1>2. PICK m \in Nat : m = LiveByCall' /\ m >= n
  BY <1>1
<1> SUFFICES ASSUME NEW k \in Keys
             PROVE  Cardinality(LiveFor(k)') <=
                        MaxRetries * Cardinality(CallsFor(k)') + IF key' = k THEN m ELSE 0
  BY <1>2 DEF LiveWithin
<1>3. LiveFor(k)' = LiveFor(k) /\ CallsFor(k)' = CallsFor(k)
  BY DEF LiveFor, CallsFor, Alive, Executed
<1>4. PICK s \in Nat, c \in Nat : s = Cardinality(LiveFor(k)) /\ c = Cardinality(CallsFor(k))
  BY Counts DEF BInv
<1>5. PICK b \in Nat : b = MaxRetries * c
  BY <1>0, <1>4, OneMoreCall
<1>6. s <= b + IF key = k THEN n ELSE 0
  BY <1>1, <1>4, <1>5 DEF BInv, LiveWithin
<1>7. key' = key \/ n = 0
  BY <1>1
<1>8. s <= b + IF key' = k THEN m ELSE 0
  BY <1>1, <1>2, <1>4, <1>5, <1>6, <1>7
<1> QED
  BY <1>3, <1>4, <1>5, <1>8

\* A call returns: it was worth what it has left live.
LEMMA ReturnedWithin ==
    ASSUME BInv, NEW k \in Keys, NEW kind \in {"signature", "skipped", "raised"},
           Returned(k, kind), UNCHANGED <<errorsRaised, txs>>,
           k = key \/ LiveByCall = 0, kind = "skipped" => LiveByCall = 0
    PROVE  LiveWithin'
<1> DEFINE new == [key |-> k, kind |-> kind, tx |-> Len(txs)]
<1>0. MaxRetries \in Nat
  BY ComplianceAssumption
<1>1. PICK n \in Nat : n = LiveByCall /\ n <= MaxRetries
  BY <1>0, LiveByCallRange DEF BInv
<1>2. LiveByCall' = 0
  BY DEF Returned, LiveByCall
<1>3. /\ results \in Seq(Answer) /\ new \in Answer /\ new.key = k /\ new.kind = kind
  BY DEF BInv, IInv, TypeOK, Answer
<1>4. results' = Append(results, new)
  BY DEF Returned
<1> HIDE DEF new
<1>5. /\ Len(results') = Len(results) + 1 /\ Len(results) \in Nat
      /\ results'[Len(results) + 1] = new
      /\ \A r \in 1..Len(results) : results'[r] = results[r]
  BY <1>3, <1>4, AppendSeq
<1> SUFFICES ASSUME NEW q \in Keys
             PROVE  Cardinality(LiveFor(q)') <=
                        MaxRetries * Cardinality(CallsFor(q)') + IF key' = q THEN 0 ELSE 0
  BY <1>2 DEF LiveWithin
<1>6. LiveFor(q)' = LiveFor(q)
  BY DEF LiveFor, Alive, Executed
<1>7. PICK s \in Nat, c \in Nat : s = Cardinality(LiveFor(q)) /\ c = Cardinality(CallsFor(q))
  BY Counts DEF BInv
<1>8. s <= MaxRetries * c + IF key = q THEN n ELSE 0
  BY <1>1, <1>7 DEF BInv, LiveWithin
<1>9. MaxRetries * c \in Nat /\ MaxRetries * (c + 1) = MaxRetries * c + MaxRetries
  BY <1>0, <1>7, OneMoreCall
<1>10. CASE q = k /\ kind # "skipped"
  <2>1. CallsFor(q)' = CallsFor(q) \cup {Len(results) + 1}
    BY <1>3, <1>5, <1>10 DEF CallsFor
  <2>2. Len(results) + 1 \notin CallsFor(q)
    BY <1>5 DEF CallsFor
  <2>3. Cardinality(CallsFor(q)') = c + 1
    BY <1>7, <2>1, <2>2, Counts, FS_AddElement DEF BInv
  <2>4. s <= MaxRetries * (c + 1) + 0
    BY <1>0, <1>1, <1>7, <1>8, <1>9
  <2> QED
    BY <1>6, <1>7, <2>3, <2>4
<1>11. CASE q # k \/ kind = "skipped"
  <2>1. CallsFor(q)' = CallsFor(q)
    BY <1>3, <1>5, <1>11 DEF CallsFor
  <2>2. key # q \/ n = 0
    BY <1>1, <1>11
  <2>3. s <= MaxRetries * c + 0
    BY <1>7, <1>8, <1>9, <2>2
  <2> QED
    BY <1>6, <1>7, <2>1, <2>3
<1> QED
  BY <1>10, <1>11

LEMMA SendWithin == ASSUME BInv, Send PROVE LiveWithin'
<1> DEFINE new == [key |-> key, at |-> target, fate |-> "flight"]
<1>0. MaxRetries \in Nat /\ attempt \in 0..MaxRetries /\ attempt > 0
  BY ComplianceAssumption DEF BInv, IInv, TypeOK, Send, Attempted
<1>1. PICK n \in Nat : n = LiveByCall /\ n = attempt - 1
  BY <1>0 DEF LiveByCall, Send
<1>2. txs \in Seq(Transaction) /\ new \in Transaction
  BY DEF BInv, IInv, TypeOK, Transaction, Fates
<1>3. new.key = key /\ new.fate = "flight"
  OBVIOUS
<1>4. txs' = Append(txs, new)
  BY DEF Send
<1> HIDE DEF new
<1>5. /\ Len(txs') = Len(txs) + 1 /\ Len(txs) \in Nat /\ txs'[Len(txs) + 1] = new
      /\ \A i \in 1..Len(txs) : txs'[i] = txs[i]
  BY <1>2, <1>4, AppendSeq
<1>6. /\ pc' = "confirm" /\ UNCHANGED <<errorsRaised, key, attempt, results>>
  BY DEF Send, call, setting
<1>7. PICK l \in Nat : l = Len(txs) + 1
  BY <1>5
<1>8. Alive(l)' /\ \A i \in 1..Len(txs) : Alive(i)' = Alive(i)
  BY <1>3, <1>5, <1>6, <1>7 DEF Alive, Executed
<1>9. LiveByCall' = attempt - 1 + 1
  BY <1>3, <1>5, <1>6 DEF LiveByCall, Alive
<1>10. LiveByCall' = n + 1
  BY <1>0, <1>1, <1>9
<1> SUFFICES ASSUME NEW q \in Keys
             PROVE  Cardinality(LiveFor(q)') <=
                        MaxRetries * Cardinality(CallsFor(q)') + IF key = q THEN n + 1 ELSE 0
  BY <1>6, <1>10 DEF LiveWithin
<1>11. CallsFor(q)' = CallsFor(q)
  BY <1>6 DEF CallsFor
<1>12. PICK s \in Nat, c \in Nat : s = Cardinality(LiveFor(q)) /\ c = Cardinality(CallsFor(q))
  BY Counts DEF BInv
<1>13. PICK b \in Nat : b = MaxRetries * c
  BY <1>0, <1>12, OneMoreCall
<1>14. s <= b + IF key = q THEN n ELSE 0
  BY <1>1, <1>12, <1>13 DEF BInv, LiveWithin
<1>15. CASE q = key
  <2>1. LiveFor(q)' = LiveFor(q) \cup {l}
    BY <1>3, <1>5, <1>7, <1>8, <1>15 DEF LiveFor
  <2>2. l \notin LiveFor(q)
    BY <1>5, <1>7 DEF LiveFor
  <2>3. Cardinality(LiveFor(q)') = s + 1
    BY <1>12, <2>1, <2>2, Counts, FS_AddElement DEF BInv
  <2>4. s + 1 <= b + (n + 1)
    BY <1>1, <1>12, <1>13, <1>14, <1>15
  <2> QED
    BY <1>11, <1>12, <1>13, <1>15, <2>3, <2>4
<1>16. CASE q # key
  <2>1. LiveFor(q)' = LiveFor(q)
    BY <1>3, <1>5, <1>7, <1>8, <1>16 DEF LiveFor
  <2> QED
    BY <1>11, <1>12, <1>13, <1>14, <1>16, <2>1
<1> QED
  BY <1>15, <1>16

\* A transaction that executes stays live, or is one less: then also for the
\* call that is confirming it.
LEMMA ExecuteWithin == ASSUME BInv, Execute PROVE LiveWithin'
<1>0. MaxRetries \in Nat /\ attempt \in 0..MaxRetries /\ Len(txs) \in Nat
      /\ (pc # "idle" => attempt > 0)
      /\ (pc = "confirm" => Len(txs) > 0 /\ txs[Len(txs)].key = key)
  BY ComplianceAssumption DEF BInv, IInv, TypeOK, Attempted, Confirming, Last
<1>1. PICK i \in 1..Len(txs) :
         /\ txs[i].fate = "flight"
         /\ txs' \in Seq(Transaction) /\ Len(txs') = Len(txs)
         /\ \A j \in 1..Len(txs) : txs'[j].key = txs[j].key
         /\ \A j \in 1..Len(txs) : j # i => txs'[j] = txs[j]
  BY ExecuteTxs DEF BInv, IInv
<1>2. UNCHANGED <<errorsRaised, pc, key, attempt, results>>
  BY DEF Execute, call, setting
<1>3. Alive(i) /\ \A j \in 1..Len(txs) : j # i => (Alive(j)' <=> Alive(j))
  BY <1>1, <1>2 DEF Alive, Executed
<1>4. PICK l \in Nat : l = Len(txs) /\ l = Len(txs')
  BY <1>0, <1>1
<1>5. LiveByCall = CASE pc \in {"slot", "send"} -> attempt - 1
                     [] pc = "confirm"          -> attempt - 1 + IF Alive(l) THEN 1 ELSE 0
                     [] pc = "backoff"          -> attempt
                     [] OTHER                   -> 0
  BY <1>4 DEF LiveByCall
<1>6. LiveByCall' = CASE pc \in {"slot", "send"} -> attempt - 1
                     [] pc = "confirm"          -> attempt - 1 + IF Alive(l)' THEN 1 ELSE 0
                     [] pc = "backoff"          -> attempt
                     [] OTHER                   -> 0
  BY <1>2, <1>4 DEF LiveByCall, Alive, Executed
<1>7. PICK n \in Nat : n = LiveByCall
  BY <1>0, LiveByCallRange DEF BInv
<1> SUFFICES ASSUME NEW q \in Keys
             PROVE  Cardinality(LiveFor(q)') <=
                        MaxRetries * Cardinality(CallsFor(q)') + IF key = q THEN LiveByCall' ELSE 0
  BY <1>2 DEF LiveWithin
<1>8. CallsFor(q)' = CallsFor(q)
  BY <1>2 DEF CallsFor
<1>9. PICK s \in Nat, c \in Nat : s = Cardinality(LiveFor(q)) /\ c = Cardinality(CallsFor(q))
  BY Counts DEF BInv
<1>10. PICK b \in Nat : b = MaxRetries * c
  BY <1>0, <1>9, OneMoreCall
<1>11. s <= b + IF key = q THEN n ELSE 0
  BY <1>7, <1>9, <1>10 DEF BInv, LiveWithin
<1>12. CASE Alive(i)' \/ txs[i].key # q
  <2>1. LiveFor(q)' = LiveFor(q)
    BY <1>1, <1>3, <1>12 DEF LiveFor
  <2>2. key = q => LiveByCall' = LiveByCall
    <3>1. ASSUME key = q, pc = "confirm" PROVE Alive(l)' <=> Alive(l)
      <4>1. l \in 1..Len(txs) /\ txs[l].key = q
        BY <1>0, <1>4, <3>1
      <4> QED
        BY <1>3, <1>12, <4>1
    <3> QED
      BY <1>5, <1>6, <3>1
  <2> QED
    BY <1>7, <1>8, <1>9, <1>10, <1>11, <2>1, <2>2
<1>13. CASE ~Alive(i)' /\ txs[i].key = q
  <2>1. LiveFor(q)' = LiveFor(q) \ {i} /\ i \in LiveFor(q)
    BY <1>1, <1>3, <1>13 DEF LiveFor
  <2>2. Cardinality(LiveFor(q)') = s - 1
    BY <1>9, <2>1, Counts, FS_RemoveElement DEF BInv
  <2>3. PICK m \in Nat : m = LiveByCall' /\ m >= n - 1
    <3>1. CASE pc = "confirm"
      <4>1. /\ LiveByCall \in {attempt - 1 + 1, attempt - 1 + 0}
            /\ LiveByCall' \in {attempt - 1 + 1, attempt - 1 + 0}
        BY <1>5, <1>6, <3>1
      <4> QED
        BY <1>0, <1>7, <3>1, <4>1
    <3>2. CASE pc # "confirm"
      <4>1. LiveByCall' = n
        BY <1>5, <1>6, <1>7, <3>2
      <4> QED
        BY <1>7, <4>1
    <3> QED
      BY <3>1, <3>2
  <2>4. s - 1 <= b + IF key = q THEN m ELSE 0
    BY <1>7, <1>9, <1>10, <1>11, <2>3
  <2> QED
    BY <1>8, <1>9, <1>10, <2>2, <2>3, <2>4
<1> QED
  BY <1>12, <1>13

LEMMA StepBInv == ASSUME BInv, [Next]_vars PROVE BInv'
<1>1. IInv /\ IInv' /\ Attempted /\ errorsRaised' = errorsRaised
  BY StepIInv, SettingFixed DEF BInv, setting
<1> SUFFICES Attempted' /\ LiveWithin'
  BY <1>1 DEF BInv
<1>2. /\ attempt \in 0..MaxRetries /\ attempt' \in 0..MaxRetries /\ MaxRetries \in Nat
      /\ LiveByCall \in Nat /\ (pc = "idle" => LiveByCall = 0) /\ (pc # "idle" => key \in Keys)
  BY <1>1, ComplianceAssumption, LiveByCallRange DEF IInv, TypeOK
<1>3. ASSUME NEW k \in Keys, LogCompliance(k) PROVE Attempted' /\ LiveWithin'
  <2>1. pc = "idle" /\ LiveByCall = 0 /\ UNCHANGED txs
    BY <1>2, <1>3 DEF LogCompliance, chain
  <2>2. CASE pc' = "idle"
    <3>1. Returned(k, "skipped")
      BY <1>3, <2>2 DEF LogCompliance
    <3> QED
      BY <1>1, <2>1, <2>2, <3>1, ReturnedWithin DEF Attempted
  <2>3. CASE pc' # "idle"
    <3>1. UNCHANGED results /\ pc' = "slot" /\ attempt' = 1
      BY <1>3, <2>3 DEF LogCompliance, Returned
    <3>2. LiveByCall' = 0
      BY <3>1 DEF LiveByCall
    <3> QED
      BY <1>1, <2>1, <3>1, <3>2, QuietWithin DEF Attempted
  <2> QED
    BY <2>2, <2>3
<1>4. ASSUME pc # "idle", Returned(key, "raised"), UNCHANGED txs
      PROVE  Attempted' /\ LiveWithin'
  BY <1>1, <1>2, <1>4, ReturnedWithin DEF Returned, Attempted
<1>5. ASSUME pc \in {"slot", "send", "confirm"}, AttemptFailed PROVE Attempted' /\ LiveWithin'
  <2>1. UNCHANGED <<key, attempt, txs>>
    BY <1>5 DEF AttemptFailed, call, chain
  <2>2. CASE Returned(key, "raised")
    BY <1>4, <1>5, <2>1, <2>2
  <2>3. CASE pc' = "backoff" /\ UNCHANGED results
    <3>1. LiveByCall \in {attempt - 1, attempt - 1 + 0, attempt - 1 + 1}
      BY <1>5 DEF LiveByCall
    <3>2. LiveByCall' = attempt
      BY <2>1, <2>3 DEF LiveByCall
    <3>3. LiveByCall' \in Nat /\ LiveByCall' >= LiveByCall
      BY <1>2, <3>1, <3>2
    <3> QED
      BY <1>1, <1>5, <2>1, <2>3, <3>3, QuietWithin DEF Attempted
  <2> QED
    BY <1>5, <2>2, <2>3 DEF AttemptFailed
<1>6. CASE Backoff
  <2>1. LiveByCall = attempt /\ LiveByCall' = attempt + 1 - 1
        /\ UNCHANGED <<key, txs, results>> /\ attempt' = attempt + 1
    BY <1>2, <1>6 DEF Backoff, LiveByCall, chain
  <2>2. LiveByCall' = LiveByCall /\ attempt' > 0
    BY <1>2, <2>1
  <2> QED
    BY <1>1, <1>2, <2>1, <2>2, QuietWithin DEF Attempted
<1>7. ASSUME pc \in {"slot", "confirm"}, pc = "confirm" => ~Alive(Len(txs)),
             pc' = "send", UNCHANGED <<key, attempt, txs, results>>
      PROVE  Attempted' /\ LiveWithin'
  <2>1. LiveByCall \in {attempt - 1, attempt - 1 + 0} /\ LiveByCall' = attempt - 1
    BY <1>7 DEF LiveByCall
  <2>2. LiveByCall' = LiveByCall
    BY <1>2, <2>1
  <2> QED
    BY <1>1, <1>2, <1>7, <2>2, QuietWithin DEF Attempted
<1>8. CASE GetSlot
  BY <1>7, <1>8 DEF GetSlot, chain
<1>9. CASE RequestFails
  BY <1>5, <1>9 DEF RequestFails
<1>10. CASE Send
  BY <1>1, <1>10, SendWithin DEF Send, Attempted, call
<1>11. CASE Confirmed
  BY <1>1, <1>2, <1>11, ReturnedWithin DEF Confirmed, Returned, Attempted, chain
<1>12. CASE SlotCollision
  <2>1. pc = "confirm" /\ ~Alive(Len(txs)) /\ UNCHANGED txs
    BY <1>12 DEF SlotCollision, Alive, Executed, Last, chain
  <2>2. \/ pc' = "send" /\ UNCHANGED <<key, attempt, results>>
        \/ Returned(key, "raised")
    BY <1>12 DEF SlotCollision
  <2> QED
    BY <1>4, <1>7, <2>1, <2>2
<1>13. CASE SlotAdvanced
  <2>1. pc = "confirm" /\ ~Alive(Len(txs)) /\ UNCHANGED txs
    BY <1>13 DEF SlotAdvanced, Alive, Executed, Last, chain
  <2>2. \/ pc' = "send" /\ UNCHANGED <<key, attempt, results>>
        \/ Returned(key, "raised")
    BY <1>13 DEF SlotAdvanced
  <2> QED
    BY <1>4, <1>7, <2>1, <2>2
<1>14. CASE ConfirmFails
  BY <1>4, <1>5, <1>14 DEF ConfirmFails, chain
<1>15. CASE Execute
  BY <1>1, <1>15, ExecuteWithin DEF Execute, Attempted, call
<1>16. CASE UNCHANGED <<pc, call, txs, results>>
  <2>1. LiveByCall' = LiveByCall /\ key' = key
    BY <1>1, <1>16 DEF LiveByCall, Alive, Executed, call
  <2> QED
    BY <1>1, <1>2, <1>16, <2>1, QuietWithin DEF Attempted, call
<1>17. CASE Tick \/ OtherLogs \/ UNCHANGED vars
  BY <1>16, <1>17 DEF Tick, OtherLogs, vars, chain
<1> QED
  BY <1>3, <1>6, <1>8, <1>9, <1>10, <1>11, <1>12, <1>13, <1>14, <1>15, <1>17 DEF Next, Caller

LEMMA InitBInv == ASSUME Init PROVE BInv
<1>1. IInv
  BY InitIInv
<1>2. pc = "idle" /\ txs = <<>> /\ results = <<>>
  BY DEF Init
<1>3. Attempted /\ LiveByCall = 0
  BY <1>2 DEF Attempted, LiveByCall
<1>4. \A k \in Keys : LiveFor(k) = {} /\ CallsFor(k) = {}
  BY <1>2 DEF LiveFor, CallsFor
<1>5. Cardinality({}) = 0
  BY FS_EmptySet
<1>6. MaxRetries * 0 = 0
  BY ComplianceAssumption
<1>7. LiveWithin
  <2>1. \A k \in Keys : (IF key = k THEN LiveByCall ELSE 0) = 0
    BY <1>3
  <2>2. 0 <= 0 + 0
    OBVIOUS
  <2> QED
    BY <1>4, <1>5, <1>6, <2>1, <2>2 DEF LiveWithin
<1> QED
  BY <1>1, <1>3, <1>7 DEF BInv

LEMMA BInvBounds == ASSUME BInv PROVE DuplicatesBounded
<1> SUFFICES ASSUME NEW k \in Keys
             PROVE  Cardinality(LiveFor(k)) <=
                        MaxRetries * (Cardinality(CallsFor(k)) + IF pc # "idle" /\ key = k THEN 1 ELSE 0)
  BY DEF DuplicatesBounded
<1>0. MaxRetries \in Nat
  BY ComplianceAssumption
<1>1. PICK n \in Nat : n = LiveByCall /\ n <= MaxRetries /\ (pc = "idle" => n = 0)
  BY <1>0, LiveByCallRange DEF BInv
<1>2. PICK s \in Nat, c \in Nat : s = Cardinality(LiveFor(k)) /\ c = Cardinality(CallsFor(k))
  BY Counts DEF BInv
<1>3. s <= MaxRetries * c + IF key = k THEN n ELSE 0
  BY <1>1, <1>2 DEF BInv, LiveWithin
<1>4. MaxRetries * c \in Nat /\ MaxRetries * (c + 1) = MaxRetries * c + MaxRetries
  BY <1>0, <1>2, OneMoreCall
<1>5. CASE pc # "idle" /\ key = k
  BY <1>0, <1>1, <1>2, <1>3, <1>4, <1>5
<1>6. CASE ~(pc # "idle" /\ key = k)
  <2>1. s <= MaxRetries * c
    BY <1>1, <1>2, <1>3, <1>4, <1>6
  <2>2. c + 0 = c
    BY <1>2
  <2> QED
    BY <1>1, <1>2, <1>6, <2>1, <2>2
<1> QED
  BY <1>5, <1>6

\* However many answers are lost, slots walked and sub-indexes tried, an event is
\* logged at most MaxRetries times for every call of it that was not skipped: the
\* inner loops never add a duplicate of their own.
THEOREM DuplicatesAreBounded == Spec => []DuplicatesBounded
<1>1. Init => BInv
  BY InitBInv
<1>2. BInv /\ [Next]_vars => BInv'
  BY StepBInv
<1>3. BInv => DuplicatesBounded
  BY BInvBounds
<1> QED
  BY <1>1, <1>2, <1>3, PTL DEF Spec
=============================================================================
