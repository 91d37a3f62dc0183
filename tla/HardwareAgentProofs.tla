------------------------ MODULE HardwareAgentProofs ------------------------
(***************************************************************************)
(* Proofs about the program for every number of agents, providers, slots   *)
(* and every value of the limits.                                          *)
(***************************************************************************)
EXTENDS HardwareAgentAllowance, HardwareAgentLedger, FiniteSetTheorems, TLAPS

IInv == TypeOK /\ Solvent /\ WhitelistIsSet /\ WindowAligned

----------------------------------------------------------------------------
(* Balances.                                                               *)

\* Two owners have two PDAs, and a PDA is neither an owner nor a hardware key.
LEMMA PdaFacts ==
    /\ \A o, q \in Owners : Pda(o) = Pda(q) => o = q
    /\ \A o \in Owners : /\ Pda(o) \in Accounts
                         /\ \A k \in Owners \cup Hardware : k # Pda(o)
  BY InputsAssumption DEF Pda, Accounts

\* A covered debit yields balances again and touches one account.
LEMMA DebitFacts ==
    ASSUME NEW b \in [Accounts -> Nat], NEW k \in Accounts, NEW n \in Nat, b[k] >= n
    PROVE  /\ Debit(b, k, n) \in [Accounts -> Nat]
           /\ \A j \in Accounts :
                 Debit(b, k, n)[j] = IF j = k THEN b[j] - n ELSE b[j]
  BY DEF Debit

\* So does a credit.
LEMMA CreditFacts ==
    ASSUME NEW b \in [Accounts -> Nat], NEW k \in Accounts, NEW n \in Nat
    PROVE  /\ Credit(b, k, n) \in [Accounts -> Nat]
           /\ \A j \in Accounts :
                 Credit(b, k, n)[j] = IF j = k THEN b[j] + n ELSE b[j]
  BY DEF Credit

\* A transfer from an owner or a hardware wallet lowers no PDA's balance.
LEMMA TransferFacts ==
    ASSUME NEW b \in [Accounts -> Nat], NEW w \in Owners \cup Hardware,
           NEW k \in Accounts, NEW n \in Nat, b[w] >= n
    PROVE  /\ Credit(Debit(b, w, n), k, n) \in [Accounts -> Nat]
           /\ \A q \in Owners :
                 Credit(Debit(b, w, n), k, n)[Pda(q)]
                   = IF Pda(q) = k THEN b[Pda(q)] + n ELSE b[Pda(q)]
  <1>1. w \in Accounts
    BY DEF Accounts
  <1>2. /\ Debit(b, w, n) \in [Accounts -> Nat]
        /\ \A j \in Accounts : Debit(b, w, n)[j] = IF j = w THEN b[j] - n ELSE b[j]
    BY <1>1, DebitFacts
  <1>3. /\ Credit(Debit(b, w, n), k, n) \in [Accounts -> Nat]
        /\ \A j \in Accounts : Credit(Debit(b, w, n), k, n)[j]
              = IF j = k THEN Debit(b, w, n)[j] + n ELSE Debit(b, w, n)[j]
    BY <1>2, CreditFacts
  <1> QED
    BY <1>2, <1>3, PdaFacts

----------------------------------------------------------------------------
(* Epochs.                                                                 *)

\* Epochs of slots: the epoch of an epoch's first slot, and monotonicity.
LEMMA EpochFacts ==
    /\ \A s \in Nat : Epoch(s) \in Nat /\ Epoch(s) * WindowSlots <= s
                      /\ s < (Epoch(s) + 1) * WindowSlots
    /\ \A e \in Nat : e * WindowSlots \in Nat /\ Epoch(e * WindowSlots) = e
    /\ \A s \in Nat : Epoch(s + 1) = Epoch(s) \/ Epoch(s + 1) = Epoch(s) + 1
    /\ Epoch(0) = 0
    /\ \A s, t \in Nat : s <= t => Epoch(s) <= Epoch(t)
  BY BoundsAssumption DEF Epoch
----------------------------------------------------------------------------
(* The window and the whitelist.                                           *)

\* The fields of a rolled and a charged account.
LEMMA AccountFacts ==
    ASSUME NEW a \in AgentAccount, slot \in Nat, NEW n \in Nat
    PROVE  /\ Rolled(a) \in AgentAccount
           /\ \A f \in {"hardware", "budget", "spent", "providers"} : Rolled(a)[f] = a[f]
           /\ Epoch(slot) > Epoch(a.start)
                => Rolled(a).start = Epoch(slot) * WindowSlots /\ Rolled(a).txs = 0
           /\ Charged(a, n) \in AgentAccount
           /\ \A f \in {"hardware", "budget", "providers", "start"} : Charged(a, n)[f] = a[f]
           /\ Charged(a, n).spent = a.spent + n
           /\ Charged(a, n).txs = a.txs + 1
  <1>1. Epoch(slot) * WindowSlots \in Nat
    BY EpochFacts, BoundsAssumption
  <1>4. /\ Charged(a, n) \in AgentAccount
        /\ Charged(a, n).hardware = a.hardware /\ Charged(a, n).budget = a.budget
        /\ Charged(a, n).providers = a.providers /\ Charged(a, n).start = a.start
        /\ Charged(a, n).spent = a.spent + n /\ Charged(a, n).txs = a.txs + 1
    <2> DEFINE c == [a EXCEPT !.spent = a.spent + n]
    <2>1. Charged(a, n) = [c EXCEPT !.txs = a.txs + 1]
      BY DEF Charged
    <2>2. /\ c \in AgentAccount
          /\ c.hardware = a.hardware /\ c.budget = a.budget /\ c.spent = a.spent + n
          /\ c.providers = a.providers /\ c.start = a.start
      BY DEF AgentAccount
    <2>3. a.txs + 1 \in Nat
      BY DEF AgentAccount
    <2> HIDE DEF c
    <2> QED
      BY <2>1, <2>2, <2>3 DEF AgentAccount
  <1>5. /\ Rolled(a) \in AgentAccount
        /\ Rolled(a).hardware = a.hardware /\ Rolled(a).budget = a.budget
        /\ Rolled(a).spent = a.spent /\ Rolled(a).providers = a.providers
        /\ Epoch(slot) > Epoch(a.start)
             => Rolled(a).start = Epoch(slot) * WindowSlots /\ Rolled(a).txs = 0
    BY <1>1 DEF Rolled, AgentAccount
  <1> QED
    BY <1>4, <1>5

\* After the lazy reset the window is the one of the present epoch, and its
\* count is the number of draws made in this epoch.
LEMMA RolledFacts ==
    ASSUME IInv, NEW o \in Registered
    PROVE  LET a == Rolled(agent[o])
           IN  /\ a.start \in Nat /\ a.txs \in 0..MaxTxs
               /\ a.start <= slot /\ a.start = Epoch(a.start) * WindowSlots
               /\ Epoch(a.start) = Epoch(slot)
               /\ a.txs = DrawsNow(o)
  <1>1. /\ o \in Owners /\ agent[o] \in AgentAccount
        /\ agent[o].start \in Nat /\ agent[o].txs \in 0..MaxTxs
        /\ agent[o].start <= slot /\ agent[o].start = Epoch(agent[o].start) * WindowSlots
        /\ slot \in Nat /\ MaxTxs \in Nat
    BY BoundsAssumption DEF IInv, TypeOK, AgentAccount, Registered, WindowAligned
  <1>2. /\ Epoch(slot) \in Nat /\ Epoch(agent[o].start) \in Nat
        /\ Epoch(agent[o].start) <= Epoch(slot)
        /\ Epoch(slot) * WindowSlots <= slot
    BY <1>1, EpochFacts
  <1>3. Epoch(slot) * WindowSlots \in Nat /\ Epoch(Epoch(slot) * WindowSlots) = Epoch(slot)
    BY <1>2, EpochFacts
  <1>4. CASE Epoch(slot) > Epoch(agent[o].start)
    <2>1. Rolled(agent[o]).start = Epoch(slot) * WindowSlots /\ Rolled(agent[o]).txs = 0
      BY <1>1, <1>4, AccountFacts
    <2>2. DrawsNow(o) = 0
      BY <1>2, <1>4 DEF DrawsNow
    <2> QED
      BY <1>1, <1>2, <1>3, <2>1, <2>2
  <1>5. CASE ~(Epoch(slot) > Epoch(agent[o].start))
    <2>1. Rolled(agent[o]) = agent[o]
      BY <1>5 DEF Rolled
    <2>2. Epoch(agent[o].start) = Epoch(slot)
      BY <1>2, <1>5
    <2>3. DrawsNow(o) = agent[o].txs
      BY <2>2 DEF DrawsNow
    <2> QED
      BY <1>1, <2>1, <2>2, <2>3
  <1> QED
    BY <1>4, <1>5

\* swap_remove takes exactly the entry named out of a list without duplicates,
\* and leaves no duplicate.
LEMMA SwapRemoveFacts ==
    ASSUME NEW list \in Seq(Providers), NEW i \in 1..Len(list),
           \A j, k \in 1..Len(list) : list[j] = list[k] => j = k
    PROVE  /\ SwapRemove(list, i) \in Seq(Providers)
           /\ Len(SwapRemove(list, i)) = Len(list) - 1
           /\ \A j, k \in 1..(Len(list) - 1) :
                 SwapRemove(list, i)[j] = SwapRemove(list, i)[k] => j = k
           /\ {SwapRemove(list, i)[j] : j \in 1..(Len(list) - 1)}
                 = {list[j] : j \in 1..Len(list)} \ {list[i]}
  <1> DEFINE f == SwapRemove(list, i)
             n == Len(list)
  <1>1. n \in Nat /\ n - 1 \in Nat /\ i \in 1..n
    OBVIOUS
  <1>2. f \in [1..(n - 1) -> Providers]
    BY DEF SwapRemove
  <1>3. f \in Seq(Providers) /\ Len(f) = n - 1
    BY <1>1, <1>2
  <1>4. \A j \in 1..(n - 1) : f[j] = IF j = i THEN list[n] ELSE list[j]
    BY DEF SwapRemove
  <1>5. \A j, k \in 1..(n - 1) : f[j] = f[k] => j = k
    BY <1>3, <1>4
  <1>6. ASSUME NEW j \in 1..(n - 1)
        PROVE  f[j] \in {list[k] : k \in 1..n} \ {list[i]}
    <2>1. PICK k \in 1..n : f[j] = list[k] /\ k # i
      BY <1>1, <1>4
    <2> QED
      BY <1>1, <2>1
  <1>7. ASSUME NEW k \in 1..n, list[k] # list[i]
        PROVE  \E j \in 1..(n - 1) : list[k] = f[j]
    <2>1. CASE k = n
      BY <1>1, <1>4, <1>7, <2>1
    <2>2. CASE k # n
      BY <1>1, <1>4, <1>7, <2>2
    <2> QED
      BY <2>1, <2>2
  <1> HIDE DEF f, n
  <1>8. {f[j] : j \in 1..(n - 1)} = {list[k] : k \in 1..n} \ {list[i]}
    BY <1>6, <1>7
  <1> QED
    BY <1>3, <1>5, <1>8 DEF f, n

\* push of a new provider does too.
LEMMA PushFacts ==
    ASSUME NEW list \in Seq(Providers), NEW p \in Providers, ~Contains(list, p),
           \A j, k \in 1..Len(list) : list[j] = list[k] => j = k
    PROVE  /\ Append(list, p) \in Seq(Providers)
           /\ Len(Append(list, p)) = Len(list) + 1
           /\ \A j, k \in 1..(Len(list) + 1) :
                 Append(list, p)[j] = Append(list, p)[k] => j = k
  BY DEF Contains
----------------------------------------------------------------------------
(* The inductive invariant, one lemma per instruction.                     *)

\* An agent account as the invariant knows it.
LEMMA AgentFacts ==
    ASSUME IInv, NEW o \in Registered
    PROVE  /\ o \in Owners /\ agent[o] \in AgentAccount /\ agent[o] # Unregistered
           /\ agent[o].hardware \in Hardware
           /\ agent[o].budget \in Nat /\ agent[o].spent \in Nat
           /\ agent[o].providers \in Seq(Providers)
           /\ agent[o].start \in Nat /\ agent[o].txs \in Nat
           /\ lamports \in [Accounts -> Nat]
  BY DEF IInv, TypeOK, AgentAccount, Registered

LEMMA InitInvariant == Init => IInv
  BY BoundsAssumption, InputsAssumption
     DEF Init, IInv, TypeOK, Solvent, WhitelistIsSet, WindowAligned, Registered

LEMMA InitializeInvariant ==
    ASSUME IInv, NEW o \in Owners, NEW h \in Hardware, NEW b \in Budgets,
           InitializeAgent(o, h, b)
    PROVE  IInv'
  <1> DEFINE fresh == [hardware |-> h, budget |-> b, spent |-> 0,
                       providers |-> <<>>, start |-> 0, txs |-> 0]
  <1>1. /\ agent \in [Owners -> AgentAccount \cup {Unregistered}]
        /\ lamports \in [Accounts -> Nat] /\ lamports[Pda(o)] \in Nat
        /\ b \in Nat /\ AgentRent \in Nat
    BY BoundsAssumption, InputsAssumption, PdaFacts DEF IInv, TypeOK
  <1>2. InitFee(o) \in Nat /\ lamports[Pda(o)] + InitFee(o) >= AgentRent
    BY <1>1 DEF InitFee
  <1>3. /\ fresh \in AgentAccount
        /\ agent' = [agent EXCEPT ![o] = fresh]
        /\ lamports[o] >= InitFee(o) + b
        /\ lamports' = Credit(Debit(lamports, o, InitFee(o) + b), Pda(o), InitFee(o) + b)
        /\ UNCHANGED <<slot, received, records, logs>>
    BY <1>1 DEF InitializeAgent, AgentAccount
  <1>4. /\ lamports' \in [Accounts -> Nat]
        /\ \A q \in Owners : lamports'[Pda(q)]
              = IF q = o THEN lamports[Pda(q)] + (InitFee(o) + b) ELSE lamports[Pda(q)]
    BY <1>1, <1>2, <1>3, TransferFacts, PdaFacts
  <1>5. /\ Registered' = Registered \cup {o} /\ agent'[o] = fresh
        /\ \A q \in Registered : q # o => agent'[q] = agent[q]
    BY <1>1, <1>3, UnregisteredAssumption DEF Registered, InitializeAgent
  <1>6. /\ fresh.spent = 0 /\ fresh.budget = b /\ fresh.start = 0 /\ fresh.txs = 0
        /\ fresh.providers = <<>>
    OBVIOUS
  <1> HIDE DEF fresh
  <1>7. TypeOK'
    BY <1>3, <1>4 DEF IInv, TypeOK
  <1>8. Solvent'
    <2>1. ASSUME NEW q \in Registered'
          PROVE  /\ agent'[q].spent <= agent'[q].budget
                 /\ lamports'[Pda(q)] >= AgentRent + agent'[q].budget - agent'[q].spent
      <3>1. CASE q = o
        BY <3>1, <1>1, <1>2, <1>4, <1>5, <1>6
      <3>2. CASE q # o
        BY <3>2, <1>4, <1>5 DEF IInv, Solvent, Registered
      <3> QED
        BY <3>1, <3>2
    <2> QED
      BY <2>1 DEF Solvent
  <1>9. WhitelistIsSet'
    BY <1>5, <1>6, BoundsAssumption DEF IInv, WhitelistIsSet
  <1>10. Epoch(0) * WindowSlots = 0 /\ 0 <= slot /\ 0 <= MaxTxs
    BY EpochFacts, BoundsAssumption DEF IInv, TypeOK
  <1>11. WindowAligned'
    BY <1>3, <1>5, <1>6, <1>10 DEF IInv, WindowAligned, Epoch
  <1> QED
    BY <1>7, <1>8, <1>9, <1>11 DEF IInv

\* Giving an agent another list of distinct providers keeps the invariant.
LEMMA RelistInvariant ==
    ASSUME IInv, NEW o \in Registered, NEW list \in Seq(Providers),
           Len(list) <= MaxProviders,
           \A i, j \in 1..Len(list) : list[i] = list[j] => i = j,
           agent' = [agent EXCEPT ![o] = [agent[o] EXCEPT !.providers = list]],
           UNCHANGED <<slot, lamports, received, records, logs>>
    PROVE  IInv'
  <1> DEFINE a == [agent[o] EXCEPT !.providers = list]
  <1>1. /\ a \in AgentAccount /\ a.providers = list
        /\ a.spent = agent[o].spent /\ a.budget = agent[o].budget
        /\ a.start = agent[o].start /\ a.txs = agent[o].txs
    BY AgentFacts DEF AgentAccount
  <1> HIDE DEF a
  <1>2. /\ agent' \in [Owners -> AgentAccount \cup {Unregistered}]
        /\ agent'[o] = a
        /\ \A q \in Owners : q # o => agent'[q] = agent[q]
    BY <1>1, AgentFacts DEF IInv, TypeOK, a
  <1>3. \A q \in Registered' : q \in Registered
    BY <1>2 DEF Registered
  <1>4. TypeOK'
    BY <1>2 DEF IInv, TypeOK
  <1>5. Solvent' /\ WindowAligned' /\ WhitelistIsSet'
    BY <1>1, <1>2, <1>3 DEF IInv, Solvent, WindowAligned, WhitelistIsSet, Registered
  <1> QED
    BY <1>4, <1>5 DEF IInv

\* An update of the whitelist is a new list of distinct providers.
LEMMA WhitelistStep ==
    ASSUME IInv, NEW o \in Owners, UpdateProviderWhitelist(o)
    PROVE  /\ o \in Registered /\ UNCHANGED <<slot, lamports, received, records, logs>>
           /\ \E list \in Seq(Providers) :
                 /\ Len(list) <= MaxProviders
                 /\ \A i, j \in 1..Len(list) : list[i] = list[j] => i = j
                 /\ agent' = [agent EXCEPT ![o] = [agent[o] EXCEPT !.providers = list]]
  <1>1. PICK p \in Providers : AddProvider(o, p) \/ RemoveProvider(o, p)
    BY DEF UpdateProviderWhitelist
  <1>2. o \in Registered /\ UNCHANGED <<slot, lamports, received, records, logs>>
    BY <1>1 DEF AddProvider, RemoveProvider
  <1> DEFINE old == agent[o].providers
  <1>3. /\ old \in Seq(Providers) /\ Len(old) \in Nat /\ Len(old) <= MaxProviders
        /\ \A i, j \in 1..Len(old) : old[i] = old[j] => i = j
    BY <1>2, AgentFacts DEF IInv, WhitelistIsSet
  <1>4. CASE AddProvider(o, p)
    <2>1. /\ agent' = [agent EXCEPT ![o] = [agent[o] EXCEPT !.providers = Append(old, p)]]
          /\ ~Contains(old, p) /\ Len(old) < MaxProviders
      BY <1>4 DEF AddProvider
    <2> HIDE DEF old
    <2>2. /\ Append(old, p) \in Seq(Providers)
          /\ Len(Append(old, p)) <= MaxProviders
          /\ \A i, j \in 1..Len(Append(old, p)) :
                Append(old, p)[i] = Append(old, p)[j] => i = j
      BY <1>3, <2>1, PushFacts, BoundsAssumption
    <2> QED
      BY <1>2, <2>1, <2>2
  <1>5. CASE RemoveProvider(o, p)
    <2>1. PICK i \in 1..Len(old) :
            agent' = [agent EXCEPT ![o] = [agent[o] EXCEPT !.providers = SwapRemove(old, i)]]
      BY <1>5 DEF RemoveProvider
    <2> HIDE DEF old
    <2>2. /\ SwapRemove(old, i) \in Seq(Providers)
          /\ Len(SwapRemove(old, i)) = Len(old) - 1
          /\ \A j, k \in 1..(Len(old) - 1) :
                SwapRemove(old, i)[j] = SwapRemove(old, i)[k] => j = k
      BY <1>3, SwapRemoveFacts
    <2>3. Len(SwapRemove(old, i)) <= MaxProviders
      BY <1>3, <2>2, BoundsAssumption
    <2> QED
      BY <1>2, <2>1, <2>2, <2>3
  <1> QED
    BY <1>1, <1>2, <1>4, <1>5

LEMMA WhitelistInvariant ==
    ASSUME IInv, NEW o \in Owners, UpdateProviderWhitelist(o)
    PROVE  IInv'
  BY WhitelistStep, RelistInvariant
\* A payment moves lamports out of the paying agent's PDA and of no other
\* PDA, whoever receives them.
LEMMA PaymentBalances ==
    ASSUME IInv, NEW o \in Registered, NEW p \in Providers, NEW n \in Amounts,
           StreamComputePayment(o, p, n)
    PROVE  /\ n \in 1..MaxPayment
           /\ lamports' \in [Accounts -> Nat]
           /\ lamports'[Pda(o)] >= lamports[Pda(o)] - n
           /\ \A q \in Owners : q # o => lamports'[Pda(q)] >= lamports[Pda(q)]
  <1> DEFINE h == agent[o].hardware
             funded == Debit(lamports, h, RecordFee(p))
             paid == Debit(funded, Pda(o), n)
  <1>1. /\ h \in Hardware /\ h \in Accounts /\ lamports \in [Accounts -> Nat]
        /\ o \in Owners /\ agent[o] \in AgentAccount /\ slot \in Nat
        /\ n \in Nat /\ RecordFee(p) \in Nat /\ p \in Accounts /\ Pda(o) \in Accounts
    BY AgentFacts, BoundsAssumption, InputsAssumption, PdaFacts
       DEF Accounts, RecordFee, IInv, TypeOK
  <1>2. Rolled(agent[o]).hardware = h
    BY <1>1, AccountFacts
  <1>3. /\ n \in 1..MaxPayment /\ lamports[h] >= RecordFee(p) /\ funded[Pda(o)] >= n
        /\ lamports' = Credit(paid, p, n)
    BY <1>1, <1>2, BoundsAssumption DEF StreamComputePayment, Paid
  <1>4. /\ funded \in [Accounts -> Nat]
        /\ \A q \in Owners : funded[Pda(q)] = lamports[Pda(q)]
    BY <1>1, <1>3, DebitFacts, PdaFacts
  <1> HIDE DEF funded
  <1>5. /\ paid \in [Accounts -> Nat]
        /\ \A q \in Owners : paid[Pda(q)] = IF q = o THEN funded[Pda(q)] - n
                                                   ELSE funded[Pda(q)]
    BY <1>1, <1>3, <1>4, DebitFacts, PdaFacts
  <1> HIDE DEF paid
  <1>6. /\ lamports' \in [Accounts -> Nat]
        /\ \A j \in Accounts : lamports'[j] = IF j = p THEN paid[j] + n ELSE paid[j]
    <2>1. /\ paid \in [Accounts -> Nat] /\ p \in Accounts /\ n \in Nat
          /\ lamports' = Credit(paid, p, n)
      BY <1>1, <1>3, <1>5
    <2> QED
      BY ONLY <2>1, CreditFacts
  <1>7. \A q \in Owners : /\ Pda(q) \in Accounts /\ paid[Pda(q)] \in Nat
                          /\ lamports'[Pda(q)] >= paid[Pda(q)]
    BY <1>1, <1>5, <1>6, PdaFacts
  <1>8. \A q \in Owners : lamports[Pda(q)] \in Nat /\ lamports'[Pda(q)] \in Nat
    BY <1>1, <1>6, PdaFacts
  <1> QED
    BY <1>1, <1>3, <1>4, <1>5, <1>6, <1>7, <1>8

\* The account after a payment: one more payment in the present window,
\* spending still within the budget.
LEMMA PaymentAccount ==
    ASSUME IInv, NEW o \in Registered, NEW p \in Providers, NEW n \in Amounts,
           StreamComputePayment(o, p, n)
    PROVE  /\ agent' \in [Owners -> AgentAccount \cup {Unregistered}]
           /\ \A q \in Owners : q # o => agent'[q] = agent[q]
           /\ agent'[o] \in AgentAccount
           /\ agent'[o].budget = agent[o].budget
           /\ agent'[o].spent = agent[o].spent + n
           /\ agent'[o].spent <= agent[o].budget
           /\ agent'[o].providers = agent[o].providers
           /\ agent'[o].start = Epoch(agent'[o].start) * WindowSlots
           /\ agent'[o].start <= slot /\ Epoch(agent'[o].start) = Epoch(slot)
           /\ agent'[o].txs = DrawsNow(o) + 1 /\ DrawsNow(o) < MaxTxs
           /\ DrawsNow(o) \in Nat
           /\ Registered' = Registered
           /\ UNCHANGED <<slot, logs>>
  <1> DEFINE a == Rolled(agent[o])
             c == Charged(a, n)
  <1>1. /\ o \in Owners /\ agent[o] \in AgentAccount /\ slot \in Nat /\ n \in Nat
        /\ agent \in [Owners -> AgentAccount \cup {Unregistered}]
    BY AgentFacts, InputsAssumption DEF IInv, TypeOK
  <1>2. /\ a \in AgentAccount /\ a.budget = agent[o].budget
        /\ a.spent = agent[o].spent /\ a.providers = agent[o].providers
    BY <1>1, AccountFacts
  <1>3. /\ a.start <= slot /\ a.start = Epoch(a.start) * WindowSlots
        /\ Epoch(a.start) = Epoch(slot) /\ a.txs = DrawsNow(o) /\ a.txs \in 0..MaxTxs
    BY RolledFacts
  <1>4. /\ agent' = [agent EXCEPT ![o] = c]
        /\ a.txs < MaxTxs /\ a.spent + n <= a.budget
        /\ UNCHANGED <<slot, logs>>
    BY DEF StreamComputePayment, WithinBudget
  <1> HIDE DEF a
  <1>5. /\ c \in AgentAccount /\ c.budget = a.budget /\ c.spent = a.spent + n
        /\ c.providers = a.providers /\ c.start = a.start /\ c.txs = a.txs + 1
    BY <1>1, <1>2, AccountFacts
  <1> HIDE DEF c
  <1>6. /\ agent' \in [Owners -> AgentAccount \cup {Unregistered}]
        /\ agent'[o] = c /\ \A q \in Owners : q # o => agent'[q] = agent[q]
    BY <1>1, <1>4, <1>5
  <1>7. c # Unregistered
    BY <1>5, UnregisteredAssumption
  <1>8. Registered' = Registered
    BY <1>6, <1>7 DEF Registered
  <1> QED
    BY <1>2, <1>3, <1>4, <1>5, <1>6, <1>8

LEMMA PaymentInvariant ==
    ASSUME IInv, NEW o \in Owners, NEW p \in Providers, NEW n \in Amounts,
           StreamComputePayment(o, p, n)
    PROVE  IInv'
  <1>1. o \in Registered
    BY DEF StreamComputePayment
  <1>2. TypeOK'
    <2>1. /\ records' \subseteq Providers /\ received' \in [Providers -> Nat]
      BY InputsAssumption DEF IInv, TypeOK, StreamComputePayment, TotalReceived
    <2> QED
      BY <1>1, <2>1, PaymentBalances, PaymentAccount DEF IInv, TypeOK
  <1>3. ASSUME NEW q \in Registered'
        PROVE  /\ agent'[q].spent <= agent'[q].budget
               /\ lamports'[Pda(q)] >= AgentRent + agent'[q].budget - agent'[q].spent
    <2>1. q \in Registered /\ q \in Owners
      BY <1>1, <1>3, PaymentAccount, AgentFacts
    <2>2. /\ agent[q].spent \in Nat /\ agent[q].budget \in Nat
          /\ lamports[Pda(q)] \in Nat /\ lamports'[Pda(q)] \in Nat
          /\ n \in Nat /\ AgentRent \in Nat
          /\ agent[q].spent <= agent[q].budget
          /\ lamports[Pda(q)] >= AgentRent + agent[q].budget - agent[q].spent
      BY <1>1, <1>2, <2>1, AgentFacts, PdaFacts, BoundsAssumption, InputsAssumption
         DEF IInv, Solvent, TypeOK
    <2> QED
      BY <1>1, <2>1, <2>2, PaymentBalances, PaymentAccount
  <1>4. Solvent'
    BY <1>3 DEF Solvent
  <1>5. WhitelistIsSet'
    BY <1>1, PaymentAccount DEF IInv, WhitelistIsSet, Registered
  <1>6. ASSUME NEW q \in Registered'
        PROVE  /\ agent'[q].start <= slot'
               /\ agent'[q].start = Epoch(agent'[q].start) * WindowSlots
               /\ agent'[q].txs <= MaxTxs
    <2>1. q \in Registered /\ q \in Owners /\ slot' = slot
      BY <1>1, <1>6, PaymentAccount, AgentFacts
    <2>2. CASE q = o
      BY <2>2, <1>1, <2>1, PaymentAccount, BoundsAssumption
    <2>3. CASE q # o
      BY <2>3, <1>1, <2>1, PaymentAccount DEF IInv, WindowAligned
    <2> QED
      BY <2>2, <2>3
  <1>7. WindowAligned'
    BY <1>6 DEF WindowAligned, Epoch
  <1> QED
    BY <1>2, <1>4, <1>5, <1>7 DEF IInv
LEMMA LogInvariant ==
    ASSUME IInv, NEW o \in Owners, NEW sub \in SubIndexes, NEW d \in Hashes,
           NEW v \in Severities, LogComplianceEvent(o, sub, d, v)
    PROVE  IInv'
  <1>1. o \in Registered
    BY DEF LogComplianceEvent
  <1> DEFINE h == agent[o].hardware
  <1>2. /\ h \in Hardware /\ h \in Accounts /\ lamports \in [Accounts -> Nat]
        /\ LogRent \in Nat /\ lamports[h] >= LogRent /\ v \in 0..3 /\ slot \in Nat
        /\ lamports' = Debit(lamports, h, LogRent)
        /\ UNCHANGED <<slot, agent, received, records>>
    BY <1>1, AgentFacts, BoundsAssumption, InputsAssumption
       DEF Accounts, LogComplianceEvent, RentCovered, ValidSeverity, IInv, TypeOK
  <1>3. /\ lamports' \in [Accounts -> Nat]
        /\ \A q \in Owners : lamports'[Pda(q)] = lamports[Pda(q)]
    BY <1>2, DebitFacts, PdaFacts
  <1>4. logs' \subseteq ComplianceLog
    BY <1>2 DEF LogComplianceEvent, ComplianceLog, IInv, TypeOK
  <1>5. TypeOK'
    BY <1>2, <1>3, <1>4 DEF IInv, TypeOK
  <1>6. Solvent' /\ WhitelistIsSet' /\ WindowAligned'
    BY <1>2, <1>3 DEF IInv, Solvent, WhitelistIsSet, WindowAligned, Registered, Epoch
  <1> QED
    BY <1>5, <1>6 DEF IInv

LEMMA TransferInvariant ==
    ASSUME IInv, NEW o \in Owners, NEW k \in Recipients, Transfer(o, k)
    PROVE  IInv'
  <1>1. /\ lamports \in [Accounts -> Nat] /\ LogRent \in Nat /\ k \in Accounts
        /\ lamports[o] >= LogRent
        /\ lamports' = Credit(Debit(lamports, o, LogRent), k, LogRent)
        /\ UNCHANGED <<slot, agent, received, records, logs>>
    BY BoundsAssumption, InputsAssumption DEF Transfer, IInv, TypeOK
  <1>2. /\ lamports' \in [Accounts -> Nat]
        /\ \A q \in Owners : lamports'[Pda(q)]
              = IF Pda(q) = k THEN lamports[Pda(q)] + LogRent ELSE lamports[Pda(q)]
    BY <1>1, TransferFacts
  <1>3. TypeOK'
    BY <1>1, <1>2 DEF IInv, TypeOK
  <1>4. ASSUME NEW q \in Registered'
        PROVE  /\ agent'[q].spent <= agent'[q].budget
               /\ lamports'[Pda(q)] >= AgentRent + agent'[q].budget - agent'[q].spent
    <2>1. q \in Registered
      BY <1>1, <1>4 DEF Registered
    <2>2. /\ q \in Owners /\ agent[q].spent \in Nat /\ agent[q].budget \in Nat
          /\ AgentRent \in Nat /\ lamports[Pda(q)] \in Nat /\ LogRent \in Nat
          /\ lamports'[Pda(q)] >= lamports[Pda(q)]
      BY <1>1, <1>2, <2>1, AgentFacts, PdaFacts, BoundsAssumption
    <2> QED
      BY <1>1, <1>2, <2>1, <2>2 DEF IInv, Solvent
  <1>5. Solvent'
    BY <1>4 DEF Solvent
  <1>6. WhitelistIsSet' /\ WindowAligned'
    BY <1>1 DEF IInv, WhitelistIsSet, WindowAligned, Registered, Epoch
  <1> QED
    BY <1>3, <1>5, <1>6 DEF IInv

LEMMA SlotInvariant == IInv /\ AdvanceSlot => IInv'
  <1> SUFFICES ASSUME IInv, AdvanceSlot PROVE IInv'
    OBVIOUS
  <1>1. /\ slot \in Nat /\ slot' = slot + 1
        /\ UNCHANGED <<agent, lamports, received, records, logs>>
    BY DEF AdvanceSlot, IInv, TypeOK
  <1>2. TypeOK' /\ Solvent' /\ WhitelistIsSet'
    BY <1>1 DEF IInv, TypeOK, Solvent, WhitelistIsSet, Registered
  <1>3. \A o \in Registered : agent[o].start \in Nat
    BY AgentFacts
  <1>4. WindowAligned'
    BY <1>1, <1>3 DEF IInv, WindowAligned, Registered, Epoch
  <1> QED
    BY <1>2, <1>4 DEF IInv

LEMMA StepInvariant == IInv /\ [Next]_vars => IInv'
  <1> SUFFICES ASSUME IInv, [Next]_vars PROVE IInv'
    OBVIOUS
  <1>1. CASE \E o \in Owners, h \in Hardware, b \in Budgets : InitializeAgent(o, h, b)
    BY <1>1, InitializeInvariant
  <1>2. CASE \E o \in Owners : UpdateProviderWhitelist(o)
    BY <1>2, WhitelistInvariant
  <1>3. CASE \E o \in Owners, p \in Providers, n \in Amounts : StreamComputePayment(o, p, n)
    BY <1>3, PaymentInvariant
  <1>4. CASE \E o \in Owners, s \in SubIndexes, d \in Hashes, v \in Severities :
               LogComplianceEvent(o, s, d, v)
    BY <1>4, LogInvariant
  <1>5. CASE AdvanceSlot
    BY <1>5, SlotInvariant
  <1>6. CASE \E o \in Owners, k \in Recipients : Transfer(o, k)
    BY <1>6, TransferInvariant
  <1>7. CASE UNCHANGED vars
    BY <1>7 DEF vars, IInv, TypeOK, Solvent, WhitelistIsSet, WindowAligned, Registered, Epoch
  <1> QED
    BY <1>1, <1>2, <1>3, <1>4, <1>5, <1>6, <1>7 DEF Next

LEMMA Invariance == Spec => []IInv
  BY InitInvariant, StepInvariant, PTL DEF Spec

----------------------------------------------------------------------------
(* The theorems.                                                           *)

\* The accounts keep their types; in particular no balance is ever negative,
\* so no instruction spends lamports an account does not hold.
THEOREM TypeCorrect == Spec => []TypeOK
  BY Invariance, PTL DEF IInv

\* Every agent's PDA always covers its rent and its unspent budget, for every
\* number of agents, whitelist, payment sequence and outside transfer.
THEOREM Solvency == Spec => []Solvent
  BY Invariance, PTL DEF IInv

\* The whitelist stays duplicate-free and within its allocation under every
\* sequence of pushes and swap-removes.
THEOREM WhitelistCorrect == Spec => []WhitelistIsSet
  BY Invariance, PTL DEF IInv

\* The stored rate-limit window is aligned, not in the future and within the
\* limit.
THEOREM WindowCorrect == Spec => []WindowAligned
  BY Invariance, PTL DEF IInv

\* A compliance log, once written, is there unchanged ever after.
THEOREM LogsNeverChange == Spec => LogsImmutable
  <1>1. [Next]_vars => [logs \subseteq logs']_vars
    BY DEF Next, vars, InitializeAgent, UpdateProviderWhitelist, AddProvider,
           RemoveProvider, StreamComputePayment, LogComplianceEvent, Unclaimed,
           AdvanceSlot, Transfer
  <1> QED
    BY <1>1, PTL DEF Spec, LogsImmutable
----------------------------------------------------------------------------
(* The program implements the spending allowance.                          *)

\* A registered agent's remaining allowance is a number, hence not Closed.
LEMMA RemainingFacts ==
    ASSUME IInv
    PROVE  /\ \A o \in Registered : /\ Remaining(o) = agent[o].budget - agent[o].spent
                                    /\ Remaining(o) \in Nat
                                    /\ Remaining(o) # Unregistered
           /\ \A o \in Owners \ Registered : /\ Remaining(o) = Unregistered
                                            /\ DrawsNow(o) = 0
  <1>1. ASSUME NEW o \in Registered
        PROVE  /\ Remaining(o) = agent[o].budget - agent[o].spent
               /\ Remaining(o) \in Nat
    BY <1>1, AgentFacts DEF Remaining, IInv, Solvent
  <1> QED
    BY <1>1, UnregisteredAssumption DEF Remaining, DrawsNow

LEMMA AllowanceInit == Init => Allowance!Init
  BY EpochFacts DEF Init, Allowance!Init, Remaining, DrawsNow, Registered

\* A step that leaves clock, budgets, spending and windows alone is invisible.
LEMMA AllowanceStutter ==
    ASSUME IInv, IInv', slot' = slot, Registered' = Registered,
           \A o \in Registered :
              /\ agent'[o].budget = agent[o].budget /\ agent'[o].spent = agent[o].spent
              /\ agent'[o].start = agent[o].start /\ agent'[o].txs = agent[o].txs
    PROVE  UNCHANGED Allowance!vars
  <1>1. \A o \in Owners : Remaining(o)' = Remaining(o) /\ DrawsNow(o)' = DrawsNow(o)
    BY DEF Remaining, DrawsNow, Epoch
  <1> QED
    BY <1>1 DEF Allowance!vars, Epoch

LEMMA AllowanceOpen ==
    ASSUME IInv, IInv', NEW o \in Owners, NEW h \in Hardware, NEW b \in Budgets,
           InitializeAgent(o, h, b)
    PROVE  Allowance!Open(o)
  <1> DEFINE fresh == [hardware |-> h, budget |-> b, spent |-> 0,
                       providers |-> <<>>, start |-> 0, txs |-> 0]
  <1>1. /\ agent[o] = Unregistered /\ agent' = [agent EXCEPT ![o] = fresh]
        /\ agent \in [Owners -> AgentAccount \cup {Unregistered}]
        /\ slot' = slot /\ b \in Nat
    BY InputsAssumption DEF InitializeAgent, IInv, TypeOK
  <1>2. /\ agent'[o] = fresh /\ \A q \in Owners : q # o => agent'[q] = agent[q]
        /\ fresh \in AgentAccount
    BY <1>1 DEF AgentAccount
  <1>3. Registered' = Registered \cup {o} /\ o \notin Registered
    BY <1>1, <1>2, UnregisteredAssumption DEF Registered
  <1>4. fresh.budget - fresh.spent = b /\ fresh.txs = 0
    BY <1>1
  <1> HIDE DEF fresh
  <1>5. /\ Remaining(o) = Unregistered /\ DrawsNow(o) = 0
        /\ Remaining(o)' = b /\ DrawsNow(o)' = 0
    BY <1>2, <1>3, <1>4 DEF Remaining, DrawsNow
  <1>6. \A q \in Owners : q # o => Remaining(q)' = Remaining(q) /\ DrawsNow(q)' = DrawsNow(q)
    BY <1>1, <1>2, <1>3 DEF Remaining, DrawsNow, Epoch
  <1> QED
    BY <1>1, <1>5, <1>6 DEF Allowance!Open, Epoch

LEMMA AllowanceDraw ==
    ASSUME IInv, IInv', NEW o \in Owners, NEW p \in Providers, NEW n \in Amounts,
           StreamComputePayment(o, p, n)
    PROVE  Allowance!Draw(o)
  <1>1. o \in Registered
    BY DEF StreamComputePayment
  <1>2. /\ n \in 1..MaxPayment /\ Registered' = Registered /\ slot' = slot
        /\ agent'[o].budget = agent[o].budget /\ agent'[o].spent = agent[o].spent + n
        /\ agent'[o].spent <= agent[o].budget
        /\ Epoch(agent'[o].start) = Epoch(slot)
        /\ agent'[o].txs = DrawsNow(o) + 1 /\ DrawsNow(o) < MaxTxs
        /\ \A q \in Owners : q # o => agent'[q] = agent[q]
    BY <1>1, PaymentBalances, PaymentAccount
  <1>3. /\ agent[o].budget \in Nat /\ agent[o].spent \in Nat /\ n \in Nat
    BY <1>1, <1>2, AgentFacts, BoundsAssumption
  <1>4. /\ Remaining(o) = agent[o].budget - agent[o].spent
        /\ Remaining(o)' = Remaining(o) - n
        /\ n <= Remaining(o) /\ Remaining(o) # Unregistered
    BY <1>1, <1>2, <1>3, RemainingFacts DEF Remaining
  <1>5. DrawsNow(o)' = DrawsNow(o) + 1
    BY <1>1, <1>2 DEF DrawsNow, Epoch
  <1>6. \A q \in Owners : q # o => Remaining(q)' = Remaining(q) /\ DrawsNow(q)' = DrawsNow(q)
    BY <1>2 DEF Remaining, DrawsNow, Epoch
  <1> QED
    BY <1>2, <1>4, <1>5, <1>6 DEF Allowance!Draw, Epoch

LEMMA AllowanceTick ==
    ASSUME IInv, IInv', AdvanceSlot
    PROVE  Allowance!NextEpoch \/ UNCHANGED Allowance!vars
  <1>1. /\ slot \in Nat /\ slot' = slot + 1 /\ agent' = agent /\ Registered' = Registered
    BY DEF AdvanceSlot, IInv, TypeOK, Registered
  <1>2. \A o \in Owners : Remaining(o)' = Remaining(o)
    BY <1>1 DEF Remaining
  <1>3. CASE Epoch(slot') = Epoch(slot)
    <2>1. \A o \in Owners : DrawsNow(o)' = DrawsNow(o)
      BY <1>1, <1>3 DEF DrawsNow, Epoch
    <2> QED
      BY <1>2, <1>3, <2>1 DEF Allowance!vars, Epoch
  <1>4. CASE Epoch(slot') = Epoch(slot) + 1
    <2>1. \A o \in Registered : Epoch(agent[o].start) <= Epoch(slot) /\ Epoch(agent[o].start) \in Nat
      BY <1>1, AgentFacts, EpochFacts DEF IInv, WindowAligned
    <2>2. Epoch(slot) \in Nat
      BY <1>1, EpochFacts
    <2>3. \A o \in Owners : DrawsNow(o)' = 0
      BY <1>1, <1>4, <2>1, <2>2 DEF DrawsNow, Epoch
    <2> QED
      BY <1>2, <1>4, <2>3 DEF Allowance!NextEpoch, Epoch
  <1> QED
    BY <1>1, <1>3, <1>4, EpochFacts
LEMMA AllowanceWhitelist ==
    ASSUME IInv, IInv', NEW o \in Owners, UpdateProviderWhitelist(o)
    PROVE  UNCHANGED Allowance!vars
  <1>1. o \in Registered /\ slot' = slot
    BY WhitelistStep
  <1>2. PICK list \in Seq(Providers) :
          agent' = [agent EXCEPT ![o] = [agent[o] EXCEPT !.providers = list]]
    BY WhitelistStep
  <1> DEFINE a == [agent[o] EXCEPT !.providers = list]
  <1>3. /\ a \in AgentAccount /\ a.budget = agent[o].budget /\ a.spent = agent[o].spent
        /\ a.start = agent[o].start /\ a.txs = agent[o].txs
    BY <1>1, AgentFacts DEF AgentAccount
  <1> HIDE DEF a
  <1>4. agent'[o] = a /\ \A q \in Owners : q # o => agent'[q] = agent[q]
    BY <1>1, <1>2, AgentFacts DEF IInv, TypeOK, a
  <1>5. Registered' = Registered
    BY <1>1, <1>3, <1>4, UnregisteredAssumption DEF Registered
  <1> QED
    BY <1>1, <1>3, <1>4, <1>5, AllowanceStutter DEF Registered

LEMMA AllowanceStep ==
    IInv /\ IInv' /\ [Next]_vars => [Allowance!Next]_(Allowance!vars)
  <1> SUFFICES ASSUME IInv, IInv', [Next]_vars
               PROVE  Allowance!Next \/ UNCHANGED Allowance!vars
    OBVIOUS
  <1>1. CASE \E o \in Owners, h \in Hardware, b \in Budgets : InitializeAgent(o, h, b)
    BY <1>1, AllowanceOpen DEF Allowance!Next
  <1>2. CASE \E o \in Owners : UpdateProviderWhitelist(o)
    BY <1>2, AllowanceWhitelist
  <1>3. CASE \E o \in Owners, p \in Providers, n \in Amounts : StreamComputePayment(o, p, n)
    BY <1>3, AllowanceDraw DEF Allowance!Next
  <1>4. CASE \E o \in Owners, s \in SubIndexes, d \in Hashes, v \in Severities :
               LogComplianceEvent(o, s, d, v)
    BY <1>4, AllowanceStutter DEF LogComplianceEvent, Registered
  <1>5. CASE AdvanceSlot
    BY <1>5, AllowanceTick DEF Allowance!Next
  <1>6. CASE \E o \in Owners, k \in Recipients : Transfer(o, k)
    BY <1>6, AllowanceStutter DEF Transfer, Registered
  <1>7. CASE UNCHANGED vars
    BY <1>7, AllowanceStutter DEF vars, Registered
  <1> QED
    BY <1>1, <1>2, <1>3, <1>4, <1>5, <1>6, <1>7 DEF Next

\* The program implements the spending allowance: at most MaxTxs draws of at
\* most MaxPayment each per epoch, never more in total than the budget, and
\* no other way for the allowance to shrink.
THEOREM AllowanceImplemented == Spec => ImplementsAllowance
  BY Invariance, AllowanceInit, AllowanceStep, PTL DEF Spec, Allowance!Spec, ImplementsAllowance
----------------------------------------------------------------------------
(* Sums over finite sets.  An argument by induction on a finite set takes  *)
(* a minimal member of the family of its subsets that refute the claim.    *)

\* A non-empty family of subsets of a finite set has a minimal member.
LEMMA MinimalSubset ==
    ASSUME NEW S, IsFiniteSet(S), NEW Family \in SUBSET (SUBSET S), Family # {}
    PROVE  \E T \in Family : \A U \in Family : ~(U \subseteq T /\ U # T)
  <1>1. IsWellFoundedOn(StrictSubsetOrdering(S), SUBSET S)
    BY FS_StrictSubsetOrderingWellFounded, FS_FiniteSubsetsOfFinite
  <1>2. PICK T \in Family : \A U \in Family : ~(<<U, T>> \in StrictSubsetOrdering(S))
    BY <1>1, WFMin
  <1>3. ASSUME NEW U \in Family, U \subseteq T, U # T PROVE FALSE
    BY <1>2, <1>3 DEF StrictSubsetOrdering
  <1> QED
    BY <1>3

FirstOf(s) == CHOOSE x \in s : TRUE

\* t is the table of partial sums of f over the subsets of S.
IsTable(f, S, t) ==
    t = [s \in SUBSET S |-> IF s = {} THEN 0 ELSE f[FirstOf(s)] + t[s \ {FirstOf(s)}]]

\* The community modules' sum is read off such a table.
LEMMA SumIsTable ==
    ASSUME NEW f, NEW S
    PROVE  SumFunctionOnSet(f, S) = (CHOOSE t : IsTable(f, S, t))[S]
  BY DEF SumFunctionOnSet, FoldFunctionOnSet, MapThenFoldSet, IsTable, FirstOf

\* A fold takes an element of the set.
LEMMA FirstFacts ==
    ASSUME NEW s, s # {}
    PROVE  FirstOf(s) \in s
  BY DEF FirstOf

\* A table of a larger set has the same partial sums.
LEMMA TablesAgree ==
    ASSUME NEW f, NEW S, IsFiniteSet(S), NEW t, IsTable(f, S, t),
           NEW T, S \subseteq T, NEW u, IsTable(f, T, u)
    PROVE  \A s \in SUBSET S : t[s] = u[s]
  <1> DEFINE Family == {s \in SUBSET S : t[s] # u[s]}
  <1> SUFFICES ASSUME Family # {} PROVE FALSE
    OBVIOUS
  <1>0. Family \in SUBSET (SUBSET S)
    OBVIOUS
  <1>1. PICK s \in Family : \A r \in Family : ~(r \subseteq s /\ r # s)
    <2> HIDE DEF Family
    <2> QED
      BY <1>0, MinimalSubset
  <1>2. s \in SUBSET S /\ s \in SUBSET T /\ t[s] # u[s]
    OBVIOUS
  <1>3. /\ t[s] = IF s = {} THEN 0 ELSE f[FirstOf(s)] + t[s \ {FirstOf(s)}]
        /\ u[s] = IF s = {} THEN 0 ELSE f[FirstOf(s)] + u[s \ {FirstOf(s)}]
    BY <1>2 DEF IsTable
  <1>4. CASE s = {}
    BY <1>2, <1>3, <1>4
  <1>5. CASE s # {}
    <2> DEFINE r == s \ {FirstOf(s)}
    <2>1. r \in SUBSET S /\ r \subseteq s /\ r # s
      BY <1>2, <1>5, FirstFacts
    <2>2. t[r] = u[r]
      BY <2>1, <1>1
    <2> QED
      BY <1>2, <1>3, <1>5, <2>2
  <1> QED
    BY <1>4, <1>5

\* Every finite set has a table: the recursion is well defined.
LEMMA TableExists ==
    ASSUME NEW f, NEW S, IsFiniteSet(S)
    PROVE  \E t : IsTable(f, S, t)
  <1> DEFINE Family == {T \in SUBSET S : ~\E t : IsTable(f, T, t)}
  <1> SUFFICES ASSUME Family # {} PROVE FALSE
    OBVIOUS
  <1>0. Family \in SUBSET (SUBSET S)
    OBVIOUS
  <1>1. PICK T \in Family : \A U \in Family : ~(U \subseteq T /\ U # T)
    <2> HIDE DEF Family
    <2> QED
      BY <1>0, MinimalSubset
  <1>2. T \in SUBSET S /\ ~\E t : IsTable(f, T, t)
    OBVIOUS
  <1>3. \A U \in SUBSET T : U # T => \E t : IsTable(f, U, t)
    BY <1>1, <1>2
  <1> DEFINE Old(U) == CHOOSE t : IsTable(f, U, t)
             Rest(s) == s \ {FirstOf(s)}
             g == [s \in SUBSET T |-> IF s = {} THEN 0
                                      ELSE f[FirstOf(s)] + Old(Rest(s))[Rest(s)]]
  <1>4. ASSUME NEW U \in SUBSET T, U # T PROVE IsTable(f, U, Old(U)) /\ IsFiniteSet(U)
    BY <1>3, <1>4, <1>2, FS_Subset
  <1>5. ASSUME NEW s \in SUBSET T, s # {} PROVE g[Rest(s)] = Old(Rest(s))[Rest(s)]
    <2>1. Rest(s) \in SUBSET T /\ Rest(s) # T
      BY <1>5, FirstFacts
    <2>2. IsTable(f, Rest(s), Old(Rest(s))) /\ IsFiniteSet(Rest(s))
      BY <2>1, <1>4
    <2>3. CASE Rest(s) = {}
      <3>1. g[Rest(s)] = 0
        BY <2>3
      <3>2. Old(Rest(s))[Rest(s)] = 0
        BY <2>2, <2>3 DEF IsTable
      <3> QED
        BY <3>1, <3>2
    <2>4. CASE Rest(s) # {}
      <3> DEFINE r == Rest(s)
      <3>1. Rest(r) \in SUBSET T /\ Rest(r) # T /\ Rest(r) \subseteq r
        BY <2>1, <2>4, FirstFacts
      <3>2. IsTable(f, Rest(r), Old(Rest(r))) /\ IsFiniteSet(Rest(r))
        BY <3>1, <1>4
      <3>3. Old(Rest(r))[Rest(r)] = Old(r)[Rest(r)]
        <4> HIDE DEF Old, Rest
        <4> QED
          BY <3>1, <3>2, <2>2, TablesAgree
      <3>4. Old(r)[r] = f[FirstOf(r)] + Old(r)[Rest(r)]
        <4>1. r \in SUBSET r /\ r # {}
          BY <2>4
        <4> HIDE DEF Old
        <4> QED
          BY <4>1, <2>2 DEF IsTable
      <3>5. g[r] = f[FirstOf(r)] + Old(Rest(r))[Rest(r)]
        <4> HIDE DEF Old
        <4> QED
          BY <2>1, <2>4
      <3> QED
        BY <3>3, <3>4, <3>5
    <2> QED
      BY <2>3, <2>4
  <1>6. g = [s \in SUBSET T |-> IF s = {} THEN 0 ELSE f[FirstOf(s)] + g[Rest(s)]]
    <2> HIDE DEF Old, Rest
    <2> QED
      BY <1>5
  <1>7. IsTable(f, T, g)
    <2> HIDE DEF g
    <2> QED
      BY <1>6 DEF IsTable
  <1> QED
    BY <1>2, <1>7

\* The sum over S by the element the fold takes first.
LEMMA SumStep ==
    ASSUME NEW f, NEW S, IsFiniteSet(S)
    PROVE  SumFunctionOnSet(f, S) =
             IF S = {} THEN 0 ELSE f[FirstOf(S)] + SumFunctionOnSet(f, S \ {FirstOf(S)})
  <1> DEFINE t == CHOOSE t : IsTable(f, S, t)
             R == S \ {FirstOf(S)}
             u == CHOOSE u : IsTable(f, R, u)
  <1>1. R \in SUBSET S /\ IsFiniteSet(R)
    BY FS_Subset
  <1>2. IsTable(f, S, t) /\ IsTable(f, R, u)
    BY <1>1, TableExists
  <1>3. SumFunctionOnSet(f, S) = t[S] /\ SumFunctionOnSet(f, R) = u[R]
    BY SumIsTable
  <1> HIDE DEF t, R, u
  <1>4. u[R] = t[R]
    BY <1>1, <1>2, TablesAgree
  <1>5. t[S] = IF S = {} THEN 0 ELSE f[FirstOf(S)] + t[S \ {FirstOf(S)}]
    BY <1>2 DEF IsTable
  <1> QED
    BY <1>3, <1>4, <1>5 DEF R

\* Nothing adds up to nothing.
LEMMA SumEmpty == \A f : SumFunctionOnSet(f, {}) = 0
  BY SumStep, FS_EmptySet

\* A sum of naturals is a natural.
LEMMA SumType ==
    ASSUME NEW f, NEW S, IsFiniteSet(S), \A x \in S : f[x] \in Nat
    PROVE  SumFunctionOnSet(f, S) \in Nat
  <1> DEFINE Family == {T \in SUBSET S : SumFunctionOnSet(f, T) \notin Nat}
  <1> SUFFICES ASSUME Family # {} PROVE FALSE
    OBVIOUS
  <1>0. Family \in SUBSET (SUBSET S)
    OBVIOUS
  <1>1. PICK T \in Family : \A U \in Family : ~(U \subseteq T /\ U # T)
    <2> HIDE DEF Family
    <2> QED
      BY <1>0, MinimalSubset
  <1>2. T \in SUBSET S /\ IsFiniteSet(T) /\ SumFunctionOnSet(f, T) \notin Nat
    BY FS_Subset
  <1>3. T # {}
    BY <1>2, SumEmpty
  <1>4. FirstOf(T) \in T
    BY <1>3, FirstFacts
  <1>5. SumFunctionOnSet(f, T \ {FirstOf(T)}) \in Nat
    BY <1>1, <1>2, <1>4
  <1>6. SumFunctionOnSet(f, T) = f[FirstOf(T)] + SumFunctionOnSet(f, T \ {FirstOf(T)})
    BY <1>2, <1>3, SumStep
  <1>7. f[FirstOf(T)] \in Nat
    BY <1>2, <1>4
  <1> QED
    BY <1>2, <1>5, <1>6, <1>7

\* Any element can be taken out of a sum.
LEMMA SumTake ==
    ASSUME NEW f, NEW S, IsFiniteSet(S), \A x \in S : f[x] \in Nat, NEW a \in S
    PROVE  SumFunctionOnSet(f, S) = f[a] + SumFunctionOnSet(f, S \ {a})
  <1> DEFINE Takes(T) == \A x \in T : SumFunctionOnSet(f, T) = f[x] + SumFunctionOnSet(f, T \ {x})
             Family == {T \in SUBSET S : ~Takes(T)}
  <1> SUFFICES ASSUME Family # {} PROVE FALSE
    OBVIOUS
  <1>0. Family \in SUBSET (SUBSET S)
    OBVIOUS
  <1>1. PICK T \in Family : \A U \in Family : ~(U \subseteq T /\ U # T)
    <2> HIDE DEF Family
    <2> QED
      BY <1>0, MinimalSubset
  <1>2. T \in SUBSET S /\ IsFiniteSet(T) /\ ~Takes(T)
    BY FS_Subset
  <1>3. PICK x \in T : SumFunctionOnSet(f, T) # f[x] + SumFunctionOnSet(f, T \ {x})
    BY <1>2
  <1>4. /\ FirstOf(T) \in T
        /\ SumFunctionOnSet(f, T) = f[FirstOf(T)] + SumFunctionOnSet(f, T \ {FirstOf(T)})
    BY <1>2, <1>3, FirstFacts, SumStep
  <1>5. x # FirstOf(T)
    BY <1>3, <1>4
  <1> DEFINE A == T \ {FirstOf(T)}
             B == T \ {x}
             C == A \ {x}
  <1>6. /\ A \in SUBSET S /\ B \in SUBSET S /\ C \in SUBSET S
        /\ A \subseteq T /\ A # T /\ B \subseteq T /\ B # T
        /\ x \in A /\ FirstOf(T) \in B /\ C = B \ {FirstOf(T)}
    BY <1>2, <1>4, <1>5
  <1>7. Takes(A) /\ Takes(B)
    <2> HIDE DEF A, B, Takes
    <2> QED
      BY <1>1, <1>6
  <1>8. SumFunctionOnSet(f, A) = f[x] + SumFunctionOnSet(f, C)
    BY <1>6, <1>7
  <1>9. SumFunctionOnSet(f, B) = f[FirstOf(T)] + SumFunctionOnSet(f, C)
    <2> HIDE DEF B, C
    <2> QED
      BY <1>6, <1>7
  <1>10. IsFiniteSet(C) /\ SumFunctionOnSet(f, C) \in Nat
    BY <1>6, FS_Subset, SumType
  <1>11. f[x] \in Nat /\ f[FirstOf(T)] \in Nat
    BY <1>2, <1>3, <1>4
  <1>12. SumFunctionOnSet(f, T) # f[x] + SumFunctionOnSet(f, B)
         /\ SumFunctionOnSet(f, T) = f[FirstOf(T)] + SumFunctionOnSet(f, A)
    BY <1>3, <1>4
  <1> HIDE DEF A, B, C
  <1> QED
    BY <1>8, <1>9, <1>10, <1>11, <1>12

\* Functions that agree on S have the same sum over S.
LEMMA SumAgree ==
    ASSUME NEW f, NEW g, NEW S, IsFiniteSet(S), \A x \in S : f[x] = g[x]
    PROVE  SumFunctionOnSet(f, S) = SumFunctionOnSet(g, S)
  <1> DEFINE Family == {T \in SUBSET S : SumFunctionOnSet(f, T) # SumFunctionOnSet(g, T)}
  <1> SUFFICES ASSUME Family # {} PROVE FALSE
    OBVIOUS
  <1>0. Family \in SUBSET (SUBSET S)
    OBVIOUS
  <1>1. PICK T \in Family : \A U \in Family : ~(U \subseteq T /\ U # T)
    <2> HIDE DEF Family
    <2> QED
      BY <1>0, MinimalSubset
  <1>2. T \in SUBSET S /\ IsFiniteSet(T) /\ SumFunctionOnSet(f, T) # SumFunctionOnSet(g, T)
    BY FS_Subset
  <1>3. T # {}
    BY <1>2, SumEmpty
  <1>4. FirstOf(T) \in T
    BY <1>3, FirstFacts
  <1>5. SumFunctionOnSet(f, T \ {FirstOf(T)}) = SumFunctionOnSet(g, T \ {FirstOf(T)})
    BY <1>1, <1>2, <1>4
  <1>6. /\ SumFunctionOnSet(f, T) = f[FirstOf(T)] + SumFunctionOnSet(f, T \ {FirstOf(T)})
        /\ SumFunctionOnSet(g, T) = g[FirstOf(T)] + SumFunctionOnSet(g, T \ {FirstOf(T)})
    BY <1>2, <1>3, SumStep
  <1> QED
    BY <1>2, <1>4, <1>5, <1>6

\* Changing a function at one point changes its sum by the same amount.
LEMMA SumChange ==
    ASSUME NEW f, NEW g, NEW S, IsFiniteSet(S),
           \A x \in S : f[x] \in Nat /\ g[x] \in Nat,
           NEW a \in S, \A x \in S : x # a => g[x] = f[x]
    PROVE  SumFunctionOnSet(g, S) + f[a] = SumFunctionOnSet(f, S) + g[a]
  <1>1. IsFiniteSet(S \ {a})
    BY FS_Subset
  <1>2. SumFunctionOnSet(f, S \ {a}) = SumFunctionOnSet(g, S \ {a})
    BY <1>1, SumAgree
  <1>3. /\ SumFunctionOnSet(f, S) = f[a] + SumFunctionOnSet(f, S \ {a})
        /\ SumFunctionOnSet(g, S) = g[a] + SumFunctionOnSet(g, S \ {a})
    BY SumTake
  <1>4. SumFunctionOnSet(f, S \ {a}) \in Nat
    BY <1>1, SumType
  <1> QED
    BY <1>2, <1>3, <1>4

\* A sum of zeros is zero.
LEMMA SumZero ==
    ASSUME NEW f, NEW S, IsFiniteSet(S), \A x \in S : f[x] = 0
    PROVE  SumFunctionOnSet(f, S) = 0
  <1> DEFINE Family == {T \in SUBSET S : SumFunctionOnSet(f, T) # 0}
  <1> SUFFICES ASSUME Family # {} PROVE FALSE
    OBVIOUS
  <1>0. Family \in SUBSET (SUBSET S)
    OBVIOUS
  <1>1. PICK T \in Family : \A U \in Family : ~(U \subseteq T /\ U # T)
    <2> HIDE DEF Family
    <2> QED
      BY <1>0, MinimalSubset
  <1>2. T \in SUBSET S /\ IsFiniteSet(T) /\ SumFunctionOnSet(f, T) # 0
    BY FS_Subset
  <1>3. T # {}
    BY <1>2, SumEmpty
  <1>4. FirstOf(T) \in T
    BY <1>3, FirstFacts
  <1>5. SumFunctionOnSet(f, T \ {FirstOf(T)}) = 0
    BY <1>1, <1>2, <1>4
  <1>6. SumFunctionOnSet(f, T) = f[FirstOf(T)] + SumFunctionOnSet(f, T \ {FirstOf(T)})
    BY <1>2, <1>3, SumStep
  <1>7. f[FirstOf(T)] = 0
    BY <1>2, <1>4
  <1> QED
    BY <1>2, <1>5, <1>6, <1>7

----------------------------------------------------------------------------
(* The accounts as one ledger.                                             *)

\* The sum of a function is the sum over its domain.
LEMMA SumWhole == \A f : SumFunction(f) = SumFunctionOnSet(f, DOMAIN f)
  BY DEF SumFunction

\* A balance sheet after a debit and after a credit.
LEMMA DebitSum ==
    ASSUME NEW b \in [Accounts -> Nat], NEW k \in Accounts, NEW n \in Nat, b[k] >= n,
           IsFiniteSet(Accounts)
    PROVE  SumFunction(Debit(b, k, n)) + n = SumFunction(b) /\ SumFunction(b) \in Nat
  <1> DEFINE d == Debit(b, k, n)
  <1>1. /\ d \in [Accounts -> Nat]
        /\ \A j \in Accounts : d[j] = IF j = k THEN b[j] - n ELSE b[j]
    BY DebitFacts
  <1> HIDE DEF d
  <1>2. \A x \in Accounts : b[x] \in Nat /\ d[x] \in Nat
    BY <1>1
  <1>3. \A x \in Accounts : x # k => d[x] = b[x]
    BY <1>1
  <1>4. SumFunctionOnSet(d, Accounts) + b[k] = SumFunctionOnSet(b, Accounts) + d[k]
    BY <1>2, <1>3, SumChange
  <1>5. SumFunctionOnSet(d, Accounts) \in Nat /\ SumFunctionOnSet(b, Accounts) \in Nat
    BY <1>2, SumType
  <1>6. d[k] = b[k] - n /\ b[k] \in Nat
    BY <1>1
  <1>7. DOMAIN d = Accounts /\ DOMAIN b = Accounts
    BY <1>1
  <1>8. SumFunction(d) = SumFunctionOnSet(d, Accounts)
        /\ SumFunction(b) = SumFunctionOnSet(b, Accounts)
    BY <1>7, SumWhole
  <1>9. SumFunction(d) + n = SumFunction(b) /\ SumFunction(b) \in Nat
    BY <1>4, <1>5, <1>6, <1>8
  <1> QED
    BY <1>9 DEF d

\* What is credited is added to the total.
LEMMA CreditSum ==
    ASSUME NEW b \in [Accounts -> Nat], NEW k \in Accounts, NEW n \in Nat,
           IsFiniteSet(Accounts)
    PROVE  SumFunction(Credit(b, k, n)) = SumFunction(b) + n /\ SumFunction(b) \in Nat
  <1> DEFINE c == Credit(b, k, n)
  <1>1. /\ c \in [Accounts -> Nat]
        /\ \A j \in Accounts : c[j] = IF j = k THEN b[j] + n ELSE b[j]
    BY CreditFacts
  <1> HIDE DEF c
  <1>2. \A x \in Accounts : b[x] \in Nat /\ c[x] \in Nat
    BY <1>1
  <1>3. \A x \in Accounts : x # k => c[x] = b[x]
    BY <1>1
  <1>4. SumFunctionOnSet(c, Accounts) + b[k] = SumFunctionOnSet(b, Accounts) + c[k]
    BY <1>2, <1>3, SumChange
  <1>5. SumFunctionOnSet(c, Accounts) \in Nat /\ SumFunctionOnSet(b, Accounts) \in Nat
    BY <1>2, SumType
  <1>6. c[k] = b[k] + n /\ b[k] \in Nat
    BY <1>1
  <1>7. DOMAIN c = Accounts /\ DOMAIN b = Accounts
    BY <1>1
  <1>8. SumFunction(c) = SumFunctionOnSet(c, Accounts)
        /\ SumFunction(b) = SumFunctionOnSet(b, Accounts)
    BY <1>7, SumWhole
  <1>9. SumFunction(c) = SumFunction(b) + n /\ SumFunction(b) \in Nat
    BY <1>4, <1>5, <1>6, <1>8
  <1> QED
    BY <1>9 DEF c

\* There are finitely many accounts.
LEMMA FiniteAccounts == IsFiniteSet(Accounts)
  <1> DEFINE pdas == {Pda(o) : o \in Owners}
             f == [o \in Owners |-> Pda(o)]
  <1>1. f \in Surjection(Owners, pdas)
    BY DEF Surjection
  <1>2. IsFiniteSet(pdas)
    BY <1>1, FiniteAssumption, FS_Surjection
  <1> HIDE DEF pdas
  <1>3. IsFiniteSet(Owners \cup Hardware)
    BY FiniteAssumption, FS_Union
  <1>4. IsFiniteSet((Owners \cup Hardware) \cup Providers)
    BY <1>3, FiniteAssumption, FS_Union
  <1>5. IsFiniteSet(((Owners \cup Hardware) \cup Providers) \cup pdas)
    BY <1>2, <1>4, FS_Union
  <1> QED
    BY <1>5 DEF Accounts, pdas

\* The inductive invariant of the ledger: conservation, and finitely many logs.
Books == IsFiniteSet(logs) /\ LamportsConserved

\* The program starts with the endowment and nothing locked.
LEMMA BooksInit == Init => Books
  <1> SUFFICES ASSUME Init PROVE Books
    OBVIOUS
  <1>1. lamports = Endowment /\ records = {} /\ logs = {}
    BY DEF Init
  <1>2. Cardinality(records) = 0 /\ Cardinality(logs) = 0 /\ IsFiniteSet(logs)
    BY <1>1, FS_EmptySet
  <1>3. SumFunctionOnSet(Endowment, Accounts) \in Nat
    BY InputsAssumption, FiniteAccounts, SumType
  <1>4. SumFunction(lamports) \in Nat /\ SumFunction(lamports) = SumFunction(Endowment)
    BY <1>1, <1>3, SumWhole, InputsAssumption
  <1>5. RecordRent * 0 = 0 /\ LogRent * 0 = 0
    BY BoundsAssumption
  <1> QED
    BY <1>2, <1>4, <1>5 DEF Books, LamportsConserved

\* A step moves lamports between accounts, or from an account into the rent
\* of one new record or one new log.
LEMMA BooksBalance ==
    ASSUME IInv, Books, NEW inRecord \in {0, 1}, NEW inLog \in {0, 1},
           SumFunction(lamports') + RecordRent * inRecord + LogRent * inLog
             = SumFunction(lamports),
           SumFunction(lamports') \in Nat,
           Cardinality(records') = Cardinality(records) + inRecord,
           IsFiniteSet(logs'), Cardinality(logs') = Cardinality(logs) + inLog
    PROVE  Books'
  <1>1. IsFiniteSet(records) /\ IsFiniteSet(logs)
    BY FiniteAssumption, FS_Subset DEF IInv, TypeOK, Books
  <1>2. /\ Cardinality(records) \in Nat /\ Cardinality(logs) \in Nat
        /\ RecordRent \in Nat /\ LogRent \in Nat
    BY <1>1, FS_CardinalityType, BoundsAssumption
  <1> DEFINE r == Cardinality(records)
             l == Cardinality(logs)
             s == SumFunction(lamports)
             t == SumFunction(lamports')
             e == SumFunction(Endowment)
  <1>3. s + RecordRent * r + LogRent * l = e
    BY DEF Books, LamportsConserved
  <1>4. t + RecordRent * inRecord + LogRent * inLog = s /\ t \in Nat
    OBVIOUS
  <1>5. r \in Nat /\ l \in Nat
    BY <1>2
  <1> HIDE DEF r, l, s, t, e
  <1>6. /\ RecordRent * (r + inRecord) = RecordRent * r + RecordRent * inRecord
        /\ LogRent * (l + inLog) = LogRent * l + LogRent * inLog
    BY <1>2, <1>5
  <1>7. /\ RecordRent * r \in Nat /\ RecordRent * inRecord \in Nat
        /\ LogRent * l \in Nat /\ LogRent * inLog \in Nat
    BY <1>2, <1>5
  <1>8. t + RecordRent * (r + inRecord) + LogRent * (l + inLog) = e
    BY <1>3, <1>4, <1>6, <1>7
  <1> QED
    BY <1>8 DEF Books, LamportsConserved, r, l, s, t, e

\* A transfer between two accounts changes no total.
LEMMA MoveSum ==
    ASSUME NEW b \in [Accounts -> Nat], NEW j \in Accounts, NEW k \in Accounts,
           NEW n \in Nat, b[j] >= n
    PROVE  /\ SumFunction(Credit(Debit(b, j, n), k, n)) = SumFunction(b)
           /\ SumFunction(b) \in Nat
  <1> DEFINE d == Debit(b, j, n)
  <1>1. d \in [Accounts -> Nat]
    BY DebitFacts
  <1>2. SumFunction(d) + n = SumFunction(b) /\ SumFunction(b) \in Nat
    BY FiniteAccounts, DebitSum
  <1> HIDE DEF d
  <1>3. SumFunction(Credit(d, k, n)) = SumFunction(d) + n /\ SumFunction(d) \in Nat
    BY <1>1, FiniteAccounts, CreditSum
  <1>4. SumFunction(Credit(d, k, n)) = SumFunction(b) /\ SumFunction(b) \in Nat
    BY <1>2, <1>3
  <1> QED
    BY <1>4 DEF d

\* The same balances, records and logs are the same books.
LEMMA BooksKept ==
    ASSUME IInv, Books, SumFunction(lamports') = SumFunction(lamports),
           SumFunction(lamports) \in Nat, UNCHANGED <<records, logs>>
    PROVE  Books'
  <1>1. records' = records /\ logs' = logs
    OBVIOUS
  <1>2. SumFunction(lamports') + RecordRent * Cardinality(records') + LogRent * Cardinality(logs')
        = SumFunction(Endowment)
    BY <1>1 DEF Books, LamportsConserved
  <1> QED
    BY <1>1, <1>2 DEF Books, LamportsConserved

\* Registering an agent moves lamports from its owner to its PDA.
LEMMA BooksInitialize ==
    ASSUME IInv, Books, NEW o \in Owners, NEW h \in Hardware, NEW b \in Budgets,
           InitializeAgent(o, h, b)
    PROVE  Books'
  <1> DEFINE n == InitFee(o) + b
  <1>1. /\ lamports \in [Accounts -> Nat] /\ o \in Accounts /\ Pda(o) \in Accounts
        /\ n \in Nat /\ lamports[o] >= n
    <2>1. /\ lamports \in [Accounts -> Nat] /\ o \in Accounts /\ Pda(o) \in Accounts
          /\ b \in Nat /\ AgentRent \in Nat
      BY BoundsAssumption, InputsAssumption, PdaFacts DEF IInv, TypeOK, Accounts
    <2>2. InitFee(o) \in Nat
      BY <2>1 DEF InitFee
    <2> QED
      BY <2>1, <2>2 DEF InitializeAgent
  <1>2. /\ lamports' = Credit(Debit(lamports, o, n), Pda(o), n)
        /\ UNCHANGED <<records, logs>>
    BY DEF InitializeAgent
  <1> HIDE DEF n
  <1> QED
    BY <1>1, <1>2, MoveSum, BooksKept

\* So does a plain transfer.
LEMMA BooksTransfer ==
    ASSUME IInv, Books, NEW o \in Owners, NEW k \in Recipients, Transfer(o, k)
    PROVE  Books'
  <1>1. /\ lamports \in [Accounts -> Nat] /\ LogRent \in Nat /\ k \in Accounts
        /\ o \in Accounts /\ lamports[o] >= LogRent
        /\ lamports' = Credit(Debit(lamports, o, LogRent), k, LogRent)
        /\ UNCHANGED <<records, logs>>
    BY BoundsAssumption, InputsAssumption DEF Transfer, IInv, TypeOK, Accounts
  <1> QED
    BY <1>1, MoveSum, BooksKept

\* A log's rent leaves the hardware wallet.
LEMMA BooksLog ==
    ASSUME IInv, Books, NEW o \in Owners, NEW sub \in SubIndexes, NEW d \in Hashes,
           NEW v \in Severities, LogComplianceEvent(o, sub, d, v)
    PROVE  Books'
  <1> DEFINE h == agent[o].hardware
             new == [agent |-> o, slot |-> slot, sub |-> sub, hash |-> d, severity |-> v]
  <1>1. o \in Registered
    BY DEF LogComplianceEvent
  <1>2. /\ h \in Accounts /\ lamports \in [Accounts -> Nat]
        /\ LogRent \in Nat /\ lamports[h] >= LogRent
        /\ lamports' = Debit(lamports, h, LogRent) /\ records' = records
    BY <1>1, AgentFacts, BoundsAssumption DEF Accounts, LogComplianceEvent, RentCovered
  <1>3. logs' = logs \cup {new} /\ new \notin logs
    BY DEF LogComplianceEvent, Unclaimed, LogsAt
  <1> HIDE DEF h, new
  <1>4. IsFiniteSet(logs') /\ Cardinality(logs') = Cardinality(logs) + 1
    BY <1>3, FS_AddElement DEF Books
  <1>5. /\ SumFunction(lamports') + LogRent = SumFunction(lamports)
        /\ SumFunction(lamports') \in Nat
    <2>1. lamports' \in [Accounts -> Nat]
      BY <1>2, DebitFacts
    <2>2. SumFunction(lamports') \in Nat
      BY <2>1, FiniteAccounts, SumType, SumWhole
    <2> QED
      BY <1>2, <2>2, FiniteAccounts, DebitSum
  <1>6. IsFiniteSet(records) /\ Cardinality(records) \in Nat
    BY FiniteAssumption, FS_Subset, FS_CardinalityType DEF IInv, TypeOK
  <1>7. Cardinality(records') = Cardinality(records) + 0
    BY <1>2, <1>6
  <1>8. SumFunction(lamports') + RecordRent * 0 + LogRent * 1 = SumFunction(lamports)
    BY <1>2, <1>5, BoundsAssumption
  <1> QED
    BY <1>4, <1>5, <1>7, <1>8, BooksBalance

\* A payment locks the rent of a record that is not there yet.
LEMMA BooksPayment ==
    ASSUME IInv, Books, NEW o \in Owners, NEW p \in Providers, NEW n \in Amounts,
           StreamComputePayment(o, p, n)
    PROVE  Books'
  <1> DEFINE h == agent[o].hardware
             fee == RecordFee(p)
             funded == Debit(lamports, h, fee)
  <1>1. o \in Registered
    BY DEF StreamComputePayment
  <1>2. /\ h \in Hardware /\ h \in Accounts /\ lamports \in [Accounts -> Nat]
        /\ agent[o] \in AgentAccount /\ slot \in Nat
        /\ n \in Nat /\ RecordRent \in Nat /\ fee \in Nat
        /\ p \in Accounts /\ Pda(o) \in Accounts
    BY <1>1, AgentFacts, BoundsAssumption, InputsAssumption, PdaFacts
       DEF Accounts, RecordFee, IInv, TypeOK
  <1>3. Rolled(agent[o]).hardware = h
    BY <1>2, AccountFacts
  <1>4. /\ lamports[h] >= fee /\ funded[Pda(o)] >= n
        /\ lamports' = Credit(Debit(funded, Pda(o), n), p, n)
        /\ records' = records \cup {p} /\ logs' = logs
    BY <1>2, <1>3 DEF StreamComputePayment, Paid
  <1>5. /\ funded \in [Accounts -> Nat]
        /\ SumFunction(funded) + fee = SumFunction(lamports)
    BY <1>2, <1>4, DebitFacts, FiniteAccounts, DebitSum
  <1>6. IsFiniteSet(records) /\ Cardinality(records) \in Nat
    BY FiniteAssumption, FS_Subset, FS_CardinalityType DEF IInv, TypeOK
  <1>7. IsFiniteSet(logs') /\ Cardinality(logs') = Cardinality(logs) + 0
    BY <1>4, FS_CardinalityType DEF Books
  <1>8. fee = IF p \in records THEN 0 ELSE RecordRent
    BY DEF RecordFee
  <1> HIDE DEF h, fee, funded
  <1>9. SumFunction(lamports') = SumFunction(funded) /\ SumFunction(lamports') \in Nat
    BY <1>2, <1>4, <1>5, MoveSum
  <1>10. SumFunction(lamports') + fee = SumFunction(lamports)
    BY <1>5, <1>9
  <1>11. CASE p \in records
    <2>1. Cardinality(records') = Cardinality(records) + 0
      <3>1. records' = records
        BY <1>4, <1>11
      <3> QED
        BY <1>6, <3>1
    <2>2. SumFunction(lamports') + RecordRent * 0 + LogRent * 0 = SumFunction(lamports)
      BY <1>8, <1>9, <1>10, <1>11, BoundsAssumption
    <2> QED
      BY <1>7, <1>9, <2>1, <2>2, BooksBalance
  <1>12. CASE p \notin records
    <2>1. Cardinality(records') = Cardinality(records) + 1
      BY <1>4, <1>6, <1>12, FS_AddElement
    <2>2. SumFunction(lamports') + RecordRent * 1 + LogRent * 0 = SumFunction(lamports)
      BY <1>2, <1>8, <1>9, <1>10, <1>12, BoundsAssumption
    <2> QED
      BY <1>7, <1>9, <2>1, <2>2, BooksBalance
  <1> QED
    BY <1>11, <1>12

\* Every instruction keeps the books.
LEMMA BooksStep == IInv /\ Books /\ [Next]_vars => Books'
  <1> SUFFICES ASSUME IInv, Books, [Next]_vars PROVE Books'
    OBVIOUS
  <1>1. CASE \E o \in Owners, h \in Hardware, b \in Budgets : InitializeAgent(o, h, b)
    BY <1>1, BooksInitialize
  <1>2. CASE \E o \in Owners : UpdateProviderWhitelist(o)
    BY <1>2, WhitelistStep DEF Books, LamportsConserved
  <1>3. CASE \E o \in Owners, p \in Providers, n \in Amounts : StreamComputePayment(o, p, n)
    BY <1>3, BooksPayment
  <1>4. CASE \E o \in Owners, s \in SubIndexes, d \in Hashes, v \in Severities :
               LogComplianceEvent(o, s, d, v)
    BY <1>4, BooksLog
  <1>5. CASE AdvanceSlot
    BY <1>5 DEF AdvanceSlot, Books, LamportsConserved
  <1>6. CASE \E o \in Owners, k \in Recipients : Transfer(o, k)
    BY <1>6, BooksTransfer
  <1>7. CASE UNCHANGED vars
    BY <1>7 DEF vars, Books, LamportsConserved
  <1> QED
    BY <1>1, <1>2, <1>3, <1>4, <1>5, <1>6, <1>7 DEF Next

\* No instruction creates or destroys lamports, for every number of agents,
\* also when a provider is an agent's own PDA or the wallet that pays for the
\* record, and whatever the owners transfer in between.
THEOREM LamportsNeverCreated == Spec => []LamportsConserved
  BY Invariance, BooksInit, BooksStep, PTL DEF Spec, Books

----------------------------------------------------------------------------
(* What was spent is what was received.                                    *)

SpentBy == [o \in Owners |-> Spent(o)]

\* Spending and receipts are amounts.
LEMMA SpentFacts ==
    ASSUME IInv
    PROVE  /\ SpentBy \in [Owners -> Nat] /\ received \in [Providers -> Nat]
           /\ SumFunction(SpentBy) \in Nat /\ SumFunction(received) \in Nat
           /\ SumFunction(SpentBy) = SumFunctionOnSet(SpentBy, Owners)
           /\ SumFunction(received) = SumFunctionOnSet(received, Providers)
  <1>1. \A o \in Owners : Spent(o) \in Nat
    BY AgentFacts DEF Spent
  <1>2. SpentBy \in [Owners -> Nat] /\ received \in [Providers -> Nat]
    BY <1>1 DEF SpentBy, IInv, TypeOK
  <1>3. /\ SumFunction(SpentBy) = SumFunctionOnSet(SpentBy, Owners)
        /\ SumFunction(received) = SumFunctionOnSet(received, Providers)
    BY <1>2, SumWhole
  <1>4. /\ SumFunctionOnSet(SpentBy, Owners) \in Nat
        /\ SumFunctionOnSet(received, Providers) \in Nat
    BY <1>2, FiniteAssumption, SumType
  <1> QED
    BY <1>2, <1>3, <1>4

\* Nobody has spent or received anything at the start.
LEMMA ReceiptsInit == Init => ReceiptsMatchSpending
  <1> SUFFICES ASSUME Init PROVE ReceiptsMatchSpending
    OBVIOUS
  <1>1. /\ \A o \in Owners : SpentBy[o] = 0
        /\ \A p \in Providers : received[p] = 0
        /\ DOMAIN SpentBy = Owners /\ DOMAIN received = Providers
    BY DEF Init, SpentBy, Spent, Registered
  <1>2. IsFiniteSet(Owners) /\ IsFiniteSet(Providers)
    BY FiniteAssumption
  <1>3. SumFunctionOnSet(SpentBy, Owners) = 0
    BY <1>1, <1>2, SumZero
  <1>4. SumFunctionOnSet(received, Providers) = 0
    BY <1>1, <1>2, SumZero
  <1> QED
    BY <1>1, <1>3, <1>4, SumWhole DEF ReceiptsMatchSpending, SpentBy

\* Only a payment moves spending and receipts, and only a payment or the clock
\* moves the count of an epoch's draws.
Quiet ==
    /\ slot' = slot /\ received' = received
    /\ \A q \in Owners : Spent(q)' = Spent(q) /\ DrawsNow(q)' = DrawsNow(q)

\* Accounts whose spending and window stay as they are.
LEMMA QuietAgent ==
    ASSUME IInv, IInv', slot' = slot, received' = received,
           Registered \subseteq Registered',
           \A q \in Registered : /\ agent'[q].spent = agent[q].spent
                                 /\ agent'[q].start = agent[q].start
                                 /\ agent'[q].txs = agent[q].txs,
           \A q \in Registered' \ Registered :
              agent'[q].spent = 0 /\ agent'[q].txs = 0
    PROVE  Quiet
  <1>1. ASSUME NEW q \in Owners PROVE Spent(q)' = Spent(q)
    BY DEF Spent
  <1>2. ASSUME NEW q \in Owners PROVE DrawsNow(q)' = DrawsNow(q)
    BY DEF DrawsNow, Epoch
  <1> QED
    BY <1>1, <1>2 DEF Quiet

\* Every other instruction is quiet.
LEMMA QuietStep ==
    ASSUME IInv, IInv', [Next]_vars
    PROVE  \/ Quiet
           \/ AdvanceSlot
           \/ \E o \in Owners, p \in Providers, n \in Amounts : StreamComputePayment(o, p, n)
  <1>1. CASE \E o \in Owners, h \in Hardware, b \in Budgets : InitializeAgent(o, h, b)
    <2>1. PICK o \in Owners, h \in Hardware, b \in Budgets : InitializeAgent(o, h, b)
      BY <1>1
    <2> DEFINE fresh == [hardware |-> h, budget |-> b, spent |-> 0,
                         providers |-> <<>>, start |-> 0, txs |-> 0]
    <2>2. /\ agent[o] = Unregistered /\ received' = received /\ slot' = slot
          /\ agent' = [agent EXCEPT ![o] = fresh]
          /\ agent \in [Owners -> AgentAccount \cup {Unregistered}]
      BY <2>1 DEF InitializeAgent, IInv, TypeOK
    <2>3. fresh.spent = 0 /\ fresh.txs = 0
      OBVIOUS
    <2> HIDE DEF fresh
    <2>4. agent'[o] = fresh /\ \A q \in Owners : q # o => agent'[q] = agent[q]
      BY <2>2
    <2>5. o \notin Registered /\ Registered \subseteq Registered' /\ Registered' \subseteq Registered \cup {o}
      BY <2>2, <2>4 DEF Registered
    <2>6. \A q \in Registered : agent'[q] = agent[q]
      BY <2>4, <2>5 DEF Registered
    <2> QED
      BY <2>2, <2>3, <2>4, <2>5, <2>6, QuietAgent
  <1>2. CASE \E o \in Owners : UpdateProviderWhitelist(o)
    <2>1. PICK o \in Owners : UpdateProviderWhitelist(o)
      BY <1>2
    <2>2. o \in Registered /\ received' = received /\ slot' = slot
      BY <2>1, WhitelistStep
    <2>3. PICK list \in Seq(Providers) :
            agent' = [agent EXCEPT ![o] = [agent[o] EXCEPT !.providers = list]]
      BY <2>1, WhitelistStep
    <2> DEFINE a == [agent[o] EXCEPT !.providers = list]
    <2>4. /\ a.spent = agent[o].spent /\ a.start = agent[o].start /\ a.txs = agent[o].txs
          /\ a \in AgentAccount
      BY <2>2, AgentFacts DEF AgentAccount
    <2> HIDE DEF a
    <2>5. agent'[o] = a /\ \A q \in Owners : q # o => agent'[q] = agent[q]
      BY <2>2, <2>3, AgentFacts DEF a, IInv, TypeOK
    <2>6. Registered' = Registered
      BY <2>2, <2>4, <2>5, UnregisteredAssumption DEF Registered
    <2>7. \A q \in Registered : /\ agent'[q].spent = agent[q].spent
                                /\ agent'[q].start = agent[q].start
                                /\ agent'[q].txs = agent[q].txs
      BY <2>4, <2>5 DEF Registered
    <2> QED
      BY <2>2, <2>6, <2>7, QuietAgent
  <1>3. CASE UNCHANGED <<slot, agent, received>>
    BY <1>3, QuietAgent DEF Registered
  <1> QED
    BY <1>1, <1>2, <1>3 DEF Next, LogComplianceEvent, Transfer, vars

\* A payment adds the same amount to both sides.
LEMMA ReceiptsPayment ==
    ASSUME IInv, IInv', ReceiptsMatchSpending,
           NEW o \in Owners, NEW p \in Providers, NEW n \in Amounts,
           StreamComputePayment(o, p, n)
    PROVE  ReceiptsMatchSpending'
  <1>1. o \in Registered /\ n \in Nat
    BY InputsAssumption DEF StreamComputePayment
  <1>2. /\ Registered' = Registered /\ agent'[o].spent = agent[o].spent + n
        /\ \A q \in Owners : q # o => agent'[q] = agent[q]
    BY <1>1, PaymentAccount
  <1>3. /\ SpentBy'[o] = SpentBy[o] + n
        /\ \A q \in Owners : q # o => SpentBy'[q] = SpentBy[q]
    BY <1>1, <1>2 DEF SpentBy, Spent
  <1>4. /\ received' = [received EXCEPT ![p] = received[p] + n]
        /\ received \in [Providers -> Nat]
    BY DEF StreamComputePayment, TotalReceived, IInv, TypeOK
  <1>5. /\ received'[p] = received[p] + n
        /\ \A q \in Providers : q # p => received'[q] = received[q]
    BY <1>4
  <1>6. SpentBy \in [Owners -> Nat] /\ received \in [Providers -> Nat]
    BY SpentFacts
  <1> DEFINE s == SpentBy
             t == SpentBy'
             r == received
             u == received'
  <1>7. /\ \A q \in Owners : s[q] \in Nat /\ t[q] \in Nat
        /\ \A q \in Owners : q # o => t[q] = s[q]
        /\ t[o] = s[o] + n /\ DOMAIN t = Owners
    BY <1>1, <1>3, <1>6 DEF SpentBy
  <1>8. /\ \A q \in Providers : r[q] \in Nat /\ u[q] \in Nat
        /\ \A q \in Providers : q # p => u[q] = r[q]
        /\ u[p] = r[p] + n /\ DOMAIN u = Providers
    BY <1>1, <1>4, <1>5
  <1>9. /\ SumFunction(s) = SumFunction(r)
        /\ SumFunction(s) = SumFunctionOnSet(s, Owners)
        /\ SumFunction(r) = SumFunctionOnSet(r, Providers)
    BY SpentFacts DEF ReceiptsMatchSpending, SpentBy
  <1>10. ReceiptsMatchSpending' <=> SumFunction(t) = SumFunction(u)
    BY DEF ReceiptsMatchSpending, SpentBy
  <1>11. IsFiniteSet(Owners) /\ IsFiniteSet(Providers)
    BY FiniteAssumption
  <1> HIDE DEF s, t, r, u
  <1>12. SumFunctionOnSet(t, Owners) + s[o] = SumFunctionOnSet(s, Owners) + t[o]
    BY <1>7, <1>11, SumChange
  <1>13. SumFunctionOnSet(u, Providers) + r[p] = SumFunctionOnSet(r, Providers) + u[p]
    BY <1>8, <1>11, SumChange
  <1>14. /\ SumFunctionOnSet(t, Owners) \in Nat /\ SumFunctionOnSet(u, Providers) \in Nat
         /\ SumFunctionOnSet(s, Owners) \in Nat /\ SumFunctionOnSet(r, Providers) \in Nat
    BY <1>7, <1>8, <1>11, SumType
  <1>15. SumFunctionOnSet(t, Owners) = SumFunctionOnSet(u, Providers)
    <2> DEFINE a == SumFunctionOnSet(t, Owners)
               b == SumFunctionOnSet(s, Owners)
               c == SumFunctionOnSet(u, Providers)
               d == SumFunctionOnSet(r, Providers)
    <2>1. /\ s[o] \in Nat /\ t[o] = s[o] + n /\ n \in Nat
          /\ r[p] \in Nat /\ u[p] = r[p] + n
      BY <1>1, <1>7, <1>8
    <2>2. /\ a + s[o] = b + t[o] /\ c + r[p] = d + u[p] /\ b = d
          /\ a \in Nat /\ b \in Nat /\ c \in Nat /\ d \in Nat
      BY <1>9, <1>12, <1>13, <1>14
    <2> HIDE DEF a, b, c, d
    <2>3. a = c
      BY <2>1, <2>2
    <2> QED
      BY <2>3 DEF a, c
  <1> QED
    BY <1>7, <1>8, <1>10, <1>15, SumWhole

\* Every step keeps spending and receipts equal.
LEMMA ReceiptsStep ==
    IInv /\ IInv' /\ ReceiptsMatchSpending /\ [Next]_vars => ReceiptsMatchSpending'
  <1> SUFFICES ASSUME IInv, IInv', ReceiptsMatchSpending, [Next]_vars
               PROVE  ReceiptsMatchSpending'
    OBVIOUS
  <1>1. CASE \E o \in Owners, p \in Providers, n \in Amounts : StreamComputePayment(o, p, n)
    BY <1>1, ReceiptsPayment
  <1>2. CASE Quiet
    BY <1>2 DEF Quiet, ReceiptsMatchSpending
  <1>3. CASE AdvanceSlot
    BY <1>3 DEF AdvanceSlot, ReceiptsMatchSpending, Spent, Registered
  <1> QED
    BY <1>1, <1>2, <1>3, QuietStep

\* What all agents have spent is what all providers, and the records the
\* agents share, have been paid, for every number of agents and providers.
THEOREM ReceiptsCorrect == Spec => []ReceiptsMatchSpending
  BY Invariance, ReceiptsInit, ReceiptsStep, PTL DEF Spec

----------------------------------------------------------------------------
(* The payments of an epoch.                                               *)

\* The inductive invariant of the history: nothing is in the future, and the
\* payments of the present epoch are the draws the stored window stands for.
History ==
    /\ txAt \in [Owners -> [0..MaxSlot -> Nat]] /\ slot \in 0..MaxSlot
    /\ \A o \in Owners, s \in 0..MaxSlot : s > slot => txAt[o][s] = 0
    /\ \A o \in Owners : TxsIn(o, EpochSlots(Epoch(slot))) = DrawsNow(o)
    /\ EpochRateLimit

\* An epoch has finitely many slots.
LEMMA EpochSlotsFacts ==
    \A e : /\ EpochSlots(e) \in SUBSET (0..MaxSlot) /\ IsFiniteSet(EpochSlots(e))
           /\ EpochSlots(e) \cap 0..MaxSlot = EpochSlots(e)
  <1>1. IsFiniteSet(0..MaxSlot)
    BY FS_Interval, BoundsAssumption
  <1>2. \A e : EpochSlots(e) \in SUBSET (0..MaxSlot)
    BY DEF EpochSlots
  <1> QED
    BY <1>1, <1>2, FS_Subset

\* The payments of an epoch are a sum over its slots.
LEMMA TxsInEpoch ==
    \A o, e : TxsIn(o, EpochSlots(e)) = SumFunctionOnSet(txAt[o], EpochSlots(e))
  BY EpochSlotsFacts DEF TxsIn

\* The count of the present epoch is never above the limit.
LEMMA DrawsBounded ==
    ASSUME IInv, NEW o \in Owners
    PROVE  DrawsNow(o) \in 0..MaxTxs
  BY AgentFacts, BoundsAssumption DEF DrawsNow, IInv, WindowAligned

\* There are no payments at the start.
LEMMA HistoryInit == LedgerInit => History
  <1> SUFFICES ASSUME LedgerInit PROVE History
    OBVIOUS
  <1>1. /\ txAt = [o \in Owners |-> [s \in 0..MaxSlot |-> 0]] /\ slot = 0
        /\ Registered = {} /\ MaxSlot \in Nat /\ MaxTxs \in Nat
    BY BoundsAssumption DEF LedgerInit, Init, Registered
  <1>2. ASSUME NEW o \in Owners, NEW e PROVE TxsIn(o, EpochSlots(e)) = 0
    <2> DEFINE f == txAt[o]
               E == EpochSlots(e)
    <2>1. \A s \in E : f[s] = 0
      BY <1>1, EpochSlotsFacts
    <2>2. IsFiniteSet(E)
      BY EpochSlotsFacts
    <2> HIDE DEF f, E
    <2>3. SumFunctionOnSet(f, E) = 0
      BY <2>1, <2>2, SumZero
    <2> QED
      BY <2>3, TxsInEpoch DEF f, E
  <1>3. \A o \in Owners : DrawsNow(o) = 0
    BY <1>1 DEF DrawsNow
  <1> QED
    BY <1>1, <1>2, <1>3 DEF History, EpochRateLimit

\* The history's next value.
Recorded ==
    txAt' = [o \in Owners |->
               IF Spent(o)' > Spent(o) THEN [txAt[o] EXCEPT ![slot] = @ + 1] ELSE txAt[o]]

\* A quiet step adds no payment.
LEMMA HistoryQuiet ==
    ASSUME IInv, IInv', History, Quiet, Recorded
    PROVE  History'
  <1>1. \A o \in Owners : Spent(o) \in Nat /\ ~(Spent(o)' > Spent(o))
    BY AgentFacts DEF Quiet, Spent
  <1>2. txAt' = txAt
    BY <1>1 DEF Recorded, History
  <1> QED
    BY <1>2 DEF History, Quiet, TxsIn, EpochSlots, EpochRateLimit, Epoch

\* A new epoch starts without payments, and without draws.
LEMMA HistorySlot ==
    ASSUME IInv, IInv', History, AdvanceSlot, Recorded
    PROVE  History'
  <1>1. /\ slot \in Nat /\ slot' = slot + 1 /\ slot' \in 0..MaxSlot /\ MaxSlot \in Nat
        /\ agent' = agent /\ Registered' = Registered
    BY BoundsAssumption DEF AdvanceSlot, IInv, TypeOK, Registered
  <1>2. \A o \in Owners : Spent(o) \in Nat /\ Spent(o)' = Spent(o)
    BY <1>1, AgentFacts DEF Spent
  <1>3. txAt' = txAt
    BY <1>2 DEF Recorded, History
  <1>4. \A o \in Owners, s \in 0..MaxSlot : s > slot' => txAt'[o][s] = 0
    BY <1>1, <1>3 DEF History
  <1>5. ASSUME NEW o \in Owners
        PROVE  TxsIn(o, EpochSlots(Epoch(slot)))' = DrawsNow(o)'
    <2>1. CASE Epoch(slot') = Epoch(slot)
      <3>1. DrawsNow(o)' = DrawsNow(o)
        BY <1>1, <2>1 DEF DrawsNow, Epoch
      <3> QED
        <4>1. TxsIn(o, EpochSlots(Epoch(slot)))' = TxsIn(o, EpochSlots(Epoch(slot')))
          BY <1>3 DEF TxsIn, EpochSlots, Epoch
        <4> QED
          BY <2>1, <3>1, <4>1 DEF History
    <2>2. CASE Epoch(slot') # Epoch(slot)
      <3> DEFINE f == txAt[o]
                 E == EpochSlots(Epoch(slot'))
      <3>1. \A s \in E : s \in 0..MaxSlot /\ Epoch(s) = Epoch(slot')
        BY DEF EpochSlots
      <3>2. Epoch(slot) < Epoch(slot') /\ Epoch(slot) \in Nat
        BY <1>1, <2>2, EpochFacts
      <3>3. ASSUME NEW s \in E PROVE f[s] = 0
        <4>1. s \in Nat /\ ~(s <= slot)
          BY <1>1, <3>1, <3>2, EpochFacts
        <4> QED
          BY <1>1, <3>1, <4>1 DEF History
      <3>4. IsFiniteSet(E)
        BY EpochSlotsFacts
      <3>5. DrawsNow(o)' = 0
        <4>1. \A q \in Registered : /\ Epoch(agent[q].start) <= Epoch(slot)
                                    /\ Epoch(agent[q].start) \in Nat
          BY <1>1, AgentFacts, EpochFacts DEF IInv, WindowAligned
        <4> QED
          BY <1>1, <3>2, <4>1 DEF DrawsNow, Epoch
      <3> HIDE DEF f, E
      <3>6. SumFunctionOnSet(f, E) = 0
        BY <3>3, <3>4, SumZero
      <3>7. TxsIn(o, EpochSlots(Epoch(slot'))) = 0
        BY <3>6, TxsInEpoch DEF f, E
      <3>8. TxsIn(o, EpochSlots(Epoch(slot)))' = TxsIn(o, EpochSlots(Epoch(slot')))
        BY <1>3 DEF TxsIn, EpochSlots, Epoch
      <3> QED
        BY <3>5, <3>7, <3>8
    <2> QED
      BY <2>1, <2>2
  <1>6. EpochRateLimit'
    BY <1>3 DEF History, EpochRateLimit, TxsIn, EpochSlots, Epoch
  <1>7. txAt' \in [Owners -> [0..MaxSlot -> Nat]]
    BY <1>3 DEF History
  <1>8. \A o \in Owners : TxsIn(o, EpochSlots(Epoch(slot)))' = DrawsNow(o)'
    BY <1>5
  <1> QED
    BY <1>1, <1>4, <1>6, <1>7, <1>8 DEF History

\* A payment counts in the epoch of its slot and in no other.
LEMMA HistoryPayment ==
    ASSUME IInv, IInv', History, Recorded,
           NEW o \in Owners, NEW p \in Providers, NEW n \in Amounts,
           StreamComputePayment(o, p, n)
    PROVE  History'
  <1>1. /\ o \in Registered /\ n \in Nat /\ n > 0 /\ slot' = slot
        /\ Registered' = Registered /\ agent'[o].spent = agent[o].spent + n
        /\ \A q \in Owners : q # o => agent'[q] = agent[q]
        /\ DrawsNow(o)' = DrawsNow(o) + 1
    <2>1. o \in Registered /\ n \in Nat /\ n > 0
      BY InputsAssumption DEF StreamComputePayment
    <2> QED
      BY <2>1, PaymentAccount DEF DrawsNow, Epoch
  <1>2. /\ agent[o].spent \in Nat /\ slot \in 0..MaxSlot
        /\ txAt \in [Owners -> [0..MaxSlot -> Nat]]
    BY <1>1, AgentFacts DEF History
  <1>3. Spent(o)' > Spent(o) /\ \A q \in Owners : q # o => Spent(q)' = Spent(q)
    BY <1>1, <1>2 DEF Spent
  <1>4. \A q \in Owners : Spent(q) \in Nat
    BY AgentFacts DEF Spent
  <1>5. /\ txAt'[o] = [txAt[o] EXCEPT ![slot] = @ + 1]
        /\ \A q \in Owners : q # o => txAt'[q] = txAt[q]
    BY <1>3, <1>4 DEF Recorded
  <1>6. /\ txAt' \in [Owners -> [0..MaxSlot -> Nat]]
        /\ \A s \in 0..MaxSlot : txAt'[o][s] = IF s = slot THEN txAt[o][s] + 1 ELSE txAt[o][s]
    <2>1. /\ txAt[o] \in [0..MaxSlot -> Nat]
          /\ txAt'[o] = [txAt[o] EXCEPT ![slot] = txAt[o][slot] + 1]
      BY <1>1, <1>2, <1>5 DEF Registered
    <2>2. /\ txAt'[o] \in [0..MaxSlot -> Nat]
          /\ \A s \in 0..MaxSlot : txAt'[o][s] = IF s = slot THEN txAt[o][s] + 1 ELSE txAt[o][s]
      BY <1>2, <2>1
    <2>3. \A q \in Owners : txAt'[q] \in [0..MaxSlot -> Nat]
      BY <1>2, <1>5, <2>2
    <2>4. txAt' = [q \in Owners |-> txAt'[q]]
      BY DEF Recorded
    <2> QED
      BY <2>2, <2>3, <2>4
  <1>7. \A q \in Owners : q # o => DrawsNow(q)' = DrawsNow(q)
    BY <1>1 DEF DrawsNow, Epoch
  <1>8. ASSUME NEW q \in Owners, q # o, NEW e
        PROVE  SumFunctionOnSet(txAt'[q], EpochSlots(e)) = SumFunctionOnSet(txAt[q], EpochSlots(e))
    BY <1>5, <1>8
  <1> DEFINE f == txAt[o]
             g == txAt'[o]
             now == Epoch(slot)
  <1>9. \A s \in 0..MaxSlot : f[s] \in Nat /\ g[s] \in Nat
    BY <1>2, <1>6
  <1>10. ASSUME NEW e, e # now
         PROVE  SumFunctionOnSet(g, EpochSlots(e)) = SumFunctionOnSet(f, EpochSlots(e))
    <2> DEFINE E == EpochSlots(e)
    <2>1. \A s \in E : g[s] = f[s]
      BY <1>6, <1>10 DEF EpochSlots
    <2>2. IsFiniteSet(E)
      BY EpochSlotsFacts
    <2> HIDE DEF f, g, E
    <2>3. SumFunctionOnSet(g, E) = SumFunctionOnSet(f, E)
      BY <2>1, <2>2, SumAgree
    <2> QED
      BY <2>3 DEF E
  <1>11. SumFunctionOnSet(g, EpochSlots(now)) = SumFunctionOnSet(f, EpochSlots(now)) + 1
    <2> DEFINE E == EpochSlots(now)
    <2>1. /\ slot \in E /\ g[slot] = f[slot] + 1
          /\ \A s \in E : f[s] \in Nat /\ g[s] \in Nat
          /\ \A s \in E : s # slot => g[s] = f[s]
      BY <1>2, <1>6, <1>9 DEF EpochSlots
    <2>2. IsFiniteSet(E)
      BY EpochSlotsFacts
    <2> HIDE DEF f, g, E
    <2>3. SumFunctionOnSet(g, E) + f[slot] = SumFunctionOnSet(f, E) + g[slot]
      BY <2>1, <2>2, SumChange
    <2>4. SumFunctionOnSet(g, E) \in Nat /\ SumFunctionOnSet(f, E) \in Nat
      BY <2>1, <2>2, SumType
    <2>5. SumFunctionOnSet(g, E) = SumFunctionOnSet(f, E) + 1
      BY <2>1, <2>3, <2>4
    <2> QED
      BY <2>5 DEF E
  <1>12. \A q \in Owners : \A e : TxsIn(q, EpochSlots(e)) = SumFunctionOnSet(txAt[q], EpochSlots(e))
    BY TxsInEpoch
  <1>13. /\ now' = now
         /\ \A q \in Owners, e \in Nat :
               TxsIn(q, EpochSlots(e))' = SumFunctionOnSet(txAt'[q], EpochSlots(e))
         /\ \A q \in Owners :
               TxsIn(q, EpochSlots(Epoch(slot)))' = SumFunctionOnSet(txAt'[q], EpochSlots(now))
    <2>1. now' = now
      BY <1>1 DEF Epoch
    <2>2. \A e : EpochSlots(e) \cap 0..MaxSlot = EpochSlots(e)
      BY EpochSlotsFacts
    <2>3. \A q \in Owners, e \in Nat :
            TxsIn(q, EpochSlots(e))' = SumFunctionOnSet(txAt'[q], EpochSlots(e) \cap 0..MaxSlot)
      BY DEF TxsIn, EpochSlots, Epoch
    <2>4. \A q \in Owners :
            TxsIn(q, EpochSlots(Epoch(slot)))'
              = SumFunctionOnSet(txAt'[q], EpochSlots(Epoch(slot)) \cap 0..MaxSlot)
      BY <1>1 DEF TxsIn, EpochSlots, Epoch
    <2> QED
      BY <2>1, <2>2, <2>3, <2>4
  <1> HIDE DEF now
  <1>14. \A q \in Owners : SumFunctionOnSet(txAt'[q], EpochSlots(now)) = DrawsNow(q)'
    <2>1. \A q \in Owners : SumFunctionOnSet(txAt[q], EpochSlots(now)) = DrawsNow(q)
      BY <1>12 DEF History, now
    <2> QED
      BY <1>1, <1>7, <1>8, <1>11, <2>1
  <1>15. \A q \in Owners : DrawsNow(q)' \in 0..MaxTxs
    <2>1. DrawsNow(o) \in Nat /\ DrawsNow(o) < MaxTxs /\ MaxTxs \in Nat
      BY <1>1, PaymentAccount, BoundsAssumption
    <2> QED
      BY <1>1, <1>7, <2>1, DrawsBounded
  <1>16. ASSUME NEW q \in Owners, NEW e \in 0..Epoch(MaxSlot)
         PROVE  SumFunctionOnSet(txAt'[q], EpochSlots(e)) <= MaxTxs
    <2>1. SumFunctionOnSet(txAt[q], EpochSlots(e)) <= MaxTxs
      BY <1>12 DEF History, EpochRateLimit
    <2>2. CASE e = now
      BY <1>14, <1>15, <2>2
    <2>3. CASE e # now
      BY <1>8, <1>10, <2>1, <2>3
    <2> QED
      BY <2>2, <2>3
  <1>17. EpochRateLimit'
    <2>1. \A e \in 0..Epoch(MaxSlot) : e \in Nat
      BY BoundsAssumption, EpochFacts
    <2>2. \A q \in Owners, e \in 0..Epoch(MaxSlot) : TxsIn(q, EpochSlots(e))' <= MaxTxs
      BY <1>13, <1>16, <2>1
    <2> QED
      BY <2>2 DEF EpochRateLimit, TxsIn, EpochSlots, Epoch
  <1>18. \A q \in Owners : TxsIn(q, EpochSlots(Epoch(slot)))' = DrawsNow(q)'
    BY <1>13, <1>14
  <1>19. \A q \in Owners, s \in 0..MaxSlot : s > slot' => txAt'[q][s] = 0
    <2>1. slot \in Nat
      BY <1>2, BoundsAssumption
    <2>2. ASSUME NEW q \in Owners, NEW s \in 0..MaxSlot, s > slot
          PROVE  txAt'[q][s] = 0
      <3>1. txAt[q][s] = 0
        BY <2>2 DEF History
      <3>2. s # slot
        BY <2>1, <2>2
      <3> QED
        BY <1>5, <1>6, <3>1, <3>2
    <2> QED
      BY <1>1, <2>2
  <1> QED
    BY <1>1, <1>2, <1>6, <1>17, <1>18, <1>19 DEF History

\* Every step keeps the history.
LEMMA HistoryStep ==
    IInv /\ IInv' /\ History /\ [LedgerNext]_<<vars, txAt>> => History'
  <1> SUFFICES ASSUME IInv, IInv', History, [LedgerNext]_<<vars, txAt>> PROVE History'
    OBVIOUS
  <1>1. CASE LedgerNext
    <2>1. Recorded /\ [Next]_vars
      BY <1>1 DEF LedgerNext, Recorded
    <2> QED
      BY <2>1, QuietStep, HistoryQuiet, HistorySlot, HistoryPayment
  <1>2. CASE UNCHANGED <<vars, txAt>>
    BY <1>2 DEF vars, History, TxsIn, EpochSlots, EpochRateLimit, Epoch, DrawsNow, Registered
  <1> QED
    BY <1>1, <1>2

\* In every aligned epoch every agent makes at most MaxTxs payments, counted
\* from the payments themselves, whatever the slots at which it pays.
THEOREM EpochLimit == LedgerSpec => []EpochRateLimit
  <1>1. LedgerInit => IInv /\ History
    BY InitInvariant, HistoryInit DEF LedgerInit
  <1>2. IInv /\ History /\ [LedgerNext]_<<vars, txAt>> => IInv' /\ History'
    <2>1. [LedgerNext]_<<vars, txAt>> => [Next]_vars
      BY DEF LedgerNext
    <2> QED
      BY <2>1, StepInvariant, HistoryStep
  <1>3. History => EpochRateLimit
    BY DEF History
  <1> QED
    BY <1>1, <1>2, <1>3, PTL DEF LedgerSpec

----------------------------------------------------------------------------
(* Logging.                                                                *)

\* The guards of log_compliance_event hold for some sub_index of this slot.
Loggable(o) ==
    /\ o \in Registered /\ RentCovered(o)
    /\ \E sub \in SubIndexes : Unclaimed(o, sub)

\* What ComplianceNeverGated says of the transitions, said of their guards:
\* the wallet's rent and a slot with fewer logs than sub_indexes are enough,
\* whatever the budget, the window and the whitelist are.
LoggingPossible ==
    \A o \in Registered :
        (/\ lamports[agent[o].hardware] >= LogRent
         /\ Cardinality({l \in logs : l.agent = o /\ l.slot = slot})
              < Cardinality(SubIndexes)) => Loggable(o)

\* Every log of the slot claims one sub_index, so fewer logs leave one free.
LEMMA FreeSubIndex ==
    ASSUME IInv, Books, NEW o \in Owners,
           Cardinality({l \in logs : l.agent = o /\ l.slot = slot}) < Cardinality(SubIndexes)
    PROVE  \E sub \in SubIndexes : Unclaimed(o, sub)
  <1> DEFINE L == {l \in logs : l.agent = o /\ l.slot = slot}
  <1> SUFFICES ASSUME \A sub \in SubIndexes : LogsAt(o, sub) # {} PROVE FALSE
    BY DEF Unclaimed
  <1> DEFINE f == [sub \in SubIndexes |-> CHOOSE l \in L : l.sub = sub]
  <1>1. \A sub \in SubIndexes : f[sub] \in L /\ f[sub].sub = sub
    <2>1. \A sub \in SubIndexes : \E l \in L : l.sub = sub
      BY DEF LogsAt
    <2> HIDE DEF L
    <2> QED
      BY <2>1
  <1>2. L \subseteq logs /\ IsFiniteSet(L)
    BY FS_Subset DEF Books
  <1> HIDE DEF L
  <1>3. f \in Injection(SubIndexes, L)
    <2>1. f \in [SubIndexes -> L]
      BY <1>1
    <2>2. \A a, b \in SubIndexes : f[a] = f[b] => a = b
      BY <1>1
    <2> HIDE DEF f
    <2> QED
      BY <2>1, <2>2 DEF Injection, IsInjective
  <1>4. IsFiniteSet(SubIndexes) /\ Cardinality(SubIndexes) <= Cardinality(L)
    BY <1>2, <1>3, FS_Injection
  <1>5. Cardinality(SubIndexes) \in Nat /\ Cardinality(L) \in Nat
    BY <1>2, <1>4, FS_CardinalityType
  <1> QED
    BY <1>4, <1>5 DEF L

\* Nothing an agent paid, has left to pay or is limited to stands between a
\* registered agent and its compliance log.
THEOREM LoggingNeverGated == Spec => []LoggingPossible
  <1>1. IInv /\ Books => LoggingPossible
    BY FreeSubIndex DEF LoggingPossible, Loggable, RentCovered, Registered
  <1> QED
    BY <1>1, Invariance, BooksInit, BooksStep, PTL DEF Spec
----------------------------------------------------------------------------
(* What an agent can spend in a stretch of time.                           *)

\* The inductive invariant from a state of epoch e in which agent o had spent
\* b: a full window for every epoch that has ended, and the draws of this one.
SpentSince(o, b, e) ==
    /\ Epoch(slot) >= e
    /\ Spent(o) <= b + MaxPayment * (MaxTxs * (Epoch(slot) - e) + DrawsNow(o))

\* The products of the bound, for any sizes.
LEMMA RateArithmetic ==
    ASSUME NEW m \in Nat, NEW t \in Nat, NEW k \in Nat, NEW d \in 0..t,
           NEW n \in 0..m, NEW s \in Nat, NEW b \in Nat,
           s <= b + m * (t * k + d)
    PROVE  /\ s + n <= b + m * (t * k + (d + 1))
           /\ s <= b + m * (t * (k + 1) + 0)
           /\ s <= b + m * (t * (k + 1))
  <1> DEFINE u == t * k
  <1>1. u \in Nat /\ t * (k + 1) = u + t
    OBVIOUS
  <1> HIDE DEF u
  <1>2. m * (u + (d + 1)) = m * (u + d) + m
    BY <1>1
  <1>3. m * (u + t) = m * (u + d) + m * (t - d) /\ m * (t - d) >= 0
    BY <1>1
  <1>4. m * (u + d) \in Int /\ m * (t - d) \in Int
    BY <1>1
  <1>5. s <= b + m * (u + d)
    BY DEF u
  <1>6. s + n <= b + m * (u + (d + 1))
    BY <1>2, <1>4, <1>5
  <1>7. s <= b + m * (u + t)
    BY <1>3, <1>4, <1>5
  <1> QED
    BY <1>1, <1>6, <1>7 DEF u

\* The numbers the bound is made of.
LEMMA SinceFacts ==
    ASSUME IInv, NEW o \in Owners, NEW b \in Nat, NEW e \in Nat, SpentSince(o, b, e)
    PROVE  /\ Epoch(slot) \in Nat /\ Spent(o) \in Nat /\ DrawsNow(o) \in 0..MaxTxs
           /\ Epoch(slot) - e \in Nat /\ MaxPayment \in Nat /\ MaxTxs \in Nat /\ slot \in Nat
           /\ Spent(o) <= b + MaxPayment * (MaxTxs * (Epoch(slot) - e) + DrawsNow(o))
  <1>1. Spent(o) \in Nat
    BY AgentFacts DEF Spent
  <1>2. slot \in Nat
    BY DEF IInv, TypeOK
  <1>3. Epoch(slot) \in Nat
    BY <1>2, EpochFacts
  <1>4. Epoch(slot) - e \in Nat
    BY <1>3 DEF SpentSince
  <1>5. DrawsNow(o) \in 0..MaxTxs
    BY DrawsBounded
  <1> QED
    BY <1>1, <1>2, <1>3, <1>4, <1>5, BoundsAssumption DEF SpentSince

\* A payment is paid for by the draw it counts, a new epoch by the window that
\* was never fuller than MaxTxs; no other instruction moves either.
LEMMA SpentSinceStep ==
    ASSUME IInv, IInv', [Next]_vars,
           NEW o \in Owners, NEW b \in Nat, NEW e \in Nat, SpentSince(o, b, e)
    PROVE  SpentSince(o, b, e)'
  <1> DEFINE k == Epoch(slot) - e
  <1>1. /\ Epoch(slot) \in Nat /\ Spent(o) \in Nat /\ DrawsNow(o) \in 0..MaxTxs
        /\ k \in Nat /\ MaxPayment \in Nat /\ MaxTxs \in Nat /\ slot \in Nat
        /\ Spent(o) <= b + MaxPayment * (MaxTxs * k + DrawsNow(o))
    BY SinceFacts
  <1>2. CASE Quiet
    BY <1>2 DEF Quiet, SpentSince, Epoch
  <1>3. CASE AdvanceSlot
    <2>1. Spent(o)' = Spent(o) /\ slot' = slot + 1 /\ agent' = agent /\ Registered' = Registered
      BY <1>3 DEF AdvanceSlot, Spent, Registered
    <2>2. CASE Epoch(slot') = Epoch(slot)
      <3>1. DrawsNow(o)' = DrawsNow(o)
        BY <2>1, <2>2 DEF DrawsNow, Epoch
      <3> QED
        BY <2>1, <2>2, <3>1 DEF SpentSince, Epoch
    <2>3. CASE Epoch(slot') = Epoch(slot) + 1
      <3>1. \A q \in Registered : Epoch(agent[q].start) <= Epoch(slot) /\ Epoch(agent[q].start) \in Nat
        BY <1>1, AgentFacts, EpochFacts DEF IInv, WindowAligned
      <3>2. DrawsNow(o)' = 0
        BY <1>1, <2>1, <2>3, <3>1 DEF DrawsNow, Epoch
      <3> DEFINE j == k + 1
      <3>3. Spent(o) <= b + MaxPayment * (MaxTxs * j + 0)
        BY <1>1, RateArithmetic
      <3>4. Epoch(slot)' - e = j /\ Epoch(slot)' >= e
        BY <1>1, <2>3 DEF Epoch
      <3> HIDE DEF j
      <3> QED
        BY <2>1, <3>2, <3>3, <3>4 DEF SpentSince
    <2> QED
      BY <1>1, <2>1, <2>2, <2>3, EpochFacts
  <1>4. CASE \E q \in Owners, p \in Providers, n \in Amounts : StreamComputePayment(q, p, n)
    <2>1. PICK q \in Owners, p \in Providers, n \in Amounts : StreamComputePayment(q, p, n)
      BY <1>4
    <2>2. q \in Registered
      BY <2>1 DEF StreamComputePayment
    <2>3. /\ n \in 1..MaxPayment /\ Registered' = Registered /\ slot' = slot
          /\ agent'[q].spent = agent[q].spent + n
          /\ Epoch(agent'[q].start) = Epoch(slot)
          /\ agent'[q].txs = DrawsNow(q) + 1
          /\ \A r \in Owners : r # q => agent'[r] = agent[r]
      BY <2>1, <2>2, PaymentBalances, PaymentAccount
    <2>4. Epoch(slot)' = Epoch(slot)
      BY <2>3 DEF Epoch
    <2>5. CASE q = o
      <3>1. Spent(o)' = Spent(o) + n /\ DrawsNow(o)' = DrawsNow(o) + 1
        BY <2>2, <2>3, <2>5 DEF Spent, DrawsNow, Epoch
      <3> DEFINE d == DrawsNow(o) + 1
      <3>2. Spent(o) + n <= b + MaxPayment * (MaxTxs * k + d)
        BY <1>1, <2>3, RateArithmetic
      <3> HIDE DEF d
      <3>3. DrawsNow(o)' = d
        BY <3>1 DEF d
      <3> QED
        BY <1>1, <2>4, <3>1, <3>2, <3>3 DEF SpentSince
    <2>6. CASE q # o
      <3>1. Spent(o)' = Spent(o) /\ DrawsNow(o)' = DrawsNow(o)
        BY <2>3, <2>6 DEF Spent, DrawsNow, Epoch
      <3> QED
        BY <2>4, <3>1 DEF SpentSince
    <2> QED
      BY <2>5, <2>6
  <1> QED
    BY <1>2, <1>3, <1>4, QuietStep

\* What an agent whose key is abused can lose in a given time, and how fast:
\* whatever it had spent in epoch e, k epochs later it has spent at most k + 1
\* full windows of MaxTxs payments of MaxPayment more.  The window's lazy
\* reset, any number of whitelist changes and any other agent's activity do
\* not add a single payment to that.
THEOREM SpendingRateBounded ==
    ASSUME NEW CONSTANT o \in Owners, NEW CONSTANT b \in Nat, NEW CONSTANT e \in Nat
    PROVE  Spec => []((Spent(o) = b /\ Epoch(slot) = e)
                      => [](Spent(o) <= b + MaxPayment * (MaxTxs * (Epoch(slot) - e + 1))))
  <1> DEFINE Start == Spent(o) = b /\ Epoch(slot) = e
             Bound == Spent(o) <= b + MaxPayment * (MaxTxs * (Epoch(slot) - e + 1))
             Since == SpentSince(o, b, e)
  <1>1. IInv /\ Start => Since
    <2> SUFFICES ASSUME IInv, Start PROVE Since
      OBVIOUS
    <2> DEFINE d == DrawsNow(o)
    <2>1. d \in Nat /\ MaxPayment \in Nat /\ MaxTxs \in Nat
      BY DrawsBounded, BoundsAssumption
    <2> HIDE DEF d
    <2>2. MaxTxs * (e - e) = 0 /\ MaxPayment * (0 + d) >= 0 /\ MaxPayment * (0 + d) \in Int
      BY <2>1
    <2> QED
      BY <2>1, <2>2 DEF SpentSince, d
  <1>2. IInv /\ IInv' /\ Since /\ [Next]_vars => Since'
    BY SpentSinceStep
  <1>3. IInv /\ Since => Bound
    <2> SUFFICES ASSUME IInv, Since PROVE Bound
      OBVIOUS
    <2> DEFINE k == Epoch(slot) - e
    <2>1. /\ Epoch(slot) \in Nat /\ Spent(o) \in Nat /\ DrawsNow(o) \in 0..MaxTxs
          /\ k \in Nat /\ MaxPayment \in Nat /\ MaxTxs \in Nat
          /\ Spent(o) <= b + MaxPayment * (MaxTxs * k + DrawsNow(o))
      BY SinceFacts
    <2> QED
      BY <2>1, RateArithmetic
  <1> HIDE DEF Start, Bound, Since
  <1>4. Spec => [](Start => []Bound)
    BY <1>1, <1>2, <1>3, Invariance, PTL DEF Spec
  <1> QED
    BY <1>4 DEF Start, Bound
----------------------------------------------------------------------------
(* Any WindowSlots consecutive slots.                                      *)

\* A sum over a part is not above the sum over the whole.
LEMMA SumPart ==
    ASSUME NEW f, NEW S, IsFiniteSet(S), \A x \in S : f[x] \in Nat, NEW P \in SUBSET S
    PROVE  SumFunctionOnSet(f, P) <= SumFunctionOnSet(f, S)
  <1> DEFINE Family == {T \in SUBSET S :
                          ~(SumFunctionOnSet(f, P \cap T) <= SumFunctionOnSet(f, T))}
  <1> SUFFICES Family = {}
    <2>1. S \notin Family => SumFunctionOnSet(f, P \cap S) <= SumFunctionOnSet(f, S)
      OBVIOUS
    <2>2. P \cap S = P
      OBVIOUS
    <2> QED
      BY <2>1, <2>2
  <1> SUFFICES ASSUME Family # {} PROVE FALSE
    OBVIOUS
  <1>0. Family \in SUBSET (SUBSET S)
    OBVIOUS
  <1>1. PICK T \in Family : \A U \in Family : ~(U \subseteq T /\ U # T)
    <2> HIDE DEF Family
    <2> QED
      BY <1>0, MinimalSubset
  <1>2. T \in SUBSET S /\ ~(SumFunctionOnSet(f, P \cap T) <= SumFunctionOnSet(f, T))
    OBVIOUS
  <1>3. T # {}
    <2>1. P \cap {} = {} /\ 0 <= 0
      OBVIOUS
    <2> QED
      BY <1>2, <2>1, SumEmpty
  <1>4. PICK a \in T : TRUE
    BY <1>3
  <1> DEFINE R == T \ {a}
  <1>5. R \in SUBSET S /\ R \subseteq T /\ R # T
    BY <1>2, <1>4
  <1>6. SumFunctionOnSet(f, P \cap R) <= SumFunctionOnSet(f, R)
    BY <1>1, <1>5
  <1>7. /\ IsFiniteSet(T) /\ IsFiniteSet(P \cap T) /\ IsFiniteSet(R) /\ IsFiniteSet(P \cap R)
    BY <1>2, <1>5, FS_Subset
  <1>8. f[a] \in Nat /\ \A x \in T : f[x] \in Nat
    BY <1>2, <1>4
  <1>9. SumFunctionOnSet(f, T) = f[a] + SumFunctionOnSet(f, R)
    BY <1>7, <1>8, SumTake
  <1>10. SumFunctionOnSet(f, R) \in Nat /\ SumFunctionOnSet(f, P \cap R) \in Nat
    BY <1>7, <1>8, SumType
  <1>11. CASE a \in P
    <2>1. (P \cap T) \ {a} = P \cap R /\ a \in P \cap T
      BY <1>4, <1>11
    <2>2. SumFunctionOnSet(f, P \cap T) = f[a] + SumFunctionOnSet(f, (P \cap T) \ {a})
      BY <1>7, <1>8, <2>1, SumTake
    <2>3. SumFunctionOnSet(f, P \cap T) = f[a] + SumFunctionOnSet(f, P \cap R)
      BY <2>1, <2>2
    <2> HIDE DEF R, Family
    <2>4. SumFunctionOnSet(f, P \cap T) <= SumFunctionOnSet(f, T)
      BY <1>6, <1>8, <1>9, <1>10, <2>3
    <2> QED
      BY <1>2, <2>4
  <1>12. CASE a \notin P
    <2>1. P \cap T = P \cap R
      BY <1>12
    <2>2. SumFunctionOnSet(f, P \cap T) = SumFunctionOnSet(f, P \cap R)
      BY <2>1
    <2> HIDE DEF R, Family
    <2>3. SumFunctionOnSet(f, P \cap T) <= SumFunctionOnSet(f, T)
      BY <1>6, <1>8, <1>9, <1>10, <2>2
    <2> QED
      BY <1>2, <2>3
  <1> QED
    BY <1>11, <1>12

\* A sum over two disjoint sets is the sum of the two.
LEMMA SumSplit ==
    ASSUME NEW f, NEW A, NEW B, IsFiniteSet(A), IsFiniteSet(B), A \cap B = {},
           \A x \in A \cup B : f[x] \in Nat
    PROVE  SumFunctionOnSet(f, A \cup B) = SumFunctionOnSet(f, A) + SumFunctionOnSet(f, B)
  <1> DEFINE Adds(T) == SumFunctionOnSet(f, A \cup T)
                        = SumFunctionOnSet(f, A) + SumFunctionOnSet(f, T)
             Family == {T \in SUBSET B : ~Adds(T)}
  <1> SUFFICES ASSUME Family # {} PROVE FALSE
    OBVIOUS
  <1>0. Family \in SUBSET (SUBSET B)
    OBVIOUS
  <1>1. PICK T \in Family : \A U \in Family : ~(U \subseteq T /\ U # T)
    <2> HIDE DEF Family
    <2> QED
      BY <1>0, MinimalSubset
  <1>2. T \in SUBSET B /\ ~Adds(T)
    OBVIOUS
  <1>3. SumFunctionOnSet(f, A) \in Nat
    BY SumType
  <1>4. T # {}
    <2>1. A \cup {} = A
      OBVIOUS
    <2> QED
      BY <1>2, <1>3, <2>1, SumEmpty
  <1>5. PICK a \in T : TRUE
    BY <1>4
  <1> DEFINE R == T \ {a}
  <1>6. R \in SUBSET B /\ R \subseteq T /\ R # T
    BY <1>2, <1>5
  <1>7. Adds(R)
    <2> HIDE DEF Adds, R
    <2> QED
      BY <1>1, <1>6
  <1>8. IsFiniteSet(A \cup T) /\ IsFiniteSet(T) /\ IsFiniteSet(R)
    BY <1>2, <1>6, FS_Subset, FS_Union
  <1>9. f[a] \in Nat /\ (\A x \in T : f[x] \in Nat) /\ (\A x \in A \cup T : f[x] \in Nat)
    BY <1>2, <1>5
  <1>10. (A \cup T) \ {a} = A \cup R /\ a \in A \cup T
    BY <1>2, <1>5
  <1>11. SumFunctionOnSet(f, T) = f[a] + SumFunctionOnSet(f, R)
    BY <1>8, <1>9, SumTake
  <1>12. SumFunctionOnSet(f, A \cup T) = f[a] + SumFunctionOnSet(f, A \cup R)
    <2>1. SumFunctionOnSet(f, A \cup T) = f[a] + SumFunctionOnSet(f, (A \cup T) \ {a})
      BY <1>8, <1>9, <1>10, SumTake
    <2> QED
      BY <1>10, <2>1
  <1>13. SumFunctionOnSet(f, R) \in Nat
    BY <1>6, <1>8, <1>9, SumType
  <1> HIDE DEF R
  <1> QED
    BY <1>2, <1>3, <1>7, <1>9, <1>11, <1>12, <1>13

\* A window's length from s on, the slots are of s's epoch or of the next.
LEMMA TwoEpochs ==
    ASSUME NEW s \in Nat, NEW t \in s..(s + WindowSlots - 1)
    PROVE  Epoch(t) = Epoch(s) \/ Epoch(t) = Epoch(s) + 1
  <1>1. WindowSlots \in Nat /\ WindowSlots > 0 /\ t \in Nat
    BY BoundsAssumption
  <1>2. PICK e \in Nat, d \in Nat : e = Epoch(s) /\ d = Epoch(t) /\ e <= d
    <2>1. Epoch(s) \in Nat /\ Epoch(t) \in Nat
      BY <1>1, EpochFacts
    <2>2. s <= t
      BY <1>1
    <2>3. Epoch(s) <= Epoch(t)
      BY <1>1, <2>2, EpochFacts
    <2> QED
      BY <2>1, <2>3
  <1>3. d * WindowSlots <= t /\ s < (e + 1) * WindowSlots
    BY <1>1, <1>2, EpochFacts
  <1>4. (e + 1) * WindowSlots + WindowSlots = (e + 2) * WindowSlots
    BY <1>1
  <1>5. d * WindowSlots < (e + 2) * WindowSlots
    <2>1. /\ d * WindowSlots \in Nat /\ (e + 1) * WindowSlots \in Nat
          /\ (e + 2) * WindowSlots \in Nat
      BY <1>1
    <2> QED
      BY <1>1, <1>3, <1>4, <2>1
  <1>6. d < e + 2
    <2> SUFFICES ASSUME d >= e + 2 PROVE FALSE
      OBVIOUS
    <2>1. PICK k \in Nat : d = e + 2 + k
      <3>1. d - (e + 2) \in Nat /\ d = e + 2 + (d - (e + 2))
        OBVIOUS
      <3> QED
        BY <3>1
    <2>2. d * WindowSlots = (e + 2) * WindowSlots + k * WindowSlots /\ k * WindowSlots \in Nat
          /\ (e + 2) * WindowSlots \in Nat
      BY <1>1, <2>1
    <2> QED
      BY <1>5, <2>2
  <1> QED
    BY <1>2, <1>6

LEMMA RollingFromEpochs == ASSUME History PROVE RollingTwiceLimit
  <1> SUFFICES ASSUME NEW o \in Owners, NEW s \in 0..MaxSlot
               PROVE  TxsIn(o, s..(s + WindowSlots - 1)) <= 2 * MaxTxs
    BY DEF RollingTwiceLimit
  <1>0. /\ MaxSlot \in Nat /\ WindowSlots \in Nat /\ WindowSlots > 0 /\ MaxTxs \in Nat
        /\ txAt[o] \in [0..MaxSlot -> Nat] /\ EpochRateLimit
    BY BoundsAssumption DEF History
  <1> DEFINE f == txAt[o]
             e == Epoch(s)
             A == EpochSlots(e)
             B == EpochSlots(e + 1)
             S == (s..(s + WindowSlots - 1)) \cap 0..MaxSlot
  <1>1. e \in Nat /\ e <= Epoch(MaxSlot) /\ Epoch(MaxSlot) \in Nat
    BY <1>0, EpochFacts
  <1>2. S \subseteq A \cup B
    BY <1>0, TwoEpochs DEF EpochSlots
  <1>3. IsFiniteSet(A) /\ IsFiniteSet(B) /\ A \cup B \subseteq 0..MaxSlot
    BY EpochSlotsFacts
  <1>4. A \cap B = {}
    BY <1>1 DEF EpochSlots
  <1>5. SumFunctionOnSet(f, A) = TxsIn(o, A) /\ SumFunctionOnSet(f, B) = TxsIn(o, B)
    BY TxsInEpoch
  <1>6. SumFunctionOnSet(f, A) <= MaxTxs
    BY <1>0, <1>1, <1>5 DEF EpochRateLimit
  <1>7. SumFunctionOnSet(f, B) <= MaxTxs
    <2>1. CASE e + 1 <= Epoch(MaxSlot)
      BY <1>0, <1>1, <1>5, <2>1 DEF EpochRateLimit
    <2>2. CASE ~(e + 1 <= Epoch(MaxSlot))
      <3>1. ASSUME NEW t \in B PROVE FALSE
        <4>1. t \in Nat /\ t <= MaxSlot /\ Epoch(t) = e + 1
          BY <1>0 DEF EpochSlots
        <4>2. Epoch(t) <= Epoch(MaxSlot)
          BY <1>0, <4>1, EpochFacts
        <4> QED
          BY <2>2, <4>1, <4>2
      <3>2. B = {}
        BY <3>1
      <3>3. SumFunctionOnSet(f, {}) = 0
        BY SumEmpty
      <3> HIDE DEF B, f
      <3> QED
        BY <1>0, <3>2, <3>3
    <2> QED
      BY <2>1, <2>2
  <1>8. TxsIn(o, s..(s + WindowSlots - 1)) = SumFunctionOnSet(f, S)
    BY DEF TxsIn
  <1>9. \A x \in A \cup B : f[x] \in Nat
    BY <1>0, <1>3
  <1>10. IsFiniteSet(A \cup B)
    BY <1>3, FS_Union
  <1> HIDE DEF f, A, B, S
  <1>11. SumFunctionOnSet(f, S) <= SumFunctionOnSet(f, A \cup B)
    BY <1>2, <1>9, <1>10, SumPart
  <1>12. SumFunctionOnSet(f, A \cup B) = SumFunctionOnSet(f, A) + SumFunctionOnSet(f, B)
    BY <1>3, <1>4, <1>9, SumSplit
  <1>13. /\ SumFunctionOnSet(f, A) \in Nat /\ SumFunctionOnSet(f, B) \in Nat
         /\ SumFunctionOnSet(f, S) \in Nat
    <2>1. IsFiniteSet(S)
      BY <1>2, <1>10, FS_Subset
    <2> QED
      BY <1>2, <1>3, <1>9, <2>1, SumType
  <1> QED
    BY <1>0, <1>6, <1>7, <1>8, <1>11, <1>12, <1>13

\* The documented rolling limit does not hold, but twice the limit does: in any
\* WindowSlots consecutive slots, wherever they begin, an agent makes at most
\* 2 * MaxTxs payments.
THEOREM RollingLimit == LedgerSpec => []RollingTwiceLimit
  <1>1. LedgerInit => IInv /\ History
    BY InitInvariant, HistoryInit DEF LedgerInit
  <1>2. IInv /\ History /\ [LedgerNext]_<<vars, txAt>> => IInv' /\ History'
    <2>1. [LedgerNext]_<<vars, txAt>> => [Next]_vars
      BY DEF LedgerNext
    <2> QED
      BY <2>1, StepInvariant, HistoryStep
  <1>3. History => RollingTwiceLimit
    BY RollingFromEpochs
  <1> QED
    BY <1>1, <1>2, <1>3, PTL DEF LedgerSpec
=============================================================================
