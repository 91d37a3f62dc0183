------------------------ MODULE HardwareAgentLedger ------------------------
(***************************************************************************)
(* The accounts of the program seen as one ledger, and the payments of an  *)
(* agent seen over time.  txAt is a history variable: txAt[o][s] counts    *)
(* the payments agent o made at slot s.  The program does not keep it.     *)
(***************************************************************************)
EXTENDS HardwareAgent, Functions

\* Keys are 32 bytes: there are finitely many accounts.
ASSUME FiniteAssumption ==
    IsFiniteSet(Owners) /\ IsFiniteSet(Hardware) /\ IsFiniteSet(Providers)

VARIABLE txAt

Spent(o) == IF o \in Registered THEN agent[o].spent ELSE 0

LedgerInit == Init /\ txAt = [o \in Owners |-> [s \in 0..MaxSlot |-> 0]]

LedgerNext ==
    /\ Next
    /\ txAt' = [o \in Owners |->
                  IF Spent(o)' > Spent(o) THEN [txAt[o] EXCEPT ![slot] = @ + 1]
                                          ELSE txAt[o]]

LedgerSpec == LedgerInit /\ [][LedgerNext]_<<vars, txAt>>

TxsIn(o, slots) == SumFunctionOnSet(txAt[o], slots \cap 0..MaxSlot)
EpochSlots(e) == {s \in 0..MaxSlot : Epoch(s) = e}

----------------------------------------------------------------------------
\* Double entry across accounts no instruction holds together: what all the
\* agents have spent is what the provider records, shared by all agents, say
\* their providers received.
ReceiptsMatchSpending ==
    SumFunction([o \in Owners |-> Spent(o)]) = SumFunction(received)

\* No instruction creates or destroys lamports: balances and the rent locked
\* in provider records and compliance logs always add up to the endowment,
\* also when a provider is the paying agent's own PDA or its hardware wallet.
LamportsConserved ==
    SumFunction(lamports) + RecordRent * Cardinality(records) + LogRent * Cardinality(logs)
      = SumFunction(Endowment)

\* In one aligned epoch an agent makes at most MaxTxs payments, counted from
\* the payments themselves and not from the counter the program resets.
EpochRateLimit ==
    \A o \in Owners, e \in 0..Epoch(MaxSlot) : TxsIn(o, EpochSlots(e)) <= MaxTxs

\* The documents call the limit a rolling window of 60 slots: at most MaxTxs
\* payments in any WindowSlots consecutive slots.
RollingRateLimit ==
    \A o \in Owners, s \in 0..MaxSlot :
        TxsIn(o, s..(s + WindowSlots - 1)) <= MaxTxs

\* What the aligned windows do guarantee of any WindowSlots consecutive slots:
\* they touch two windows, so at most twice the limit.
RollingTwiceLimit ==
    \A o \in Owners, s \in 0..MaxSlot :
        TxsIn(o, s..(s + WindowSlots - 1)) <= 2 * MaxTxs

\* log_compliance_event must never be blocked by payment state: whatever the
\* budget, the window and the whitelist are, a registered agent can log now
\* as long as its wallet has the rent and a sub_index of this slot is free.
ComplianceNeverGated ==
    \A o \in Registered :
        (/\ lamports[agent[o].hardware] >= LogRent
         /\ Cardinality({l \in logs : l.agent = o /\ l.slot = slot})
              < Cardinality(SubIndexes))
        => ENABLED (\E s \in SubIndexes, d \in Hashes :
                       LogComplianceEvent(o, s, d, 2))
=============================================================================
