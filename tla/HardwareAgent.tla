--------------------------- MODULE HardwareAgent ---------------------------
(***************************************************************************)
(* The Anchor program agentic_hardware_bridge: its four instructions over  *)
(* the accounts they read and write.  A Solana transaction is atomic, so   *)
(* one instruction is one step, and an instruction that fails (a require!, *)
(* an account constraint, a checked arithmetic error) reverts all of its   *)
(* writes and is no step at all.                                           *)
(*                                                                         *)
(* Transaction fees and the runtime's minimum balance of plain wallets are *)
(* left out; the rent a wallet locks in a new account is kept.  All sums   *)
(* are naturals: the budget test of stream_compute_payment refuses         *)
(* whatever its checked_add would refuse, because the budget is a u64.     *)
(***************************************************************************)
EXTENDS Integers, Sequences, FiniteSets

CONSTANTS Owners,         \* wallets that may register an agent
          Hardware,       \* keys that may be burned into a hardware module
          Providers,      \* keys an owner may try to whitelist
          Budgets,        \* compute_budget_lamports an owner may choose
          Amounts,        \* amount_lamports a caller may ask for
          Hashes,         \* telemetry digests of a legal length
          Severities,     \* severities a caller may pass
          SubIndexes,     \* the values of sub_index: u8
          MaxProviders,   \* MAX_PROVIDERS (8)
          MaxTxs,         \* RATE_LIMIT_MAX_TXS (100)
          WindowSlots,    \* RATE_LIMIT_WINDOW_SLOTS (60)
          MaxPayment,     \* MAX_PAYMENT_LAMPORTS (1_000_000)
          AgentRent,      \* rent-exempt minimum of a HardwareAgent
          RecordRent,     \* rent-exempt minimum of a ComputeProvider
          LogRent,        \* rent-exempt minimum of a ComplianceLog
          Recipients,     \* accounts an owner sends plain transfers to
          Endowment,      \* lamports each account starts with
          MaxSlot,        \* bound: the last slot a behaviour reaches
          Unregistered    \* no HardwareAgent account at the owner's PDA

VARIABLES slot,       \* clock.slot
          agent,      \* agent[o]: the HardwareAgent account of owner o
          lamports,   \* lamports[k]: the balance of account k
          received,   \* received[p]: ComputeProvider.total_received of p
          records,    \* keys whose ComputeProvider account exists
          logs        \* the ComplianceLog accounts

vars == <<slot, agent, lamports, received, records, logs>>

\* The PDA of an owner's agent; program addresses are not wallet keys.
Pda(o) == <<"agent", o>>

Accounts == Owners \cup Hardware \cup Providers \cup {Pda(o) : o \in Owners}

ASSUME BoundsAssumption ==
    /\ MaxProviders \in Nat /\ MaxTxs \in Nat /\ MaxSlot \in Nat
    /\ MaxPayment \in Nat \ {0}
    /\ WindowSlots \in Nat \ {0}
    /\ {AgentRent, RecordRent, LogRent} \subseteq Nat \ {0}

ASSUME InputsAssumption ==
    /\ Budgets \subseteq Nat /\ Amounts \subseteq Nat /\ Severities \subseteq Nat
    /\ Recipients \subseteq Accounts
    /\ Endowment \in [Accounts -> Nat]
    /\ \A o \in Owners : Pda(o) \notin Owners \cup Hardware

AgentAccount ==
    [hardware  : Hardware,
     budget    : Nat,             \* compute_budget_lamports
     spent     : Nat,             \* lamports_spent
     providers : Seq(Providers),
     start     : Nat,             \* last_window_start_slot
     txs       : Nat]             \* window_tx_count

ComplianceLog ==
    [agent : Owners, slot : Nat, sub : SubIndexes, hash : Hashes, severity : 0..3]

ASSUME UnregisteredAssumption == Unregistered \notin AgentAccount \cup Int

TypeOK ==
    /\ slot \in Nat
    /\ agent \in [Owners -> AgentAccount \cup {Unregistered}]
    /\ lamports \in [Accounts -> Nat]
    /\ received \in [Providers -> Nat]
    /\ records \subseteq Providers
    /\ logs \subseteq ComplianceLog

Registered == {o \in Owners : agent[o] # Unregistered}

Debit(balance, k, n) == [balance EXCEPT ![k] = @ - n]
Credit(balance, k, n) == [balance EXCEPT ![k] = @ + n]

Contains(list, p) == \E i \in 1..Len(list) : list[i] = p

\* Vec::swap_remove: the last element takes the place of the removed one.
SwapRemove(list, i) ==
    [j \in 1..(Len(list) - 1) |-> IF j = i THEN list[Len(list)] ELSE list[j]]

Epoch(s) == s \div WindowSlots

----------------------------------------------------------------------------
Init ==
    /\ slot = 0
    /\ agent = [o \in Owners |-> Unregistered]
    /\ lamports = Endowment
    /\ received = [p \in Providers |-> 0]
    /\ records = {}
    /\ logs = {}

\* What Anchor's init charges for the account: lamports somebody already sent
\* to the address count towards its rent.
InitFee(o) == IF lamports[Pda(o)] >= AgentRent THEN 0 ELSE AgentRent - lamports[Pda(o)]

\* init charges the owner the rent, the handler moves the budget; the PDA is
\* seeded by the owner, so an owner registers once.
InitializeAgent(o, h, budget) ==
    /\ agent[o] = Unregistered
    /\ lamports[o] >= InitFee(o) + budget
    /\ agent' = [agent EXCEPT ![o] =
          [hardware |-> h, budget |-> budget, spent |-> 0,
           providers |-> <<>>, start |-> 0, txs |-> 0]]
    /\ lamports' = Credit(Debit(lamports, o, InitFee(o) + budget),
                          Pda(o), InitFee(o) + budget)
    /\ UNCHANGED <<slot, received, records, logs>>

\* Variant: a push that does not look for the provider first.
AddProviderUnchecked(o, p) ==
    /\ o \in Registered
    /\ Len(agent[o].providers) < MaxProviders
    /\ agent' = [agent EXCEPT ![o].providers = Append(@, p)]
    /\ UNCHANGED <<slot, lamports, received, records, logs>>

AddProvider(o, p) ==
    /\ o \in Registered
    /\ ~Contains(agent[o].providers, p)
    /\ Len(agent[o].providers) < MaxProviders
    /\ agent' = [agent EXCEPT ![o].providers = Append(@, p)]
    /\ UNCHANGED <<slot, lamports, received, records, logs>>

RemoveProvider(o, p) ==
    /\ o \in Registered
    /\ \E i \in 1..Len(agent[o].providers) :
          /\ agent[o].providers[i] = p
          /\ agent' = [agent EXCEPT ![o].providers = SwapRemove(@, i)]
    /\ UNCHANGED <<slot, lamports, received, records, logs>>

\* The rate-limit window of account a at the present slot, after the lazy
\* reset of a window that belongs to an earlier epoch.
\* Variant: a reset at every payment.
RolledAlways(a) ==
    [a EXCEPT !.start = Epoch(slot) * WindowSlots, !.txs = 0]
Rolled(a) ==
    IF Epoch(slot) > Epoch(a.start)
    THEN [a EXCEPT !.start = Epoch(slot) * WindowSlots, !.txs = 0]
    ELSE a

\* The account after one more payment of n lamports.
ChargedUncounted(a, n) == [a EXCEPT !.spent = @ + n]
Charged(a, n) == [a EXCEPT !.spent = @ + n, !.txs = @ + 1]

\* init_if_needed: the hardware wallet pays for a record that is not there.
RecordFee(p) == IF p \in records THEN 0 ELSE RecordRent

\* The lifetime budget.  Variant: the new payment is not in the sum.
WithinBudgetBefore(a, n) == a.spent < a.budget
WithinBudget(a, n) == a.spent + n <= a.budget

\* The direct debit and credit; the provider's balance is read after the
\* debit.  Variant: read before it.
PaidStale(balance, o, p, n) == [Debit(balance, Pda(o), n) EXCEPT ![p] = balance[p] + n]
Paid(balance, o, p, n) == Credit(Debit(balance, Pda(o), n), p, n)

\* total_received after the payment.  Variant: the payment that creates the
\* record is not counted in it.
TotalWithoutFirst(p, n) == IF p \in records THEN received[p] + n ELSE 0
TotalReceived(p, n) == received[p] + n

StreamComputePayment(o, p, amount) ==
    /\ o \in Registered
    /\ LET a == Rolled(agent[o])
           funded == Debit(lamports, a.hardware, RecordFee(p))
       IN  /\ amount > 0
           /\ amount <= MaxPayment
           /\ Contains(a.providers, p)
           /\ a.txs < MaxTxs
           /\ WithinBudget(a, amount)
           /\ lamports[a.hardware] >= RecordFee(p)
           /\ funded[Pda(o)] >= amount
           /\ agent' = [agent EXCEPT ![o] = Charged(a, amount)]
           /\ lamports' = Paid(funded, o, p, amount)
    /\ records' = records \cup {p}
    /\ received' = [received EXCEPT ![p] = TotalReceived(p, amount)]
    /\ UNCHANGED <<slot, logs>>

ValidSeverity(v) == v <= 3

\* The rent of the log.  Variant: an agent that spent its budget cannot log.
RentCoveredInBudget(o) == /\ lamports[agent[o].hardware] >= LogRent
                          /\ agent[o].spent < agent[o].budget
RentCovered(o) == lamports[agent[o].hardware] >= LogRent

\* The log account is seeded by (agent, clock.slot, sub_index) and init fails
\* when it exists.  Variant: init_if_needed would take it over.
LogsAt(o, sub) == {l \in logs : l.agent = o /\ l.slot = slot /\ l.sub = sub}
UnclaimedOrReused(o, sub) == TRUE
Unclaimed(o, sub) == LogsAt(o, sub) = {}

\* Nothing here looks at the budget or at the window.
LogComplianceEvent(o, sub, hash, severity) ==
    /\ o \in Registered
    /\ ValidSeverity(severity)
    /\ RentCovered(o)
    /\ Unclaimed(o, sub)
    /\ logs' = (logs \ LogsAt(o, sub))
                  \cup {[agent |-> o, slot |-> slot, sub |-> sub,
                         hash |-> hash, severity |-> severity]}
    /\ lamports' = Debit(lamports, agent[o].hardware, LogRent)
    /\ UNCHANGED <<slot, agent, received, records>>

----------------------------------------------------------------------------
(* The cluster and the operator.                                           *)

AdvanceSlot ==
    /\ slot < MaxSlot
    /\ slot' = slot + 1
    /\ UNCHANGED <<agent, lamports, received, records, logs>>

\* A plain system transfer from an owner: topping up a hardware wallet, or
\* sending lamports to any other account, the agent's PDA included.
Transfer(o, k) ==
    /\ o # k
    /\ lamports[o] >= LogRent
    /\ lamports' = Credit(Debit(lamports, o, LogRent), k, LogRent)
    /\ UNCHANGED <<slot, agent, received, records, logs>>

UpdateProviderWhitelist(o) ==
    \E p \in Providers : AddProvider(o, p) \/ RemoveProvider(o, p)

Next ==
    \/ \E o \in Owners, h \in Hardware, b \in Budgets : InitializeAgent(o, h, b)
    \/ \E o \in Owners : UpdateProviderWhitelist(o)
    \/ \E o \in Owners, p \in Providers, n \in Amounts : StreamComputePayment(o, p, n)
    \/ \E o \in Owners, s \in SubIndexes, d \in Hashes, v \in Severities :
          LogComplianceEvent(o, s, d, v)
    \/ AdvanceSlot
    \/ \E o \in Owners, k \in Recipients : Transfer(o, k)

Spec == Init /\ [][Next]_vars

----------------------------------------------------------------------------
(* What the program promises.                                              *)

\* An agent never spends more than its lifetime budget, and its PDA always
\* holds its own rent and everything it has not spent, whatever other
\* accounts do and whoever the owner whitelists: the checked_sub on the PDA
\* can never refuse a payment the budget allows, and a payment never eats
\* into the rent that keeps the account alive.
Solvent ==
    \A o \in Registered :
        /\ agent[o].spent <= agent[o].budget
        /\ lamports[Pda(o)] >= AgentRent + agent[o].budget - agent[o].spent

\* The whitelist never exceeds its allocated space, and never holds a
\* provider twice, in any sequence of pushes and swap-removes: one Remove is
\* enough to stop payments to a provider.
WhitelistIsSet ==
    \A o \in Registered :
        LET list == agent[o].providers
        IN  /\ Len(list) <= MaxProviders
            /\ \A i, j \in 1..Len(list) : list[i] = list[j] => i = j

\* The stored window is aligned, is not ahead of the clock, and its count is
\* within the limit, so the lazy reset never sees a window of the future.
WindowAligned ==
    \A o \in Registered :
        /\ agent[o].start <= slot
        /\ agent[o].start = Epoch(agent[o].start) * WindowSlots
        /\ agent[o].txs <= MaxTxs

\* A compliance log account is never rewritten or closed.
LogsImmutable == [][logs \subseteq logs']_vars
=============================================================================
