-------------------------- MODULE MCHardwareAgent --------------------------
(***************************************************************************)
(* Small instances of the program.  The agent's own PDA is among the keys  *)
(* an owner may whitelist, since update_provider_whitelist accepts any key.*)
(***************************************************************************)
EXTENDS HardwareAgentLedger, HardwareAgentAllowance

CONSTANTS o1, o2, h1, p1

LedgerProviders == {p1, Pda(o1)}
LedgerRecipients == {Pda(o1)}
LedgerEndowment ==
    [k \in {o1, o2, h1, p1, Pda(o1), Pda(o2)} |->
        CASE k = o1 -> 5 [] k = o2 -> 3 [] k = h1 -> 2 [] OTHER -> 0]
=============================================================================
