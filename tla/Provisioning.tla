----------------------------- MODULE Provisioning -----------------------------
(***************************************************************************)
(* setup_devnet.py and initialise_mainnet.py: the scripts that make the    *)
(* key files, fund the wallets, create the agent and whitelist its         *)
(* provider.  Either is run again after a run that was stopped, failed or  *)
(* ended; a transaction may land though the script never hears of it, and  *)
(* the bridge pays between runs.  Amounts are hundredths of a SOL.         *)
(***************************************************************************)
EXTENDS Integers, Sequences, SequencesExt

CONSTANTS Scripts,              \* of "devnet" and "mainnet"
          DeployerSol,          \* what the deployer holds at the start
          NoAgent,
          MaxRuns               \* bound: runs of the script

VARIABLES
    script,
    file,       \* key files: absent, cut short by a crash, or whole
    sol,        \* balances
    agent,      \* lamports in the agent's account, or NoAgent
    listed,     \* the agent's whitelist holds the provider
    record,     \* the provider's account exists
    env,        \* sdk/.env.mainnet, as a key file
    pc, todo,   \* the script: its step, the wallets the step has left
    ended,      \* how the last run ended
    runs

chain == <<sol, agent, listed, record>>
disk == <<file, env>>
vars == <<script, disk, chain, pc, todo, ended, runs>>

----------------------------------------------------------------------------
(* The scripts' figures.                                                   *)

Wallets == IF script = "mainnet" THEN <<"hw", "provider", "owner">> ELSE <<"hw", "owner">>
Floor(w) == IF script = "devnet" THEN 100
            ELSE CASE w = "hw" -> 50 [] w = "provider" -> 1 [] w = "owner" -> 10
Grant(w) == IF script = "devnet" THEN 200 ELSE Floor(w)
ComputeBudget == IF script = "devnet" THEN 50 ELSE 5
Rent == 1
Payment == 1

Init ==
    /\ script \in Scripts
    /\ file = [w \in ToSet(Wallets) |-> "absent"] /\ env = "absent"
    /\ sol = [w \in {"deployer", "hw", "provider", "owner"} |->
                 IF w = "deployer" THEN DeployerSol ELSE 0]
    /\ agent = NoAgent /\ listed = FALSE /\ record = FALSE
    /\ pc = "off" /\ todo = <<>> /\ ended = "never" /\ runs = 0

At(step) == pc = step
Proceed(step, wallets) == pc' = step /\ todo' = wallets /\ UNCHANGED <<script, ended, runs>>
Exit(how) == pc' = "off" /\ todo' = <<>> /\ ended' = how /\ UNCHANGED <<script, runs>>

----------------------------------------------------------------------------
(* One action per step; a step that raises ends the run.                   *)

Start ==
    /\ At("off") /\ runs < MaxRuns
    /\ pc' = "keys" /\ todo' = Wallets /\ runs' = runs + 1
    /\ UNCHANGED <<script, disk, chain, ended>>

\* load_or_create: a file that is there is read, one cut short is no key.
LoadOrCreate ==
    /\ At("keys") /\ todo # <<>> /\ UNCHANGED <<chain, env>>
    /\ IF file[Head(todo)] = "cut"
       THEN Exit("no key") /\ UNCHANGED file
       ELSE Proceed("keys", Tail(todo)) /\ file' = [file EXCEPT ![Head(todo)] = "whole"]

\* The mainnet script adds up what the wallets lack.
Missing(w) == IF sol[w] < Floor(w) THEN Floor(w) - sol[w] ELSE 0
Preflight ==
    /\ At("keys") /\ todo = <<>> /\ UNCHANGED <<disk, chain>>
    /\ IF script = "mainnet"
          /\ sol["deployer"] < 5 + Missing("hw") + Missing("provider") + Missing("owner")
       THEN Exit("insufficient") ELSE Proceed("fund", Wallets)

\* A wallet below its floor gets the whole grant, whatever it has.
Airdrops(w) == script = "devnet" /\ sol' = [sol EXCEPT ![w] = @ + Grant(w)]
Transfers(w) ==
    /\ script = "mainnet" /\ sol["deployer"] >= Grant(w)
    /\ sol' = [sol EXCEPT ![w] = @ + Grant(w), !["deployer"] = @ - Grant(w)]
Fund ==
    /\ At("fund") /\ todo # <<>> /\ UNCHANGED <<disk, agent, listed, record>>
    /\ LET w == Head(todo) IN
       IF sol[w] >= Floor(w) THEN Proceed("fund", Tail(todo)) /\ UNCHANGED sol
       ELSE \/ /\ Airdrops(w) \/ Transfers(w)
               /\ Proceed("fund", Tail(todo)) \/ Exit("unconfirmed")
            \/ Exit("not funded") /\ UNCHANGED sol

\* Paid by the owner; refused without the lamports.
CreatesAgent ==
    /\ sol["owner"] >= ComputeBudget + Rent /\ agent' = ComputeBudget
    /\ sol' = [sol EXCEPT !["owner"] = @ - ComputeBudget - Rent]
InitializeAgent ==
    /\ At("fund") /\ todo = <<>> /\ UNCHANGED <<disk, listed, record>>
    /\ IF agent # NoAgent THEN Proceed("whitelist", <<>>) /\ UNCHANGED <<sol, agent>>
       ELSE \/ CreatesAgent /\ (Proceed("whitelist", <<>>) \/ Exit("unconfirmed"))
            \/ Exit("not created") /\ UNCHANGED <<sol, agent>>

\* Whitelisted is taken to mean that the provider's account exists.  The
\* program refuses a provider that the list holds.
ListsProvider == ~listed /\ listed' = TRUE
AfterWhitelist == IF script = "mainnet" THEN Proceed("smoke", <<>>) ELSE Exit("complete")
AddProvider ==
    /\ At("whitelist") /\ UNCHANGED <<disk, sol, agent, record>>
    /\ \/ record /\ AfterWhitelist /\ UNCHANGED listed
       \/ ~record /\ ListsProvider /\ (AfterWhitelist \/ Exit("unconfirmed"))
       \/ ~record /\ listed /\ Exit("already whitelisted") /\ UNCHANGED listed
       \/ ~record /\ Exit("not whitelisted") /\ UNCHANGED listed

\* stream_compute_payment creates the provider's account; the payer pays its rent.
Pays ==
    /\ agent # NoAgent /\ agent >= Payment /\ listed
    /\ record \/ sol["hw"] >= Rent
    /\ agent' = agent - Payment /\ record' = TRUE
    /\ sol' = [sol EXCEPT !["hw"] = IF record THEN @ ELSE @ - Rent]
    /\ UNCHANGED <<listed, disk>>

\* A failure of the smoke test is not fatal.
SmokeTest ==
    /\ At("smoke") /\ Proceed("env", <<>>)
    /\ Pays \/ UNCHANGED <<chain, disk>>

\* What the file holds is kept, and the keys of this run are written over it.
WriteEnv ==
    /\ At("env") /\ env' = "whole" /\ Exit("complete") /\ UNCHANGED <<file, chain>>

\* The process is stopped; a file it was writing is left cut short.
Stopped ==
    /\ ~At("off") /\ Exit("stopped") /\ UNCHANGED chain
    /\ \/ UNCHANGED disk
       \/ /\ At("keys") /\ todo # <<>> /\ file[Head(todo)] = "absent"
          /\ file' = [file EXCEPT ![Head(todo)] = "cut"] /\ UNCHANGED env
       \/ At("env") /\ env' = "cut" /\ UNCHANGED file

\* Between runs the bridge pays.
BridgePays == At("off") /\ Pays /\ UNCHANGED <<script, pc, todo, ended, runs>>

Next ==
    \/ Start \/ LoadOrCreate \/ Preflight \/ Fund \/ InitializeAgent \/ AddProvider
    \/ SmokeTest \/ WriteEnv \/ Stopped \/ BridgePays

Spec == Init /\ [][Next]_vars

----------------------------------------------------------------------------
\* "All steps are idempotent": a run of the script is never ended by a step
\* that an earlier run has done.
AllStepsIdempotent == ended # "already whitelisted"
=============================================================================
