\* Either script, run twice, with enough in the deployer's wallet.
SPECIFICATION Spec
CONSTANTS
    Scripts = {"devnet", "mainnet"}
    DeployerSol = 200
    NoAgent = NoAgent
    MaxRuns = 2
CHECK_DEADLOCK FALSE
INVARIANT AllStepsIdempotent
