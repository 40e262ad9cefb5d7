SPECIFICATION GatewaySpec
CONSTANTS
  Completion = {c1}
  Prompts <- AllPrompts
  Deployments <- ProductionAndDevelopment
INVARIANT RawNeverHosted
CHECK_DEADLOCK FALSE
