CONSTANTS
  Root = "race"
  Nodes <- MCNodes
  Kind <- MCKind
  Children <- MCChildren
  Above <- MCAbove
  Errors <- MCErrors
  Outcomes <- MCOutcomes
  Timed = {"limit", "guard"}
  Evaluating = {"each", "limit"}
  Catches <- MCCatches
  Catching = {"attempt"}
  Retrying = {"attempt"}
  AttemptLimit <- MCAttemptLimit
  Deadlined = {"attempt"}
  Conditional = {"attempt"}
  Healing = {"attempt"}
  HealLimit <- MCHealLimit
  MaxItems = 2
SPECIFICATION Spec
INVARIANT FirstSuccessWins
CHECK_DEADLOCK FALSE
