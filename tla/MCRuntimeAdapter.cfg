CONSTANTS
  FirstHost = h1
  OtherHost = h2
  FirstContract = c1
  OtherContract = c2
  MaxTurns = 2
  Turns <- MCTurns
  NoTurn = 0
  Calls = {call1}
  Requests <- MCRequests
  ContractOf <- MCContractOf
  HostOf <- MCHostOf
  None = None
  MaxProjections = 1
  MaxCancels = 2
CONSTRAINT FirstBinding
SPECIFICATION Spec
INVARIANTS TypeOK TerminalIsHonest PromptsAdmitted OneTurnAtATime
PROPERTY CancelledIsRecoverable
