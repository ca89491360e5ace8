\* Addresses of three one-bit digits; prefixes of up to four addresses.
CONSTANTS
  MaxPort = 3
  TopPorts <- MCTopPorts
  DigitBits = 1
  Digits = 3
  MaxHostBits = 2
  Aliases = {name}
  Invocations <- MCInvocations
  Defaults <- MCDefaults
  Second = 4
  Margin = 2
  Word = 16
  NoLimit = NoLimit
SPECIFICATION Spec
INVARIANTS FilterInPlace TargetsExact RefusalsExact Precedence LimitsUsable
