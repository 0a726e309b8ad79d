CONSTANTS
  T = 2
  AdminTo = {"ACTIVE", "CLOSED"}
  Business = {"complete", "cancel"}
SPECIFICATION Spec
INVARIANT TicketsAreComplete
