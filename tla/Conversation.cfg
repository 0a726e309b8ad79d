CONSTANTS
  T = 3
  Business = {"special", "complete", "reopen"}
  AdminTo = {"ACTIVE", "CLOSED"}
SPECIFICATION Spec
INVARIANTS
  TypeOK
  NumberIsObeyed
  SelectionEndsWithTicket
PROPERTY
  StaleChoiceActsOnNone
