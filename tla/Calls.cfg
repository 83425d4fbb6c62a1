SPECIFICATION Spec
CONSTANTS
  Classes <- MCClasses
  Exchanges <- WireExchanges
  Focus <- MCFocus
  Inputs <- MCInputs
INVARIANTS
  TypeOK
  RequestArrives
  FailsByCause
  HonestAnswer
  NeverForged
PROPERTY
  HandshakeStrict
