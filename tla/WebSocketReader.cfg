SPECIFICATION ReaderSpec
CONSTANTS
  Scripts <- FiveScripts
INVARIANTS
  InStep
  MessagesWhole
PROPERTIES
  AllDelivered
\* The client may have nothing more to send.
CHECK_DEADLOCK FALSE
