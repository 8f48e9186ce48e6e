SPECIFICATION Spec
CONSTANT MaxCommands = 1
CHECK_DEADLOCK FALSE
INVARIANT PaymentFailedUnpaid
