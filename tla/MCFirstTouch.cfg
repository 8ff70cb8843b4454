SPECIFICATION FairSpec
CONSTANTS
    form1 = form1
    form2 = form2
    cart1 = cart1
    payment1 = payment1
    intent1 = intent1
    intent2 = intent2
    Forms = {form1, form2}
    Carts = {cart1}
    Failures = {payment1}
    Intents = {intent1, intent2}
    For <- MCFor
    Observed <- MCObserved
    Workers = {w1, w2}
    Desks = {d1}
    None = None
    MaxFaults = 1
INVARIANTS OneFirstTouch RecordedTruth
PROPERTIES ClosedStaysQuiet LedgerSpec FirstTouchSettles
CHECK_DEADLOCK FALSE
