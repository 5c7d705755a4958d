CONSTANTS
    q1 = q1
    c1 = c1
    c2 = c2
    Quotes = {q1}
    Unlimited = {}
    Calls = {c1, c2}
    QuoteOf <- MCQuoteOf
    Standalone = {r1}
    Expirers = {"quoteJob", "requestJob", "GetPayment"}
    MaxFaults = 1
    MaxCrashes = 1
SPECIFICATION Spec
INVARIANTS
    QuoteBacksOneSession
    PaidInTimeIsFinal
PROPERTIES
    PendingRequestsEnd
CHECK_DEADLOCK FALSE
