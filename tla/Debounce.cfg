SPECIFICATION DispatchSpec
CONSTANTS
    Path <- MCPath
    m_debounceTime = 2
    m_debounceCleanupIntervalMs = 2
    m_debounceExpireMs = 3
    MaxTime = 9
    Watched <- MCWatched
    OtherEvent <- MCOtherEvent
    Filter <- MCFilter
    Client = {c1}
    Bound <- MCBound
    c1 = c1
INVARIANTS TypeOK StampsYoung Filtering OwnEntry
PROPERTIES ImplementsAbstract Spacing Routing
