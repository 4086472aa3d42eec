CONSTANTS
    Alerts <- MCAlerts
    Heartbeats <- MCHeartbeats
    Selectable <- MCSelectable
    Criteria <- MCCriteria
    MaxFields = 2
    MaxCriteria = 1
SPECIFICATION Spec
INVARIANTS
    RowsAnswerPath
    FieldsShareObject
    ReadsOwnColumn
    OrdersOwnColumn
    OneTopClass
CHECK_DEADLOCK FALSE
