CONSTANTS
    MarkupCards <- MC_MarkupCards
    AjaxCards <- MC_AjaxCards
    ShownCards <- MC_ShownCards
    Messages <- MC_Messages
    CardClasses <- MC_CardClasses
    HasButton <- MC_HasButton
    OptOut <- MC_OptOut
    MsgTypes <- MC_MsgTypes
    ShowVariants <- MC_ShowVariants
    ShowDurations <- MC_ShowDurations
    AnimDelay = 1
    RemoveDelay = 2
    AutoDelay = 4
    SuccessDuration = 4
    LogCap = 2
    MaxApiCalls = 1
    MaxDismiss = 1
    StorageBroken = FALSE
INIT Init
NEXT Next
INVARIANT ExitStaysFaded
CHECK_DEADLOCK FALSE
