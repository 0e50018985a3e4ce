CONSTANTS
    MarkupCards <- MC_MarkupCards
    ShownCards <- MC_ShownCards
    CardClasses <- MC_CardClasses
    HasButton <- MC_HasButton
    ShowVariants <- MC_ShowVariants
    AnimDelay = 1
    RemoveDelay = 2
    AutoDelay = 4
    Loads = 2
    MaxApiCalls = 1
    MaxClicks = 1
INIT Init
NEXT Next
INVARIANTS
    NativeExitStaysFaded
CHECK_DEADLOCK FALSE
