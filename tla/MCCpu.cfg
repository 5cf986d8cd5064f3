SPECIFICATION Spec
CONSTANTS
    W = 2
    Executions <- MCExecutions
    DataPlaces <- MCDataPlaces
INVARIANTS
    AccessHasItsCycle
    TemplateIsCount
    NativeIsInterp
    NativeTimedAsInterp
    RtiUndoesInterrupt
    ArithmeticMeans
