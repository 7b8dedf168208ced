SPECIFICATION Spec
CONSTANTS
    Cases <- EveryCase
    NoRow = NoRow
INVARIANTS RoutesAgree TextFits BareIsNoted ShownAsStored TwinsAgree
