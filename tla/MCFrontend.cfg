SPECIFICATION Spec
CONSTANTS
    None = None
    f = f
    g = g
    MaxCalls = 2
    Profiles <- MCProfiles
    Portfolio = {f, g}
    Name = {"a", "b"}
    Period = {"1M", "ALL"}
    Template = {f, g}
    Content = {"a", "b"}
    Instrument = {f, g}
    FixedRange = {"3M", "ALL"}
    Day = {1, 2}
    Available <- MCAvailable
    MaxVersion = 1
    MaxJobs = 2
    Typed = {5}
    Nav <- MCNav
    Today = 2
INVARIANTS
    ListChartFollowsChoice
    ListRowsSettle
    StrategiesFollow
    TemplateChartShowsChoice
    SyncAllReports
    FundHistoryAtRest
    FormPriceMatches
PROPERTIES
    FormKeepsTypedPrice
    TemplateBuysPreviewed
CHECK_DEADLOCK FALSE
