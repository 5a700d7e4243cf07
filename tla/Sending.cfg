SPECIFICATION FairSpec
CHECK_DEADLOCK FALSE
CONSTANTS
    Calls = {c1, c2}
    Adapters = {"share_ugc", "rest_posts"}
    Drafts <- SomeDrafts
    Authors = {"me"}
    Enabled = {"text", "article", "image", "document"}
    PerEndpoint <- OneRegister
    AllDaily = 4
    DayLength = 1
    Backoff = 1
    Statuses = {201, 302, 400, 429, 500}
    RetryAfters <- SomeHeaders
    MaxTime = 1
INVARIANTS TypeOK OnlyThumbnailsAreLost RefusalCostsNothing WaitIsKept Inductive
PROPERTIES KeepsExchange CallsEnd
