\* One request or retry timer at a time beside the watchdog, two requests.
CONSTANTS
    Handlers = {h1}
    Watchdog = watchdog
    Feeds = {f1, f2}
    None = none
    MaxRequests = 2
    MarketOpen = TRUE
SPECIFICATION FairSpec
INVARIANT TypeOK
PROPERTIES LeaksEnd FeedComesBack
