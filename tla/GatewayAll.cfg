SPECIFICATION MCSpec
CONSTANTS
    FileKeys = {"MODEL", "ANTHROPIC_AUTH_TOKEN"}
    AskKeys = {"MODEL_OPUS", "TELEGRAM_BOT_TOKEN", "WEB_FETCH_ALLOW_PRIVATE_NETWORKS"}
    MaxSaves = 2
    Discovered <- FoundModels
    Incoming <- AllRequests
    MaxHops = 1
INVARIANTS
    ListedStaysRoutable
    FetchStaysInside
PROPERTIES
    ChangesAreAsked
CHECK_DEADLOCK FALSE
