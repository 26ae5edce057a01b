SPECIFICATION McpSpec
CONSTANTS
  NoSession = NoSession
  MaxRetries = 2
  MaxReloads = 1
  MaxReconnects = 1
  MaxDeaths = 1
INVARIANT SettingsInForce
CHECK_DEADLOCK FALSE
