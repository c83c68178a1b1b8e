SPECIFICATION FairSpec
CONSTANTS
  LIGHT = LIGHT
  FAN = FAN
  HEAT = HEAT
  PLAIN = PLAIN
  NONE = NONE
  ServerRelays = {PLAIN, HEAT}
  Debounce = 3
  LedTurns = 2
  MaxCommands = 2
PROPERTY FanIsServers
