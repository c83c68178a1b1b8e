SPECIFICATION FairSpec
CONSTANTS
  BoardCount = 2
  SlaveAddr <- MCSlaveAddr
  PowerBoards <- MCPowerBoards
  Words = {"off", "on", "onLess"}
  AllOff = "off"
  BootWord = "off"
  InitWord <- MCInitWord
  PollTicks = 2
  MaxCommands = 2
  MaxFaults = 2
INVARIANTS TypeOK NoCrossTalk
PROPERTIES ServiceSpec Converges
