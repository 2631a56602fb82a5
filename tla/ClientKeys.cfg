SPECIFICATION Spec
CONSTANTS
  Keys = {"prefix", "esc", "[", "nl", "d", "w", "m", ":"}
  Finals = {"f12", "arrow", "mouse", "start"}
  Pastes <- MCPastes
  MaxPasteChunk = 5
  MBinds = {"", "passthrough"}
  MaxBursts = 3
  MaxFrames = 2
  MaxChan = 2
INVARIANTS ClientOK
PROPERTIES PasteNeverActs KeysAreRead ScreenRepaired
CHECK_DEADLOCK FALSE
