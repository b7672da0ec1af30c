\* Two clients on two rooms.
SPECIFICATION Spec
CONSTANTS
  NSlots = 2
  NRooms = 2
  Names = {"main", "alon", "along"}
  Stored <- MCStored
  Main = "main"
  Userids <- MCUserids
  Chatids <- MCChatids
  StoredId <- MCStoredId
  StoredChat <- MCStoredChat
  Levels <- MCLevels
  Exempt = {"boss"}
VIEW RoomsInUse
INVARIANTS
  TablesAgree
  OneOp
  ChatidsUnique
PROPERTIES
  LockHolds
