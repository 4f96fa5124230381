SPECIFICATION ChatSpec
CONSTANTS
    Session = {a, b}
    Resumed = {a}
    Intents = {"talk", "ask", "yolo"}
    HistoryLimit = 2
    MaxSends = 2
CHECK_DEADLOCK FALSE
INVARIANTS
    ChatTypeOK
    HistoryExact
PROPERTIES
    WritesPermitted
    ChatsEnd
