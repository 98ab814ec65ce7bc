SPECIFICATION SceneSpec
CONSTANTS
    Runs = {r1, r2}
    Conversations = {todo, chat}
    Chat = chat
    None = None
    Engines = {"hermes", "agents_sdk"}
    Threads = {t1, t2}
    Messages = {m1}
    Notices = {n1}
    MaxRestarts = 1
    Scenes = {"agents", "crossing", "phone", "restart", "notices"}
INVARIANTS
    RunIsInReach
    TurnIsRecorded
    MemoryIsVisible
    OneTurnPerMessage
PROPERTIES
    StopLands
    TurnIsAnswered
CHECK_DEADLOCK FALSE
