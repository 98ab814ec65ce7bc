SPECIFICATION SceneSpec
CONSTANTS
    Runs = {r1}
    Conversations = {todo}
    Chat = chat
    None = None
    Engines = {"hermes"}
    Threads = {t1}
    Messages = {}
    Notices = {}
    MaxRestarts = 0
    Scenes = {"agents"}
INVARIANT
    ResetForgets
CHECK_DEADLOCK FALSE
