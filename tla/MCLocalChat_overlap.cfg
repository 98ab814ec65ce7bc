SPECIFICATION SceneSpec
CONSTANTS
    Runs = {r1, r2}
    Conversations = {todo}
    Chat = chat
    None = None
    Engines = {"agents_sdk"}
    Threads = {t1, t2}
    Messages = {}
    Notices = {}
    MaxRestarts = 0
    Scenes = {"crossing"}
INVARIANT
    OneLiveRun
CHECK_DEADLOCK FALSE
