---------------------------- MODULE MCLocalChat ----------------------------
(* LocalChat in scenes.  A todo: "agents", one request at a time and any      *)
(* engine; "crossing", two requests at once.  The chat: "phone", two requests *)
(* at once, without resets; "restart", one at a time, with a restart of the   *)
(* web process and no resets; "notices", one at a time, with the poller.      *)
(* Where no engine is named it is the SDK.                                    *)
EXTENDS LocalChat

CONSTANT Scenes
ASSUME ScenesAreKnown ==
    Scenes \subseteq {"agents", "crossing", "phone", "restart", "notices"}

VARIABLE scene
sceneVars == <<vars, scene>>

Serving == {t \in Threads : req'[t].step # "idle"}
First == CHOOSE t \in Threads : TRUE
InScene ==
    /\ \A t \in Serving : (req'[t].conv # Chat) <=> (scene \in {"agents", "crossing"})
    /\ scene \notin {"crossing", "phone"} => Serving \subseteq {First}
    /\ scene \in {"phone", "restart"} => \A t \in Serving : req'[t].step # "stop"
    /\ scene = "notices" => \A t \in Serving : req'[t].step # "deliver"
    /\ append' # NoAppend => scene = "notices"
    /\ restarts' > 0 => scene = "restart"
    /\ \A r \in Runs : run'[r].conv # None /\ run'[r].engine = "hermes" =>
          scene = "agents" \/ (scene = "phone" /\ turn'[r].from # None)

SceneInit == Init /\ scene \in Scenes
SceneSpec ==
    /\ SceneInit
    /\ [][Next /\ InScene /\ UNCHANGED scene]_sceneVars
    /\ \A r \in Runs : WF_vars(TurnStep(r))
    /\ \A t \in Threads : WF_vars(RequestStep(t))
=============================================================================
