---------------------------- MODULE SceneLoader ----------------------------
(***************************************************************************)
(* The scene directories of a running server: the list xs_scene_list_scan     *)
(* left it with (src/emu/scene_loader.c; the scan itself is in SceneStore).    *)
(***************************************************************************)
EXTENDS SceneFiles

CONSTANT Scenes  \* the directories of the list, in its order

Dirs == {Scenes[k] : k \in DOMAIN Scenes}

\* xs_scene_list_scan refuses an empty list and stops at XS_MAX_SCENES.
ASSUME ScenesAssumption ==
    /\ Scenes \in Seq(Dirs)
    /\ Len(Scenes) >= 1 /\ Len(Scenes) <= MaxScenes
    /\ \A dir \in Dirs : DirOK(dir)
=============================================================================
