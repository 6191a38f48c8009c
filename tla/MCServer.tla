------------------------------ MODULE MCServer ------------------------------
(* World configurations for Server: up to two creatures and two zones, with *)
(* every error validate_world_config knows, and sound ones.                 *)
EXTENDS Server

MCCreatures == [id : {1}, level : {0, 1}, max_health : {0, 1}, move_speed : {-1, 0}]
MCZones == [id : {1, 2}, named : BOOLEAN, aoi_radius : {0, 1}, spawns : SUBSET {1}]
Sound == [id |-> 1, level |-> 1, max_health |-> 1, move_speed |-> 0]
Second == [id : {1, 2}, named : BOOLEAN, aoi_radius : {0, 1}, spawns : {{}}]

MCConfigs ==
    [creatures : {<<>>, <<Sound, Sound>>} \cup {<<c>> : c \in MCCreatures},
     zones : {<<>>} \cup {<<z>> : z \in MCZones}
                \cup {<<z, y>> : z \in {x \in MCZones : x.id = 1}, y \in Second}]
=============================================================================
