-------------------------- MODULE MCSettingsSync ---------------------------
(* An agent for one team, with two checks in the bucket. *)
EXTENDS SettingsSync

MCKeys == {"check.a", "check.b", "1.settings"}
MCOneCheck == {"check.a", "1.settings"}
MCWatchers == {"check.*", "1.settings"}
MCPattern == [w \in MCWatchers |->
                IF w = "check.*" THEN Keys \ {"1.settings"} ELSE {w}]
MCWatchList == <<"check.*", "1.settings">>
MCOps == {"put", "bad", "delete"}

MCPutDelete == {"put", "delete"}
=============================================================================
