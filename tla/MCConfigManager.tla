--------------------------- MODULE MCConfigManager ---------------------------
(* Two texts that differ in shell and in their use of a widget type, one of  *)
(* them forbids layout edits, and a malformed one. The custom package of     *)
(* "tasks" hides one that comes with the server; "rota" has no package yet.  *)
EXTENDS ConfigManager

Text(n, ok, edit, ts, sh) ==
    [name |-> n, wellFormed |-> ok, allowEdit |-> edit, types |-> ts, shell |-> sh]
MCTypes == {"tasks", "rota"}
MCBuiltin == {"tasks"}
MCInstalled == {[t \in Types |-> IF t = "tasks" THEN c ELSE ABSENT]: c \in Contents}
MCYamls == {Text("open", TRUE, TRUE, {}, "plain"),
            Text("fixed", TRUE, FALSE, {"tasks"}, "video"),
            Text("bad", FALSE, TRUE, {}, "plain")}
MCOverrides == {[name |-> "narrow", fits |-> {"open"}]}
=============================================================================
