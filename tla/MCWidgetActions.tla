--------------------------- MODULE MCWidgetActions ---------------------------
(* Two displays; three items of which the first does not exist yet and the last *)
(* is a subtask; a list that is read item by item.                              *)
EXTENDS WidgetActions

Conf(source, list, token, refresh) ==
  [source |-> source, list |-> list, token |-> token, refresh |-> refresh]

MCConfs ==
  {Conf("gtasks", TRUE, {}, {"file"}), Conf("gtasks", TRUE, {}, {}),
   Conf("todoist", FALSE, {"env", "options"}, {}), Conf("todoist", FALSE, {}, {}),
   Conf("hass", TRUE, {"options"}, {})}

MCUsers == {"hall", "kitchen"}

MCAsks == [hall |-> {<<2, "done">>}, kitchen |-> {<<0, "done">>, <<2, "open">>, <<3, "done">>}]

MCParent == <<0, 0, 2>>

MCInitially == <<"absent", "open", "open">>

MCDashboards == [own |-> <<2>>, default |-> <<3, 2>>]
=============================================================================
