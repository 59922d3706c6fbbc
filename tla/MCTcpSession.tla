---------------------------- MODULE MCTcpSession ----------------------------
(* An instance of TcpSession for TLC: every command, sensor ids that exist,  *)
(* that do not, and one beyond IntMax.                                       *)
EXTENDS TcpSession

Command(text, kind, id) == [text |-> text, asksFor |-> Answer(kind, id)]

MCCommands ==
  {Command(help, "help", 0), Command(list, "list", 0),
   Command(health, "health", 0), Command(stats, "stats", 0),
   Command(<<"get ", "2">>, "details", 2),
   Command(<<"get ", "1", "2">>, "invalid", 0)}
=============================================================================
