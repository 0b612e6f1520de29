------------------------------- MODULE MC_Reply -------------------------------
(* Requests over two argument values, "a" and "SLOTS" (a key, or the      *)
(* sub-command of CLUSTER), and the answers a redis server gives to each  *)
(* command the proxy sends.                                                *)
EXTENDS Reply

MCVerbs == {"GET", "SET", "DEL", "EXISTS", "MGET", "MSET", "KEYS", "DBSIZE",
            "SCAN", "CLIENT", "PING", "QUIT", "CLUSTER", "MSETNX"}

MCArgs == {"a", "SLOTS"}

MCAnswers(verb) ==
    CASE verb = "GET" -> {Bulk("a"), RESP("nullbulk", 0, "", <<>>)}
      [] verb \in {"DEL", "EXISTS"} -> {IntReply(0), IntReply(1)}
      [] verb \in {"SET", "MSET"} -> {Simple("OK")}
      [] verb = "KEYS" -> {Arr(<<Bulk("a")>>)}
      [] verb = "DBSIZE" -> {IntReply(2)}
      [] verb = "SCAN" -> {Arr(<<Bulk("5"), Arr(<<Bulk("a")>>)>>)}
      [] verb = "CLIENT" -> {Bulk("id=1")}
      [] OTHER -> {Error("ERR")}
=============================================================================
