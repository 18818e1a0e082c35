------------------------------ MODULE MCSearch ------------------------------
(***************************************************************************)
(* The instance of Search for TLC.                                         *)
(***************************************************************************)
EXTENDS Search, TLC

\* FIN and fin stand for a word whose letters are not of ASCII: only the
\* filesystem and MySQL know that they differ in case only, and MySQL takes
\* f~n for the same word as well. a_b and c\d are special to LIKE.
SomeTexts == {"", "log", "probe", "info", "error", "ERROR", "api", "web", "t1", "t2", "t3", "t4",
              "boom", "Boom", "FIN", "fin", "f~n", "a_b", "axb", "c\\d", "cd"}

SomeLower(x) ==
  CASE x = "ERROR" -> "error" [] x = "Boom" -> "boom" [] x = "FIN" -> "fin" [] OTHER -> x
SomeAsciiLower(x) == IF x = "FIN" THEN x ELSE SomeLower(x)
SomeCollate(x) == IF x = "f~n" THEN "fin" ELSE SomeLower(x)
SomePatterns == ("a_b" :> {"a_b", "axb"}) @@ ("c\\d" :> {"cd"})

\* A batch with a number in it; the agent's batch of two, one of which names
\* no host; a websocket client's event without level, host and time, over IPv6;
\* a line of text.
Probe == Fields("probe", 9, "info", "web", "", {"axb"}, "t3")
Agent1 == Fields("log", 3, "error", "api", "h1", {"a_b"}, "t1")
Agent2 == Fields("log", 7, "ERROR", "web", "", {"boom", "FIN"}, "t2")

V4 == [host |-> "10.0.0.1", port |-> 40000, v6 |-> FALSE]
V6 == [host |-> "::1", port |-> 40001, v6 |-> TRUE]

SomeDeliveries ==
  <<[via |-> "http", addr |-> V4, v |-> Envelope(<<Object(Probe), Null, Scalar>>)],
    [via |-> "http", addr |-> V6, v |-> EncodeBatchJSON(<<Agent1, Agent2>>)],
    [via |-> "json", addr |-> V6, v |-> Object(Fields("", 0, "", "web", "", {"c\\d"}, "t4"))],
    [via |-> "plain", addr |-> V4, v |-> {"Boom"}]>>

SomeSearches ==
  {NoSearch,
   [NoSearch EXCEPT !.kind = "log", !.from = 4, !.to = 8, !.services = {"web"}, !.word = "boom"],
   [NoSearch EXCEPT !.levels = {"error"}, !.services = {"api", "web"}, !.trace = "t2", !.word = "fin"]}

Calendar == [t \in 1..20 |-> IF t <= 4 THEN 1 ELSE 2]
=============================================================================
