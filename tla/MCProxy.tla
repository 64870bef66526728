------------------------------ MODULE MCProxy ------------------------------
(***************************************************************************)
(* Proxy for TLC: one to three requests, for a host with a rule, with a    *)
(* rule that keeps the connection, or without one, that parse or do not,   *)
(* one with a body that reads like a request and one that is too large;    *)
(* and an upstream that keeps to close or ignores it.                      *)
(***************************************************************************)
EXTENDS Proxy

MCLower == [n \in {"Host", "Auth", "auth", "Connection", "Keep-Alive", "X"} |->
              CASE n = "Host" -> "host" [] n \in {"Auth", "auth"} -> "auth"
                [] n = "Connection" -> "connection" [] n = "Keep-Alive" -> "keep-alive"
                [] n = "X" -> "x"]
MCHostOf == [v \in {"API:443", "keep", "other"} |-> IF v = "API:443" THEN "api" ELSE v]
MCPatternOf == [p \in {" ", ".Api.", "keep"} |->
                  CASE p = ".Api." -> "api" [] p = " " -> "" [] OTHER -> p]
MCRules ==
    <<[host |-> " ", headers |-> << >>],
      [host |-> ".Api.", headers |-> <<Header("auth", "new")>>],
      [host |-> "keep", headers |-> <<Header("Connection", "keep-alive")>>]>>

Api == Headed(<<Header("Auth", "old"), Header("Host", "API:443")>>)
ApiKeep == Headed(<<Header("Host", "API:443"), Header("Connection", "keep-alive")>>)
Keep == Headed(<<Header("Host", "keep")>>)
Other == Headed(<<Header("Host", "other")>>)
Unparsed == <<Garbled, NL, NL>>
Large == Headed(<<Header("Host", "other"), Header("X", "1"), Header("X", "2"), Header("X", "3")>>)
Many == Headed(<<Header("Host", "API:443"), Header("X", "1"), Header("X", "2")>>)

Posted == Api \o <<Line("1.1"), NL, NL>>

Plan(tls, sni, reqs, obeys) == [tls |-> tls, sni |-> sni, requests |-> reqs, obeys |-> obeys]
MCPlans ==
    {Plan(TRUE, "api", reqs, TRUE) :
        reqs \in {<<ApiKeep, Api, Api>>, <<Posted, ApiKeep>>, <<Keep, Keep>>, <<Other, Api>>,
                  <<Unparsed, Api>>, <<Large>>, <<Many>>}}
      \cup {Plan(TRUE, "api", <<Api, ApiKeep>>, obeys) : obeys \in BOOLEAN}
      \cup {Plan(FALSE, "api", <<Api>>, TRUE), Plan(TRUE, "", <<Api>>, TRUE)}
=============================================================================
