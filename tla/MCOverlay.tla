----------------------------- MODULE MCOverlay -----------------------------
(***************************************************************************)
(* Overlay for TLC: two keys, host texts of one to three lines.            *)
(***************************************************************************)
EXTENDS Overlay

MCKeys == {"A", "B"}
MCNormKey == [k \in MCKeys |-> k]
MCValues == {"s1", "s2", "v", PLACEHOLDER}
MCReparsed == [v \in MCValues |-> v]

(* ".env", ".npmrc", "key" (sniffed), "mitm.yaml", "notes" *)
MCByName == [n \in Names |->
               CASE n = ".env" -> "Env" [] n = ".npmrc" -> "Npmrc"
                 [] n = "mitm.yaml" -> "MitmYaml" [] OTHER -> "None"]

EnvText == <<Pair("A", "s1"), Pair("B", "s2")>>
KeyText == <<Mark("begin"), Mark("body"), Mark("end")>>

(* The texts the host stores: one of each kind. *)
OneText == [n \in Names |->
    CASE n \in {".env", "mitm.yaml"} -> {EnvText}
      [] n = "key" -> {KeyText}
      [] OTHER -> {<<Mark("junk")>>}]

(* A choice of texts for `.env`. *)
EnvTexts == [n \in Names |-> {EnvText, <<Pair("A", "s1")>>}]

(* Malformed buffers arise from NUL padding. *)
MCTyped == {Pair("A", "v"), Pair("B", PLACEHOLDER)}
TypedOne == {Pair("A", "v")}
MountedEnv == <<".env">>

(* The answer to the last request influences no later step. *)
MCView == <<dir, data, inodes, handles, op, missing, host>>
=============================================================================
