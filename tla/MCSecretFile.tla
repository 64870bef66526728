---------------------------- MODULE MCSecretFile ----------------------------
(***************************************************************************)
(* SecretFile on small texts.  Originals have up to two lines (every       *)
(* duplicate and mixed-case combination of them), the buffer up to MaxLen  *)
(* lines.                                                                  *)
(***************************************************************************)
EXTENDS SecretFile

CONSTANT Odd   \* the values with a `$` or a `\` that the original may hold

MCKeys == {"tok", "TOK", "reg"}
MCSecretKeys == {"tok", "TOK"}
MCNormKey == [k \in MCKeys |-> IF k = "TOK" THEN "tok" ELSE k]

(* "esc" stands for a value such as a\\b, which is read back as a\b ("bs");
   "bs" for one whose escape the parser rejects; "dollar" for one with a
   variable that is not set, read back as the empty value; "bs q" for one with
   a backslash and a blank, which is quoted. *)
MCValues == {"s1", "s2", "bs", "esc", "bs q", "dollar", "", "v", PLACEHOLDER}
MCReparsed == [v \in MCValues |->
                 CASE v = "esc" -> "bs" [] v = "bs" -> NoValue
                   [] v = "dollar" -> "" [] OTHER -> v]

HostLines == {Pair(k, "s1") : k \in MCKeys} \cup {Pair("tok", v) : v \in {"s2"} \cup Odd}
MCOriginals == {<< >>} \cup {<<a>> : a \in HostLines} \cup {<<a, b>> : a, b \in HostLines}
MCTyped == {Pair(k, PLACEHOLDER) : k \in MCKeys} \cup {Pair("tok", "v"), Mark("bad")}
=============================================================================
