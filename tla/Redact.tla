------------------------------- MODULE Redact -------------------------------
(***************************************************************************)
(* The content handlers of src/redact.rs: pure transforms between the      *)
(* original text of a secret file and the redacted text the wrapped        *)
(* program sees.                                                           *)
(*                                                                         *)
(* A text is a sequence of lines and a line is the unit of offsets and     *)
(* sizes.  A line is a key with a value, or a mark for a line whose        *)
(* content no property looks into.  Comments and blank lines of `.env` and *)
(* of the YAML config carry no key and are dropped by the parsers, so they *)
(* are not represented; in `.npmrc` they are kept verbatim, exactly as a   *)
(* line with a key that names no credential is.                            *)
(***************************************************************************)
EXTENDS Naturals, Sequences

CONSTANTS
    Keys,         \* keys of `.env` / `.npmrc` lines, header names of mitm.yaml
    Values,       \* what a value can be, the placeholder included
    PLACEHOLDER,  \* redact.rs PLACEHOLDER
    SecretKeys,   \* the keys is_npmrc_secret_key accepts
    HeaderKeys,   \* the YAML keys that lie inside a `headers` mapping
    NormKey,      \* npmrc key normalisation: trim, then ASCII lower case
    Quoted,       \* values format_value quotes: empty, or with a blank, `#`, `"` or `'`
    Dollar,       \* values holding `$`
    Backslash,    \* values holding `\`
    Reparsed      \* external (dotenvy): what it reads from a line holding such a
                  \* value unescaped, NoValue if it rejects the line

NoKey == "no key"
NoValue == "no value"

ASSUME RedactAssumption ==
    /\ PLACEHOLDER \in Values
    /\ SecretKeys \subseteq Keys
    /\ HeaderKeys \subseteq Keys
    /\ NormKey \in [Keys -> Keys]
    /\ PLACEHOLDER \in Quoted \ Dollar
    /\ Reparsed \in [Values -> Values \cup {NoValue}]
    /\ NoValue \notin Values

(* Lines without a value of their own: a key header ("begin"), one with      *)
(* trailing blanks ("begin "), the body and the END line of a key, the one   *)
(* line that stands for a redacted body, a line the dotenv and YAML parsers  *)
(* reject ("junk"), a line that is not UTF-8 ("bad"), NUL padding ("zero").  *)
Marks == {"begin", "begin ", "body", "end", "hidden", "junk", "bad", "zero"}

Pair(k, v) == [t |-> "pair", k |-> k, v |-> v]
Mark(m) == [t |-> m, k |-> NoKey, v |-> NoValue]

Line == [t : {"pair"}, k : Keys, v : Values]
          \cup [t : Marks, k : {NoKey}, v : {NoValue}]

Text == Seq(Line)

Kinds == {"Env", "Npmrc", "PrivateKey", "MitmYaml"}

(* Result<Vec<u8>, RedactError> *)
Ok(text) == [ok |-> TRUE, text |-> text]
Err == [ok |-> FALSE, text |-> << >>]

-----------------------------------------------------------------------------
(* Mutant of LastIn: the first of several lines with one key wins. *)
FirstIn(idx) == CHOOSE i \in idx : \A j \in idx : i <= j

(* The last of several lines with one key wins, as when the lines are        *)
(* collected into a HashMap.                                                 *)
LastIn(idx) == CHOOSE i \in idx : \A j \in idx : j <= i

Utf8(b) == \A i \in DOMAIN b : b[i].t # "bad"

parse_env(b) ==
    IF \A i \in DOMAIN b : b[i].t = "pair" THEN Ok(b) ELSE Err

(* Values written in a way the dotenv parser does not undo.  Between quotes   *)
(* `\` and `"` are escaped, bare nothing is; `$`, which the parser expands,   *)
(* is escaped in neither.                                                     *)
Unescaped == Dollar \cup (Backslash \ Quoted)

(* The line `key=format_value(v)` as the dotenv parser reads it back: in a    *)
(* bare value `\\`, `\$` and `\n` are read as the character they escape, a     *)
(* `\` at the end is dropped, any other escape makes the line malformed.      *)
format_value(k, v) ==
    LET read == IF v \in Unescaped THEN Reparsed[v] ELSE v
    IN IF read = NoValue THEN Mark("junk") ELSE Pair(k, read)

redact_env(original) ==
    IF parse_env(original).ok
    THEN Ok([i \in DOMAIN original |-> Pair(original[i].k, PLACEHOLDER)])
    ELSE Err

(* original_map.get(key) of merge_env: the lines that may supply the value. *)
EnvSources(original, k) == {i \in DOMAIN original : original[i].k = k}

env_resolved(original, line) ==
    LET src == EnvSources(original, line.k)
    IN IF line.v = PLACEHOLDER /\ src # {} THEN original[LastIn(src)].v ELSE line.v

merge_env(original, written) ==
    IF parse_env(original).ok /\ parse_env(written).ok
    THEN Ok([i \in DOMAIN written |->
               format_value(written[i].k, env_resolved(original, written[i]))])
    ELSE Err

-----------------------------------------------------------------------------
is_npmrc_secret(line) == line.t = "pair" /\ line.k \in SecretKeys

redact_npmrc(original) ==
    IF Utf8(original)
    THEN Ok([i \in DOMAIN original |->
               IF is_npmrc_secret(original[i])
               THEN Pair(original[i].k, PLACEHOLDER) ELSE original[i]])
    ELSE Err

(* secrets.get(normalised key) of merge_npmrc. *)
NpmrcSources(original, k) ==
    {i \in DOMAIN original : /\ is_npmrc_secret(original[i])
                             /\ NormKey[original[i].k] = NormKey[k]}

npmrc_resolved(original, line) ==
    IF /\ is_npmrc_secret(line)
       /\ line.v = PLACEHOLDER
       /\ NpmrcSources(original, line.k) # {}
    THEN Pair(line.k, original[LastIn(NpmrcSources(original, line.k))].v)
    ELSE line

merge_npmrc(original, written) ==
    IF Utf8(original) /\ Utf8(written)
    THEN Ok([i \in DOMAIN written |-> npmrc_resolved(original, written[i])])
    ELSE Err

-----------------------------------------------------------------------------
(* Option<Vec<u8>>: None is Err here. *)
redact_private_key(original) ==
    IF Utf8(original) /\ original # << >> /\ original[1].t = "begin"
    THEN Ok(<<Mark("begin"), Mark("hidden"), Mark("end")>>)
    ELSE Err

redact_mitm_yaml(original) ==
    IF \A i \in DOMAIN original : original[i].t = "pair"
    THEN Ok([i \in DOMAIN original |->
               IF original[i].k \in HeaderKeys
               THEN Pair(original[i].k, PLACEHOLDER) ELSE original[i]])
    ELSE Err

-----------------------------------------------------------------------------
redact(kind, original) ==
    CASE kind = "Env"      -> redact_env(original)
      [] kind = "Npmrc"    -> redact_npmrc(original)
      [] kind = "MitmYaml" -> redact_mitm_yaml(original)
      [] OTHER             -> Err

merge(kind, original, written) ==
    CASE kind = "Env"   -> merge_env(original, written)
      [] kind = "Npmrc" -> merge_npmrc(original, written)
      [] OTHER          -> Err

(* detect(file_name, prefix): the handler the name selects, else "PrivateKey" *)
(* when some line of the sniffed prefix is a key header once its trailing     *)
(* blanks are trimmed.                                                        *)
detect(byName, prefix) ==
    IF byName # "None" THEN byName
    ELSE IF \E i \in DOMAIN prefix : prefix[i].t \in {"begin", "begin "}
         THEN "PrivateKey" ELSE "None"

=============================================================================
