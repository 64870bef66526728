------------------------------ MODULE Profiles ------------------------------
(***************************************************************************)
(* Which policy airgap applies to a program (src/profiles/mod.rs, npm.rs,  *)
(* ai_agents.rs, and main in src/main.rs): the profile the command line    *)
(* leads to, and the directory gate it calls for.  A path is the sequence  *)
(* of its components.                                                      *)
(***************************************************************************)
EXTENDS Naturals, Sequences

CONSTANTS
    NoHome,     \* $HOME is unset, empty or does not resolve
    NoName      \* no --profile, and no profile

NPM_PROGRAMS == {"npm", "npx", "yarn", "pnpm"}
AI_AGENTS == {"opencode", "claude"}

program_basename(program) == program[Len(program)]

(* Mutant of is_npm: the program is compared as it was typed. *)
is_npm_typed(program) == program \in {<<n>> : n \in NPM_PROGRAMS}

is_npm(program) == program_basename(program) \in NPM_PROGRAMS
is_ai_agent(program) == program_basename(program) \in AI_AGENTS

resolve(program) ==
    CASE is_npm(program)                           -> "npm"
      [] ~is_npm(program) /\ is_ai_agent(program)  -> "agent"
      [] ~is_npm(program) /\ ~is_ai_agent(program) -> NoName

by_name(name) == IF name \in {"agent", "npm"} THEN name ELSE NoName

unrestricted == "agent"

(* main: --profile first, then the name of the program, then the flag *)
selected(cli) ==
    IF cli.profile # NoName THEN by_name(cli.profile)
    ELSE IF resolve(cli.program) = NoName /\ cli.allow_unknown THEN unrestricted
    ELSE resolve(cli.program)

preapproved_paths(home, cwd) ==
    {cwd \o <<n>> : n \in {"node_modules", "package.json", "package-lock.json", ".npmrc"}}
    \cup (IF home = NoHome THEN {}
          ELSE {home \o <<".npm", n>> : n \in {"_logs", "_cacache", "_update-notifier-last-checked"}}
               \cup {home \o <<n>> : n \in {".gitconfig", ".npmrc"}})

(* redaction and directory_access: whether secret files are redacted, whether *)
(* the user is asked, and what is allowed without asking                      *)
Policy(redact, asks, allowed) == [redact |-> redact, asks |-> asks, allowed |-> allowed]

AiAgent == Policy(TRUE, FALSE, {})
Npm(home, cwd) == Policy(TRUE, TRUE, preapproved_paths(home, cwd))

policy(profile, home, cwd) == IF profile = "npm" THEN Npm(home, cwd) ELSE AiAgent
=============================================================================
