------------------------------- MODULE Launch -------------------------------
(***************************************************************************)
(* One run of airgap, from the command line to its exit: main and run in   *)
(* src/main.rs, the life of the Mitm in src/mitm.rs and the start-up of    *)
(* the netstack thread in src/mitm/stack.rs.                               *)
(*                                                                         *)
(* Every step may fail.  The threads are the main one, whose step is pc,   *)
(* the netstack thread, which it meets in the readiness channel, and the   *)
(* proxy thread, from which it hears nothing.                              *)
(* A path is the sequence of its components.                               *)
(***************************************************************************)
EXTENDS Profiles, Picks

CONSTANTS
    Paths,     \* the directories that may be the working or home directory
    Clis,      \* the command lines: program, profile, allow_unknown
    MayFail    \* the steps that may fail

MainSteps == {"setup", "artifacts", "unshare", "maps", "private", "cwd", "mount",
              "thread", "ca", "chdir", "proxy", "spawn"}
ThreadSteps == <<"netns", "tun", "netns_fd", "runtime", "interface", "stack">>
AllSteps == MainSteps \cup {ThreadSteps[i] : i \in DOMAIN ThreadSteps} \cup {"proxy_runtime"}

ASSUME LaunchAssumption ==
    /\ Paths \subseteq Seq(STRING) /\ NoHome \notin Paths
    /\ NoName \notin {"agent", "npm"}
    /\ \A cli \in Clis : cli.program \in Seq(STRING) \ {<< >>}
    /\ MayFail \subseteq AllSteps

VARIABLES
    cli,         \* the command line
    profile,     \* the profile it selects
    cwd, home,   \* the working directory, and $HOME resolved
    mitm,        \* "asked" until setup; then "up", or "off"
    tmp,         \* the artifact directory exists
    overlays,    \* the mounted overlays, with what their root fd was opened on
                 \* and the policy they apply
    todo,        \* targets still to be mounted
    through,     \* the working directory was re-entered through the overlay
    proxy,       \* the proxy thread: "none", "starting", "serving" or "dead"
    netstack,    \* the step the netstack thread is at, or "none", "serving", "dead"
    ready,       \* the readiness channel: "empty", "ok", "err" or "closed"
    child,       \* "none", "running" or "done"
    hooked,      \* the child joined the network namespace
    pc

vars == <<cli, profile, cwd, home, mitm, tmp, overlays, todo, through, proxy, netstack,
          ready, child, hooked, pc>>

starts_with(p, q) == Len(q) <= Len(p) /\ SubSeq(p, 1, Len(q)) = q

(* Mutant of Retain: a directory inside one that comes later is kept. *)
Retain_first(candidates, kept, i) ==
    IF \E j \in kept : starts_with(candidates[i], candidates[j]) THEN kept ELSE kept \cup {i}

(* One round of the loop of dedup_targets, with candidate i.  Of targets, kept *)
(* has the places among the candidates.                                        *)
Retain(candidates, kept, i) ==
    IF \E j \in kept : starts_with(candidates[i], candidates[j]) THEN kept
    ELSE {j \in kept : ~starts_with(candidates[j], candidates[i])} \cup {i}

dedup_targets(candidates) ==
    LET kept[i \in 0..Len(candidates)] ==
          IF i = 0 THEN {} ELSE Retain(candidates, kept[i - 1], i)
    IN Pick(candidates, kept[Len(candidates)])

overlay_targets == dedup_targets(IF home = NoHome THEN <<cwd>> ELSE <<cwd, home>>)

Init ==
    /\ cli \in Clis /\ profile = NoName
    /\ cwd \in Paths /\ home \in Paths \cup {NoHome}
    /\ mitm \in {"off", "asked"}
    /\ tmp = FALSE
    /\ overlays = << >> /\ todo = << >> /\ through = FALSE
    /\ proxy = "none" /\ netstack = "none" /\ ready = "empty"
    /\ child = "none" /\ hooked = FALSE
    /\ pc = "select"

-----------------------------------------------------------------------------
(* Mutant of Fail: the process exits at once. *)
Fail_exit(step) == step \in MayFail /\ pc' = "exited"

(* `?` in run: the error returns through the drops. *)
Fail(step) == step \in MayFail /\ pc' = "drop_sessions"

(* The profile is chosen, or the run refused, before anything is set up. *)
SelectProfile ==
    /\ pc = "select"
    /\ profile' = selected(cli)
    /\ pc' = IF profile' = NoName THEN "exited" ELSE "setup"
    /\ UNCHANGED <<cli, cwd, home, mitm, tmp, overlays, todo, through, proxy, netstack, ready,
                   child, hooked>>

(* mitm::setup.  A failure disables the MitM; the directory, if it was        *)
(* already created, stays.                                                    *)
Setup ==
    /\ pc = "setup"
    /\ pc' = "unshare"
    /\ \/ mitm = "off" /\ UNCHANGED <<mitm, tmp>>
       \/ mitm = "asked" /\ mitm' = "up" /\ tmp' = TRUE
       \/ mitm = "asked" /\ "setup" \in MayFail /\ mitm' = "off" /\ UNCHANGED tmp
       \/ mitm = "asked" /\ "artifacts" \in MayFail /\ mitm' = "off" /\ tmp' = TRUE
    /\ UNCHANGED <<cli, profile, cwd, home, overlays, todo, through, proxy, netstack, ready,
                   child, hooked>>

(* enter_namespaces (a user namespace, or else the plain mount namespace that *)
(* the binary's capability allows), and making the mounts private             *)
EnterNamespaces ==
    /\ pc = "unshare"
    /\ pc' = "cwd" \/ Fail("unshare") \/ Fail("maps") \/ Fail("private")
    /\ UNCHANGED <<cli, profile, cwd, home, mitm, tmp, overlays, todo, through, proxy, netstack, ready,
                   child, hooked>>

Targets ==
    /\ pc = "cwd"
    /\ \/ pc' = "mount" /\ todo' = overlay_targets
       \/ Fail("cwd") /\ UNCHANGED todo
    /\ UNCHANGED <<cli, profile, cwd, home, mitm, tmp, overlays, through, proxy, netstack, ready,
                   child, hooked>>

(* The root fd is on the real directory unless an overlay already covers it. *)
Covered(dir) == \E i \in DOMAIN overlays : starts_with(dir, overlays[i].dir)

MountNext ==
    /\ pc = "mount" /\ todo # << >>
    /\ \/ /\ overlays' = Append(overlays, [dir |-> Head(todo), real |-> ~Covered(Head(todo)),
                                         policy |-> policy(profile, home, cwd)])
          /\ todo' = Tail(todo)
          /\ UNCHANGED pc
       \/ Fail("mount") /\ UNCHANGED <<overlays, todo>>
    /\ UNCHANGED <<cli, profile, cwd, home, mitm, tmp, through, proxy, netstack, ready, child, hooked>>

(* start_netstack, up to the receive *)
StartNetstack ==
    /\ pc = "mount" /\ todo = << >>
    /\ \/ mitm # "up" /\ pc' = "ca" /\ UNCHANGED netstack
       \/ mitm = "up" /\ pc' = "ready" /\ netstack' = ThreadSteps[1]
       \/ mitm = "up" /\ Fail("thread") /\ UNCHANGED netstack
    /\ UNCHANGED <<cli, profile, cwd, home, mitm, tmp, overlays, todo, through, proxy, ready,
                   child, hooked>>

NetstackReady ==
    /\ pc = "ready" /\ ready # "empty"
    /\ pc' = IF ready = "ok" THEN "ca" ELSE "drop_sessions"
    /\ UNCHANGED <<cli, profile, cwd, home, mitm, tmp, overlays, todo, through, proxy, netstack,
                   ready, child, hooked>>

(* The CA bundle is bind-mounted, if the MitM is up and the distribution has one. *)
MountBundle ==
    /\ pc = "ca"
    /\ pc' = "chdir" \/ (mitm = "up" /\ Fail("ca"))
    /\ UNCHANGED <<cli, profile, cwd, home, mitm, tmp, overlays, todo, through, proxy, netstack,
                   ready, child, hooked>>

(* Mutant of Chdir: the old working directory is kept. *)
Chdir_skipped ==
    /\ pc = "chdir"
    /\ pc' = "proxy"
    /\ UNCHANGED <<cli, profile, cwd, home, mitm, tmp, overlays, todo, through, proxy, netstack,
                   ready, child, hooked>>

(* set_current_dir(cwd): from here on relative paths go through the overlay. *)
Chdir ==
    /\ pc = "chdir"
    /\ \/ pc' = "proxy" /\ through' = TRUE
       \/ Fail("chdir") /\ UNCHANGED through
    /\ UNCHANGED <<cli, profile, cwd, home, mitm, tmp, overlays, todo, proxy, netstack, ready,
                   child, hooked>>

(* start_proxy returns once the thread exists. *)
StartProxy ==
    /\ pc = "proxy"
    /\ \/ mitm # "up" /\ pc' = "spawn" /\ UNCHANGED proxy
       \/ mitm = "up" /\ pc' = "spawn" /\ proxy' = "starting"
       \/ mitm = "up" /\ Fail("proxy") /\ UNCHANGED proxy
    /\ UNCHANGED <<cli, profile, cwd, home, mitm, tmp, overlays, todo, through, netstack, ready,
                   child, hooked>>

(* spawn_and_wait: a failure of the pre_exec hook or of exec is one of spawn. *)
Spawn ==
    /\ pc = "spawn"
    /\ \/ pc' = "wait" /\ child' = "running" /\ hooked' = (mitm = "up")
       \/ Fail("spawn") /\ UNCHANGED <<child, hooked>>
    /\ UNCHANGED <<cli, profile, cwd, home, mitm, tmp, overlays, todo, through, proxy, netstack,
                   ready>>

ChildEnds ==
    /\ pc = "wait"
    /\ child' = "done"
    /\ pc' = "drop_sessions"
    /\ UNCHANGED <<cli, profile, cwd, home, mitm, tmp, overlays, todo, through, proxy, netstack,
                   ready, hooked>>

DropSessions ==
    /\ pc = "drop_sessions"
    /\ overlays' = << >>
    /\ pc' = "drop_mitm"
    /\ UNCHANGED <<cli, profile, cwd, home, mitm, tmp, todo, through, proxy, netstack, ready,
                   child, hooked>>

(* Drop for Mitm; then the process ends and its threads with it. *)
DropMitm ==
    /\ pc = "drop_mitm"
    /\ tmp' = (tmp /\ mitm # "up")
    /\ pc' = "exited"
    /\ UNCHANGED <<cli, profile, cwd, home, mitm, overlays, todo, through, proxy, netstack, ready,
                   child, hooked>>

-----------------------------------------------------------------------------
(* The netstack thread *)

ThreadAt(i) == pc # "exited" /\ netstack = ThreadSteps[i]

NetstackStep(i) ==
    /\ ThreadAt(i)
    /\ IF i < Len(ThreadSteps)
       THEN netstack' = ThreadSteps[i + 1] /\ UNCHANGED ready
       ELSE netstack' = "serving" /\ ready' = "ok"
    /\ UNCHANGED <<cli, profile, cwd, home, mitm, tmp, overlays, todo, through, proxy, child,
                   hooked, pc>>

(* Mutant of NetstackFails: the error is not sent, and the channel kept open. *)
NetstackFails_silent(i, how) ==
    /\ ThreadAt(i)
    /\ netstack' = "dead"
    /\ UNCHANGED <<cli, profile, cwd, home, mitm, tmp, overlays, todo, through, proxy, ready, child,
                   hooked, pc>>

(* An error is sent; after a panic the channel is closed. *)
NetstackFails(i, how) ==
    /\ ThreadAt(i)
    /\ ThreadSteps[i] \in MayFail
    /\ netstack' = "dead" /\ ready' = how
    /\ UNCHANGED <<cli, profile, cwd, home, mitm, tmp, overlays, todo, through, proxy, child,
                   hooked, pc>>

(* The proxy thread: its runtime is built, or the thread panics, which       *)
(* nobody is told; the streams the stack hands over are then dropped.        *)
ProxyThread ==
    /\ pc # "exited" /\ proxy = "starting"
    /\ proxy' = "serving" \/ ("proxy_runtime" \in MayFail /\ proxy' = "dead")
    /\ UNCHANGED <<cli, profile, cwd, home, mitm, tmp, overlays, todo, through, netstack, ready,
                   child, hooked, pc>>

Main == \/ SelectProfile \/ Setup \/ EnterNamespaces \/ Targets \/ MountNext \/ StartNetstack
        \/ NetstackReady \/ MountBundle \/ Chdir \/ StartProxy \/ Spawn
        \/ DropSessions \/ DropMitm
Thread == \E i \in DOMAIN ThreadSteps :
             NetstackStep(i) \/ \E how \in {"err", "closed"} : NetstackFails(i, how)

Next == Main \/ ChildEnds \/ Thread \/ ProxyThread

Spec == Init /\ [][Next]_vars

(* The threads run; no step of theirs blocks for ever.  The child ends. *)
FairSpec ==
    Spec /\ WF_vars(Main) /\ WF_vars(Thread) /\ WF_vars(ProxyThread) /\ WF_vars(ChildEnds)

-----------------------------------------------------------------------------
(* run, "every file the child accesses under a target now flows through its
   overlay" and "its traffic is routed through the user-space stack": while the
   child runs, the working directory and the home directory lie under an
   overlay of the real directory that redacts, relative paths go through it, and with the
   MitM up the child is in a network namespace that the stack serves and whose
   streams go to the proxy thread and nowhere else.  That thread was started; it may
   have panicked since, and then the child has no network. *)
ChildIsContained ==
    child = "running" =>
        /\ \A p \in {cwd, home} \ {NoHome} :
              \E i \in DOMAIN overlays : starts_with(p, overlays[i].dir) /\ overlays[i].real
                                     /\ overlays[i].policy.redact
        /\ through
        /\ mitm = "up" => hooked /\ netstack = "serving" /\ proxy # "none"

(* "targets never nest, so one overlay's mount can't shadow another's fd" *)
TargetsNeverNest ==
    \A i, j \in DOMAIN overlays :
        i # j => ~starts_with(overlays[i].dir, overlays[j].dir)

(* Whatever fails, nothing stays behind: the overlays are unmounted and the
   artifacts of a MitM that came up are removed. *)
CleansUp == pc = "exited" => overlays = << >> /\ (mitm = "up" => ~tmp)

(* start_netstack, "blocks until the netns is set up (or fails)": whatever
   fails, and in whichever thread, the process ends. *)
Ends == <>(pc = "exited")

(* profiles/mod.rs "an unrecognized program yields None, and the caller rejects
   it", npm.rs "a postinstall script that reads a file outside the project must be
   approved by the user": unless the command line chooses otherwise, only a
   recognized program is run, and a package manager, by whatever path it is
   called, is asked about on every overlay, where all that was approved in advance
   lies below some overlay and none of it covers a whole target. *)
PolicyApplied ==
    child = "running" /\ cli.profile = NoName =>
        /\ cli.allow_unknown \/ program_basename(cli.program) \in NPM_PROGRAMS \cup AI_AGENTS
        /\ \A i \in DOMAIN overlays :
             /\ overlays[i].policy.asks = (program_basename(cli.program) \in NPM_PROGRAMS)
             /\ \A p \in overlays[i].policy.allowed :
                  /\ \E j \in DOMAIN overlays : starts_with(p, overlays[j].dir)
                  /\ \A j \in DOMAIN overlays : ~starts_with(overlays[j].dir, p)
=============================================================================
