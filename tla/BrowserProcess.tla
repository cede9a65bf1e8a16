---------------------------- MODULE BrowserProcess ----------------------------
(***************************************************************************)
(* The Chromium process one render owns: fetch_with_policy and             *)
(* BrowserProcess of src/src/browser.rs.                                   *)
(*                                                                         *)
(* The browser is the leader of a process group of its own; it forks       *)
(* helpers into the group and may exit before them. The render may end,    *)
(* fail, meet its deadline or be dropped by its caller, wherever it waits. *)
(* close and Drop must between them signal the group, reap the leader and  *)
(* remove the profile directory.                                           *)
(*                                                                         *)
(* A removed profile is one whose removal was tried: what the code does is *)
(* drop the TempDir, which ignores an error. A helper that is being killed *)
(* and still writes there can make remove_dir_all fail and leave the       *)
(* directory behind; when removal happens is modelled, that it succeeds    *)
(* is not claimed. What the process asked for --version forks is left out. *)
(***************************************************************************)
EXTENDS Naturals, FiniteSets

CONSTANTS
  Helpers,        \* what the browser may fork
  RuntimeStops    \* whether the runtime may shut down meanwhile

ASSUME ProcessAssumption == RuntimeStops \in BOOLEAN

VARIABLES
  pc,             \* where the future of fetch_with_policy is
  result,         \* what it is going to return
  version,        \* the process asked for --version: none, running, killed
  leader,         \* none, running, exited (and not waited for), reaped
  helpers,        \* the helpers alive
  doomed,         \* the processes a SIGKILL is pending for
  profile,        \* none, present, removed (its TempDir is dropped)
  group,          \* BrowserProcess::process_group is Some
  child,          \* BrowserProcess::child is Some
  reaper,         \* the task Drop spawns: none, waiting, done
  runtime,        \* there is a runtime to spawn on
  signals         \* ghost: group signals sent

processVars == <<pc, result, version, leader, helpers, doomed, profile, group,
                 child, reaper, runtime, signals>>

world == <<version, leader, helpers, doomed, profile, group, child, reaper,
           signals>>

Owns == child \/ group

ProcessInit ==
  /\ pc = "called"
  /\ result = "none"
  /\ version = "none"
  /\ leader = "none"
  /\ helpers = {}
  /\ doomed = {}
  /\ profile = "none"
  /\ group = FALSE
  /\ child = FALSE
  /\ reaper = "none"
  /\ runtime = TRUE
  /\ signals = 0

-----------------------------------------------------------------------------
(* fetch_with_policy and launch.                                           *)

(* A bad URL, option or selector, before anything is started. *)
Refuse ==
  /\ pc = "called"
  /\ pc' = "returned"
  /\ result' = "error"
  /\ UNCHANGED <<world, runtime>>

Begin ==
  /\ pc = "called"
  /\ pc' = "resolving"
  /\ UNCHANGED <<result, world, runtime>>

Identify ==
  /\ pc = "resolving"
  /\ pc' = "identifying"
  /\ version' = "running"
  /\ UNCHANGED <<result, leader, helpers, doomed, profile, group, child, reaper,
                 runtime, signals>>

(* An address the policy rejects, an executable that is none, no profile   *)
(* directory, no port: there is no BrowserProcess to close.                *)
LaunchFails ==
  /\ pc \in {"resolving", "identifying"}
  /\ pc' = "returned"
  /\ result' = "error"
  /\ version' = "none"
  /\ UNCHANGED <<leader, helpers, doomed, profile, group, child, reaper,
                 runtime, signals>>

(* From the version's answer to Some(process) the future does not wait.    *)
Spawn ==
  /\ pc = "identifying"
  /\ pc' = "starting"
  /\ version' = "none"
  /\ leader' = "running"
  /\ profile' = "present"
  /\ group' = TRUE
  /\ child' = TRUE
  /\ UNCHANGED <<result, helpers, doomed, reaper, runtime, signals>>

(* endpoint polls: try_wait reaps a leader that has exited by then. *)
ExitSeen ==
  /\ pc = "starting"
  /\ leader = "exited"
  /\ leader' = "reaped"
  /\ pc' = "closing"
  /\ result' = "error"
  /\ UNCHANGED <<version, helpers, doomed, profile, group, child, reaper,
                 runtime, signals>>

EndpointFound ==
  /\ pc = "starting"
  /\ pc' = "rendering"
  /\ UNCHANGED <<result, world, runtime>>

(* render returns, with a report or with an error. *)
RenderEnds(r) ==
  /\ pc = "rendering"
  /\ pc' = "closing"
  /\ result' = r
  /\ UNCHANGED <<world, runtime>>

(* What VersionDropped must not do: start it without kill_on_drop. *)
VersionLeftRunning == version' = version

(* kill_on_drop: the process asked for its version is killed. *)
VersionDropped == version' = IF version = "running" THEN "killed" ELSE version

(* What Timeout must not do: cover the launch alone. *)
TimeoutOfLaunch ==
  /\ pc \in {"resolving", "identifying"}
  /\ pc' = "returned"
  /\ result' = "timeout"
  /\ VersionDropped
  /\ UNCHANGED <<leader, helpers, doomed, profile, group, child, reaper,
                 runtime, signals>>

(* The deadline: the inner future is dropped, the browser is not. *)
Timeout ==
  /\ pc \in {"resolving", "identifying", "starting", "rendering"}
  /\ pc' = IF Owns THEN "closing" ELSE "returned"
  /\ result' = "timeout"
  /\ VersionDropped
  /\ UNCHANGED <<leader, helpers, doomed, profile, group, child, reaper,
                 runtime, signals>>

-----------------------------------------------------------------------------
(* What the system does to the processes.                                  *)

Alive == helpers \cup (IF leader = "running" THEN {"leader"} ELSE {})

Fork(h) ==
  /\ h \notin helpers
  /\ Alive \ doomed # {}
  /\ h \notin doomed
  /\ helpers' = helpers \cup {h}
  /\ UNCHANGED <<pc, result, version, leader, doomed, profile, group, child,
                 reaper, runtime, signals>>

HelperExits(h) ==
  /\ h \in helpers
  /\ helpers' = helpers \ {h}
  /\ UNCHANGED <<pc, result, version, leader, doomed, profile, group, child,
                 reaper, runtime, signals>>

LeaderExits ==
  /\ leader = "running"
  /\ leader' = "exited"
  /\ UNCHANGED <<pc, result, version, helpers, doomed, profile, group, child,
                 reaper, runtime, signals>>

-----------------------------------------------------------------------------
(* What KillGroup must not do: take the group from Child::id, which is gone *)
(* once the leader was waited for.                                         *)
KillGroupOfChild ==
  /\ group' = FALSE
  /\ signals' = IF group /\ leader # "reaped" THEN signals + 1 ELSE signals
  /\ doomed' = IF group /\ leader # "reaped" THEN doomed \cup Alive ELSE doomed

(* kill_process_group(process_group.take()), then the child's own kill. *)
KillGroup ==
  /\ group' = FALSE
  /\ signals' = IF group THEN signals + 1 ELSE signals
  /\ doomed' = IF group THEN doomed \cup Alive
               ELSE IF child THEN doomed \cup (Alive \cap {"leader"}) ELSE doomed

(* close, up to where it waits for the leader. *)
Close ==
  /\ pc = "closing"
  /\ pc' = "waiting"
  /\ KillGroup
  /\ UNCHANGED <<result, version, leader, helpers, profile, child, reaper, runtime>>

(* The rest of close: the child is waited for, then the TempDir dropped,   *)
(* helpers alive or not. The Drop that follows finds nothing left to do.   *)
CloseEnds ==
  /\ pc = "waiting"
  /\ leader \in {"exited", "reaped"}
  /\ pc' = "returned"
  /\ leader' = "reaped"
  /\ child' = FALSE
  /\ profile' = "removed"
  /\ UNCHANGED <<result, version, helpers, doomed, group, reaper, runtime,
                 signals>>

(* What DropProcess must not do: let go of the profile at once. *)
DropProcessAndProfile ==
  /\ KillGroup
  /\ child' = FALSE
  /\ profile' = IF child THEN "removed" ELSE profile
  /\ reaper' = IF child THEN "waiting" ELSE reaper

(* Drop: the profile goes with the task that waits for the leader, or, when *)
(* there is no runtime or it is stopping, at once.                         *)
DropProcess ==
  /\ KillGroup
  /\ child' = FALSE
  /\ \/ child /\ runtime' /\ reaper' = "waiting" /\ UNCHANGED profile
     \/ child /\ ~runtime' /\ profile' = "removed" /\ UNCHANGED reaper
     \/ ~child /\ UNCHANGED <<reaper, profile>>

InFlight == {"resolving", "identifying", "starting", "rendering", "waiting"}

(* The caller drops the future where it waits. *)
Cancel ==
  /\ pc \in InFlight
  /\ pc' = "dropped"
  /\ UNCHANGED runtime
  /\ VersionDropped
  /\ DropProcess
  /\ UNCHANGED <<result, leader, helpers>>

Reap ==
  /\ reaper = "waiting"
  /\ leader \in {"exited", "reaped"}
  /\ reaper' = "done"
  /\ leader' = "reaped"
  /\ profile' = "removed"
  /\ UNCHANGED <<pc, result, version, helpers, doomed, group, child, runtime,
                 signals>>

(* The runtime drops its tasks: the render, or the one that waits to reap. *)
Shutdown ==
  /\ RuntimeStops
  /\ runtime
  /\ runtime' = FALSE
  /\ \/ /\ pc \in InFlight
        /\ pc' = "dropped"
        /\ VersionDropped
        /\ DropProcess
     \/ /\ pc \notin InFlight
        /\ reaper = "waiting"
        /\ reaper' = "done"
        /\ profile' = "removed"
        /\ UNCHANGED <<pc, version, doomed, group, child, signals>>
  /\ UNCHANGED <<result, leader, helpers>>

-----------------------------------------------------------------------------
Results == {"report", "error"}

ProcessNext ==
  \/ Refuse \/ Begin \/ Identify \/ LaunchFails \/ Spawn
  \/ ExitSeen \/ EndpointFound
  \/ \E r \in Results : RenderEnds(r)
  \/ Timeout
  \/ Close \/ CloseEnds \/ Cancel \/ Reap \/ Shutdown
  \/ LeaderExits
  \/ \E h \in Helpers : Fork(h) \/ HelperExits(h)

ProcessSpec == ProcessInit /\ [][ProcessNext]_processVars

(* The task is polled and its timer fires; a killed process exits. Nothing *)
(* is assumed of the page, the browser or the caller.                      *)
FairProcessSpec ==
  /\ ProcessSpec
  /\ WF_processVars(Refuse \/ Begin)
  /\ WF_processVars(Timeout)
  /\ WF_processVars(Close)
  /\ WF_processVars(CloseEnds)
  /\ WF_processVars(Reap)
  /\ WF_processVars("leader" \in doomed /\ LeaderExits)
  /\ \A h \in Helpers : WF_processVars(h \in doomed /\ HelperExits(h))

-----------------------------------------------------------------------------
Over == pc \in {"returned", "dropped"}

ProcessTypeOK ==
  /\ pc \in {"called", "closing"} \cup InFlight \cup {"returned", "dropped"}
  /\ leader \in {"none", "running", "exited", "reaped"}
  /\ helpers \subseteq Helpers
  /\ doomed \subseteq Helpers \cup {"leader"}
  /\ leader = "none" <=> profile = "none"
  /\ group => child
  /\ pc = "returned" <=> result # "none" /\ ~Owns /\ ~(pc = "dropped")
  /\ reaper = "none" \/ pc = "dropped"

(* "Timeout returns only after cleanup", and so does every other way to    *)
(* return: the leader is reaped, removal of the profile was tried, and of  *)
(* the group nobody is alive who is not being killed, also when the leader *)
(* exited before its helpers.                                              *)
ReturnsAfterCleanup ==
  pc = "returned" =>
    /\ leader \in {"none", "reaped"}
    /\ profile \in {"none", "removed"}
    /\ helpers \subseteq doomed
    /\ version # "running"

(* However the future ends, and also when the runtime stops under it, no   *)
(* process it started goes on that is not being killed.                    *)
NobodyIsSpared == Over => Alive \subseteq doomed /\ version # "running"

(* "Keep the profile until Chromium has exited, including cancellation": as *)
(* long as there is a runtime to wait for it.                              *)
ProfileOutlivesLeader == runtime /\ profile = "removed" => leader # "running"

(* close and every Drop after it, at any point of close, signal the group  *)
(* once between them: the id may be another's by the second time.          *)
SignalledOnce == signals <= 1

(* "Cancellation and timeouts kill the owned browser process group and     *)
(* remove its temporary profile": every render ends, whatever the browser  *)
(* does, and at last no process of the browser is left and its profile was *)
(* let go of; without a runtime nobody waits for the leader.               *)
NothingIsLeft ==
  (pc = "called") ~> /\ Over
                     /\ leader # "running"
                     /\ runtime => leader \in {"none", "reaped"}
                     /\ helpers = {}
                     /\ profile \in {"none", "removed"}
=============================================================================
