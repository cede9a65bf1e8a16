------------------------- MODULE BrowserProcessProofs -------------------------
(***************************************************************************)
(* Proofs about BrowserProcess, for any set of helpers.                    *)
(*                                                                         *)
(* The group is signalled while its id is held, which is from Spawn to the *)
(* first of close and Drop. From then on everyone alive is doomed, and the *)
(* doomed do not fork: so what is true when the signal is sent stays true  *)
(* until nobody is left, whatever becomes of the leader.                   *)
(***************************************************************************)
EXTENDS BrowserProcess, TLAPS

Before == {"called", "resolving", "identifying"}
During == {"starting", "rendering", "closing"}

(* Nothing was launched, or everything was and the signal has been sent. *)
Untouched == leader = "none" /\ helpers = {} /\ signals = 0
Signalled == leader # "none" /\ signals = 1 /\ Alive \subseteq doomed

Types ==
  /\ pc \in {"called", "closing"} \cup InFlight \cup {"returned", "dropped"}
  /\ result \in {"none", "timeout"} \cup Results
  /\ version \in {"none", "running", "killed"}
  /\ leader \in {"none", "running", "exited", "reaped"}
  /\ helpers \subseteq Helpers
  /\ doomed \subseteq Helpers \cup {"leader"}
  /\ profile \in {"none", "present", "removed"}
  /\ group \in BOOLEAN /\ child \in BOOLEAN /\ runtime \in BOOLEAN
  /\ reaper \in {"none", "waiting", "done"}
  /\ signals \in Nat

(* The process at each stage of its render. *)
Stages ==
  /\ pc \in Before => Untouched /\ ~group /\ ~child /\ profile = "none"
  /\ pc \in During => /\ group /\ child /\ leader # "none"
                      /\ signals = 0 /\ profile = "present"
  /\ pc = "waiting" => ~group /\ child /\ Signalled /\ profile = "present"
  /\ pc = "returned" =>
       /\ ~group /\ ~child
       /\ \/ Untouched /\ profile = "none"
          \/ Signalled /\ leader = "reaped" /\ profile = "removed"
  /\ pc = "dropped" =>
       /\ ~group /\ ~child
       /\ \/ Untouched /\ profile = "none"
          \/ Signalled /\ profile # "none"

Waits ==
  /\ version = "running" => pc = "identifying"
  /\ reaper # "none" => pc = "dropped" /\ leader # "none"
  /\ profile = "removed" /\ leader = "running" => ~runtime
  /\ pc \in Before \cup {"starting", "rendering"} => result = "none"
  /\ pc \in {"closing", "waiting", "returned"} => result # "none"
  /\ ~RuntimeStops => runtime

ProcessInv == Types /\ Stages /\ Waits

-----------------------------------------------------------------------------
(* The steps of the render.                                                *)

(* The invariant holds at the call. *)
LEMMA ProcessInvInit == ProcessInit => ProcessInv
<1> SUFFICES ASSUME ProcessInit PROVE ProcessInv
  OBVIOUS
<1>1. Types
  BY DEF ProcessInit, Types
<1>2. Stages
  BY DEF ProcessInit, Stages, Before, During, Untouched
<1>3. Waits
  BY DEF ProcessInit, Waits
<1>4. QED
  BY <1>1, <1>2, <1>3 DEF ProcessInv

(* What is done before, or instead of, launching keeps the invariant. *)
LEMMA LaunchPreserves ==
  ASSUME ProcessInv, Refuse \/ Begin \/ Identify \/ LaunchFails \/ Spawn
  PROVE  ProcessInv'
<1> USE DEF ProcessInv, Types, Stages, Waits, Before, During, InFlight, Results,
            Untouched, world
<1>1. CASE Refuse
  BY <1>1 DEF Refuse
<1>2. CASE Begin
  BY <1>2 DEF Begin
<1>3. CASE Identify
  BY <1>3 DEF Identify
<1>4. CASE LaunchFails
  BY <1>4 DEF LaunchFails
<1>5. CASE Spawn
  BY <1>5 DEF Spawn
<1>6. QED
  BY <1>1, <1>2, <1>3, <1>4, <1>5

(* Rendering, and the deadline that ends it anywhere, keep the invariant. *)
LEMMA RenderPreserves ==
  ASSUME ProcessInv,
         \/ ExitSeen \/ EndpointFound \/ Timeout
         \/ \E r \in Results : RenderEnds(r)
  PROVE  ProcessInv'
<1> USE DEF ProcessInv, Types, Stages, Waits, Before, During, InFlight, Results,
            Untouched, world
<1>1. CASE ExitSeen
  BY <1>1 DEF ExitSeen
<1>2. CASE EndpointFound
  BY <1>2 DEF EndpointFound
<1>3. CASE Timeout
  BY <1>3 DEF Timeout, VersionDropped, Owns
<1>4. CASE \E r \in Results : RenderEnds(r)
  BY <1>4 DEF RenderEnds
<1>5. QED
  BY <1>1, <1>2, <1>3, <1>4

-----------------------------------------------------------------------------
(* The signal.                                                             *)

(* A group that is held is signalled once, and everyone in it is doomed. *)
LEMMA KillGroupSignals ==
  ASSUME Types, group, signals = 0, leader # "none", KillGroup,
         UNCHANGED <<leader, helpers>>
  PROVE  ~group' /\ Signalled' /\ doomed' \subseteq Helpers \cup {"leader"}
  BY DEF Types, KillGroup, Signalled, Alive

(* Without the group nothing is signalled again, and nobody is spared. *)
LEMMA KillGroupIdle ==
  ASSUME Types, ~group, KillGroup, UNCHANGED <<leader, helpers>>
  PROVE  /\ ~group' /\ signals' = signals
         /\ doomed \subseteq doomed'
         /\ doomed' \subseteq Helpers \cup {"leader"}
  BY DEF Types, KillGroup, Alive

(* Dropping the process wherever the future waits leaves it signalled, or  *)
(* untouched, and lets go of child and profile together.                   *)
LEMMA DropProcessReleases ==
  ASSUME ProcessInv, pc \in InFlight, DropProcess, runtime' \in BOOLEAN,
         UNCHANGED <<leader, helpers>>
  PROVE  /\ ~group' /\ ~child'
         /\ doomed' \subseteq Helpers \cup {"leader"}
         /\ \/ Untouched' /\ profile' = "none" /\ reaper' = "none"
            \/ /\ Signalled'
               /\ profile' \in {"present", "removed"}
               /\ profile' = "removed" => ~runtime'
               /\ reaper' \in {"none", "waiting"}
<1>0. Types /\ KillGroup
  BY DEF ProcessInv, DropProcess
<1>1. CASE pc \in Before
  <2>1. Untouched /\ ~group /\ ~child /\ profile = "none" /\ reaper = "none"
    BY <1>1 DEF ProcessInv, Stages, Waits, Before
  <2>2. ~group' /\ signals' = signals /\ doomed' \subseteq Helpers \cup {"leader"}
    BY <1>0, <2>1, KillGroupIdle
  <2>3. QED
    BY <2>1, <2>2 DEF DropProcess, Untouched
<1>2. CASE pc \in {"starting", "rendering"}
  <2>1. /\ group /\ child /\ leader # "none" /\ signals = 0
        /\ profile = "present" /\ reaper = "none"
    BY <1>2 DEF ProcessInv, Stages, Waits, During
  <2>2. ~group' /\ Signalled' /\ doomed' \subseteq Helpers \cup {"leader"}
    BY <1>0, <2>1, KillGroupSignals
  <2>3. QED
    BY <2>1, <2>2 DEF DropProcess
<1>3. CASE pc = "waiting"
  <2>1. ~group /\ child /\ Signalled /\ profile = "present" /\ reaper = "none"
    BY <1>3 DEF ProcessInv, Stages, Waits
  <2>2. /\ ~group' /\ signals' = signals /\ doomed \subseteq doomed'
        /\ doomed' \subseteq Helpers \cup {"leader"}
    BY <1>0, <2>1, KillGroupIdle
  <2>3. Signalled'
    BY <2>1, <2>2 DEF Signalled, Alive
  <2>4. QED
    BY <2>1, <2>2, <2>3 DEF DropProcess
<1>4. QED
  BY <1>1, <1>2, <1>3 DEF InFlight, Before

(* Dropping the future wherever it waits, in the end or with the runtime,  *)
(* keeps the invariant.                                                    *)
LEMMA DroppedPreserves ==
  ASSUME ProcessInv, pc \in InFlight, pc' = "dropped", DropProcess, VersionDropped,
         runtime' = runtime \/ (RuntimeStops /\ runtime' = FALSE),
         UNCHANGED <<result, leader, helpers>>
  PROVE  ProcessInv'
<1>1. runtime' \in BOOLEAN
  BY DEF ProcessInv, Types
<1>2. /\ ~group' /\ ~child'
      /\ doomed' \subseteq Helpers \cup {"leader"}
      /\ \/ Untouched' /\ profile' = "none" /\ reaper' = "none"
         \/ /\ Signalled'
            /\ profile' \in {"present", "removed"}
            /\ profile' = "removed" => ~runtime'
            /\ reaper' \in {"none", "waiting"}
  BY <1>1, DropProcessReleases
<1>3. Types'
  <2>1. /\ signals' \in Nat /\ profile' \in {"none", "present", "removed"}
        /\ reaper' \in {"none", "waiting", "done"}
    BY <1>2 DEF Signalled, Untouched
  <2>2. group' \in BOOLEAN /\ child' \in BOOLEAN
    BY DEF DropProcess, KillGroup
  <2>3. QED
    BY <1>1, <1>2, <2>1, <2>2 DEF ProcessInv, Types, VersionDropped
<1>4. Stages'
  BY <1>2 DEF Stages, Before, During, Signalled
<1>5. Waits'
  BY <1>2 DEF ProcessInv, Waits, VersionDropped, Before, Signalled
<1>6. QED
  BY <1>3, <1>4, <1>5 DEF ProcessInv

(* Ending the render and its process keeps the invariant. *)
LEMMA ClosePreserves ==
  ASSUME ProcessInv, Close \/ CloseEnds \/ Cancel \/ Reap \/ Shutdown
  PROVE  ProcessInv'
<1>1. CASE Close
  <2>1. ~group' /\ Signalled' /\ doomed' \subseteq Helpers \cup {"leader"}
    BY <1>1, KillGroupSignals DEF Close, ProcessInv, Stages, During
  <2>2. /\ pc = "closing" /\ pc' = "waiting" /\ group' \in BOOLEAN
        /\ UNCHANGED <<result, version, leader, helpers, profile, child, reaper, runtime>>
    BY <1>1 DEF Close, KillGroup
  <2>3. Types'
    BY <2>1, <2>2 DEF ProcessInv, Types, InFlight, Signalled
  <2>4. Stages' /\ Waits'
    BY <2>1, <2>2 DEF ProcessInv, Stages, Waits, Before, During
  <2>5. QED
    BY <2>3, <2>4 DEF ProcessInv
<1>2. CASE CloseEnds
  <2>1. /\ pc = "waiting" /\ leader \in {"exited", "reaped"} /\ pc' = "returned"
        /\ leader' = "reaped" /\ ~child' /\ child' \in BOOLEAN /\ profile' = "removed"
        /\ UNCHANGED <<result, version, helpers, doomed, group, reaper, runtime, signals>>
    BY <1>2 DEF CloseEnds
  <2>2. ~group /\ Signalled
    BY <2>1 DEF ProcessInv, Stages
  <2>3. Signalled'
    BY <2>1, <2>2 DEF Signalled, Alive
  <2>4. Types'
    BY <2>1 DEF ProcessInv, Types
  <2>5. Stages' /\ Waits'
    BY <2>1, <2>2, <2>3 DEF ProcessInv, Stages, Waits, Before, During
  <2>6. QED
    BY <2>4, <2>5 DEF ProcessInv
<1>3. CASE Cancel
  BY <1>3, DroppedPreserves DEF Cancel, ProcessInv, Types
<1>4. CASE Reap
  <2>1. /\ reaper = "waiting" /\ leader \in {"exited", "reaped"} /\ reaper' = "done"
        /\ leader' = "reaped" /\ profile' = "removed"
        /\ UNCHANGED <<pc, result, version, helpers, doomed, group, child, runtime, signals>>
    BY <1>4 DEF Reap
  <2>2. pc = "dropped" /\ Signalled /\ ~group /\ ~child
    BY <2>1 DEF ProcessInv, Stages, Waits, Untouched
  <2>3. Signalled'
    BY <2>1, <2>2 DEF Signalled, Alive
  <2>4. Types'
    BY <2>1 DEF ProcessInv, Types
  <2>5. Stages' /\ Waits'
    BY <2>1, <2>2, <2>3 DEF ProcessInv, Stages, Waits, Before, During
  <2>6. QED
    BY <2>4, <2>5 DEF ProcessInv
<1>5. CASE Shutdown
  <2>1. CASE pc \in InFlight
    BY <1>5, <2>1, DroppedPreserves DEF Shutdown
  <2>2. CASE pc \notin InFlight
    <3>1. /\ RuntimeStops /\ ~runtime' /\ runtime' \in BOOLEAN
          /\ reaper = "waiting" /\ reaper' = "done" /\ profile' = "removed"
          /\ UNCHANGED <<pc, version, doomed, group, child, signals, result, leader,
                         helpers>>
      BY <1>5, <2>2 DEF Shutdown
    <3>2. pc = "dropped" /\ Signalled /\ ~group /\ ~child
      BY <3>1 DEF ProcessInv, Stages, Waits, Untouched
    <3>3. Signalled'
      BY <3>1, <3>2 DEF Signalled, Alive
    <3>4. Types'
      BY <3>1 DEF ProcessInv, Types
    <3>5. Stages' /\ Waits'
      BY <3>1, <3>2, <3>3 DEF ProcessInv, Stages, Waits, Before, During, Signalled
    <3>6. QED
      BY <3>4, <3>5 DEF ProcessInv
  <2>3. QED
    BY <2>1, <2>2
<1>6. QED
  BY <1>1, <1>2, <1>3, <1>4, <1>5

(* What the processes do of themselves keeps it: the doomed do not fork. *)
LEMMA SystemPreserves ==
  ASSUME ProcessInv, LeaderExits \/ \E h \in Helpers : Fork(h) \/ HelperExits(h)
  PROVE  ProcessInv'
<1>1. CASE LeaderExits
  BY <1>1 DEF LeaderExits, ProcessInv, Types, Stages, Waits, Before, During, InFlight,
              Results, Signalled, Alive, Untouched
<1>2. ASSUME NEW h \in Helpers, Fork(h)
      PROVE  ProcessInv'
  <2>1. ~(Alive \subseteq doomed) /\ ~Untouched
    BY <1>2 DEF Fork, Alive, Untouched
  <2>2. pc \in During
    BY <2>1 DEF ProcessInv, Types, Stages, Signalled, Before, During, InFlight
  <2>3. QED
    BY <1>2, <2>2 DEF Fork, ProcessInv, Types, Stages, Waits, Before, During,
                      InFlight, Results
<1>3. ASSUME NEW h \in Helpers, HelperExits(h)
      PROVE  ProcessInv'
  BY <1>3 DEF HelperExits, ProcessInv, Types, Stages, Waits, Before, During, InFlight,
              Results, Signalled, Alive, Untouched
<1>4. QED
  BY <1>1, <1>2, <1>3

(* Every step keeps the invariant. *)
LEMMA ProcessInvNext == ProcessInv /\ [ProcessNext]_processVars => ProcessInv'
<1> SUFFICES ASSUME ProcessInv, [ProcessNext]_processVars
             PROVE  ProcessInv'
  OBVIOUS
<1>1. CASE ProcessNext
  BY <1>1, LaunchPreserves, RenderPreserves, ClosePreserves, SystemPreserves
     DEF ProcessNext
<1>2. CASE UNCHANGED processVars
  BY <1>2 DEF processVars, ProcessInv, Types, Stages, Waits, Signalled, Untouched, Alive
<1>3. QED
  BY <1>1, <1>2

-----------------------------------------------------------------------------
(* The inductive invariant, for any helpers and with or without a runtime  *)
(* that stops.                                                             *)
THEOREM ProcessInvariant == ProcessSpec => []ProcessInv
<1>1. QED
  BY ProcessInvInit, ProcessInvNext, PTL DEF ProcessSpec

(* The variables keep to their types, and owning to its stage. *)
THEOREM ProcessTypeCorrect == ProcessSpec => []ProcessTypeOK
<1>1. ProcessInv => ProcessTypeOK
  BY DEF ProcessInv, Types, Stages, Waits, ProcessTypeOK, Before, During, InFlight,
         Owns, Signalled, Untouched
<1>2. QED
  BY <1>1, ProcessInvariant, PTL

(* fetch_with_policy returns with the leader reaped, the profile removed   *)
(* and everyone left in the group being killed.                            *)
THEOREM AlwaysReturnsAfterCleanup == ProcessSpec => []ReturnsAfterCleanup
<1>1. ProcessInv => ReturnsAfterCleanup
  BY DEF ProcessInv, Types, Stages, Waits, ReturnsAfterCleanup, Signalled, Untouched,
         Alive
<1>2. QED
  BY <1>1, ProcessInvariant, PTL

(* However the future ends, none of its processes is spared. *)
THEOREM NobodyIsEverSpared == ProcessSpec => []NobodyIsSpared
<1>1. ProcessInv => NobodyIsSpared
  BY DEF ProcessInv, Stages, Waits, NobodyIsSpared, Over, Signalled, Untouched, Alive
<1>2. QED
  BY <1>1, ProcessInvariant, PTL

(* close and Drop signal the group once between them. *)
THEOREM AtMostOneSignal == ProcessSpec => []SignalledOnce
<1>1. ProcessInv => SignalledOnce
  BY DEF ProcessInv, Types, Stages, SignalledOnce, Before, During, InFlight,
         Signalled, Untouched
<1>2. QED
  BY <1>1, ProcessInvariant, PTL

(* While the runtime lasts, the profile outlives the browser. *)
THEOREM ProfileKeptForLeader == ProcessSpec => []ProfileOutlivesLeader
<1>1. ProcessInv => ProfileOutlivesLeader
  BY DEF ProcessInv, Waits, ProfileOutlivesLeader
<1>2. QED
  BY <1>1, ProcessInvariant, PTL
=============================================================================
