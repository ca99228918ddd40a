--------------------------- MODULE BlueGreenProofs ---------------------------
(***************************************************************************)
(* Invariants and action properties of BlueGreen, for any services, any    *)
(* patience of the health checks and any number of deployments.            *)
(*                                                                         *)
(* The script acts on the environment that the symlink does not name; what *)
(* makes that the idle one is TrafficOK, which says at every point of the  *)
(* script how far symlink and weights have got.                            *)
(***************************************************************************)
EXTENDS BlueGreen, TLAPS

Preparing == {"infra", "copy", "base", "build", "up", "health", "final", "clear"}
Switched == {"clear_again", "unlink", "link", "stop", "finish"}

\* The script works on the environment that was not in use when it began.
ScriptOK ==
  /\ script.target = IF script.current = "blue" THEN "green" ELSE "blue"
  /\ script.phase = "idle" => script.current = NoColor
  /\ script.phase = "shift" => script.count < Commands

\* Environment c is healthy, and its nginx calls the server-nest beside it.
Whole(c) == healthy[c] /\ c \in knows[c]

\* It also takes all the traffic.
AllTraffic(c) == weight[c] = 100 /\ weight[Other(c)] = 0
InCharge(c) == proxy /\ Whole(c) /\ AllTraffic(c)

\* The weights after n commands of the shift; before the first of them they
\* are only known if an environment was in use.
ShiftedTarget(n) == CASE n \in {0, 1, 2} -> 0 [] n \in {3, 4} -> 25 [] n \in {5, 6} -> 50 [] n \in {7, 8} -> 75 [] n = 9 -> 100
ShiftedSource(n) == CASE n \in {0, 1, 2, 3} -> 100 [] n \in {4, 5} -> 75 [] n \in {6, 7} -> 50 [] n \in {8, 9} -> 25

Shifting(n) ==
  /\ n > 0 \/ script.current # NoColor => weight[script.target] = ShiftedTarget(n)
  /\ n > 1 \/ script.current # NoColor => weight[Other(script.target)] = ShiftedSource(n)

TrafficOK ==
  Unharmed =>
    /\ script.phase \in Preparing \cup {"shift", "clear_again", "unlink"} => link = script.current
    /\ script.phase = "link" => link = NoColor
    /\ script.phase \in {"stop", "finish"} => link = script.target
    /\ script.phase \in Preparing \cup {"idle"} /\ link # NoColor => InCharge(link)
    /\ script.phase \in Preparing \ {"infra"} => proxy
    /\ script.phase \in {"final", "clear"} => healthy[script.target]
    /\ script.phase \in {"shift"} \cup Switched => proxy /\ Whole(script.target)
    /\ script.phase = "shift" /\ script.current # NoColor => Whole(script.current)
    /\ script.phase = "shift" => Shifting(script.count)
    /\ script.phase \in Switched => AllTraffic(script.target)

\* How far the commit has got on its way into the containers.
CommitOK ==
  /\ script.phase \in {"base", "build", "up"} => src[script.target] = version
  /\ script.apps = {} /\ script.phase = "up" => \A s \in Services : image[script.target][s] \in {0, version}
  /\ script.apps = {} /\ script.phase \in {"health", "final", "clear", "shift", "clear_again", "unlink", "link"} =>
       \A s \in Services : run[script.target][s] = version

\* The nginx that is reloaded finds its own environment among those that run.
RunsOK ==
  /\ script.phase # "idle" => version > 0
  /\ script.phase \in {"health", "final", "clear", "shift", "clear_again"} => script.target \in Running

IInv == TypeOK /\ ScriptOK /\ TrafficOK /\ CommitOK /\ RunsOK

-----------------------------------------------------------------------------
(* What the actions have in common.                                        *)

\* The values of the variable script.
Script == [phase : Phases, current : Colors \cup {NoColor}, target : Colors, apps : SUBSET Services, count : Nat]

LEMMA ScriptValues ==
  /\ Idle \in Script
  /\ \A s \in Script, p \in Phases : [s EXCEPT !.phase = p, !.count = 0] \in Script
  /\ \A s \in Script : [s EXCEPT !.count = @ + 1] \in Script
  /\ \A c \in Colors \cup {NoColor}, d \in Colors, apps \in SUBSET Services :
       [phase |-> "infra", current |-> c, target |-> d, apps |-> apps, count |-> 0] \in Script
<1>1. Idle \in Script
  BY DEF Script, Idle, Phases, Colors
<1>2. \A s \in Script, p \in Phases : [s EXCEPT !.phase = p, !.count = 0] \in Script
  BY DEF Script
<1>3. \A s \in Script : [s EXCEPT !.count = @ + 1] \in Script
  BY DEF Script
<1>4. \A c \in Colors \cup {NoColor}, d \in Colors, apps \in SUBSET Services :
       [phase |-> "infra", current |-> c, target |-> d, apps |-> apps, count |-> 0] \in Script
  BY DEF Script, Phases
<1> QED
  BY <1>1, <1>2, <1>3, <1>4

\* Goto changes the phase only.
LEMMA GotoMeans ==
  ASSUME script \in Script, NEW p \in Phases, Goto(p)
  PROVE  /\ script'.phase = p /\ script'.count = 0
         /\ script'.current = script.current /\ script'.target = script.target /\ script'.apps = script.apps
BY DEF Goto, Script

\* A step that counts changes the count only.
LEMMA CountingMeans ==
  ASSUME script \in Script, script' = [script EXCEPT !.count = @ + 1]
  PROVE  /\ script'.phase = script.phase /\ script'.count = script.count + 1
         /\ script'.current = script.current /\ script'.target = script.target /\ script'.apps = script.apps
BY DEF Script

\* A script that has ended.
LEMMA IdleMeans ==
  ASSUME script' = Idle
  PROVE  script'.phase = "idle" /\ script'.current = NoColor /\ script'.target = "blue" /\ script'.apps = {}
BY DEF Idle

\* The name of every phase is one.
LEMMA PhaseNames ==
  /\ Phases = {"idle", "infra", "copy", "base", "build", "up", "health", "final",
               "clear", "shift", "clear_again", "unlink", "link", "stop", "finish"}
BY DEF Phases

\* Faults stay; one that the scripts do not cope with is seen at once.
LEMMA FaultsStay ==
  ASSUME Unharmed', faults \subseteq faults'
  PROVE  Unharmed
BY DEF Unharmed

LEMMA FaultSeen ==
  ASSUME NEW f, Fault(f)
  PROVE  faults \subseteq faults' /\ f \in faults' /\ (f \in Delicate \cup {"command", "reload", "nginx"} => ~Unharmed')
BY DEF Fault, Unharmed

\* The two environments.
LEMMA TwoColors ==
  /\ Colors = {"blue", "green"} /\ NoColor \notin Colors
  /\ \A c \in Colors : Other(c) \in Colors /\ Other(c) # c /\ Other(Other(c)) = c
  /\ \A c, d \in Colors : d # c => d = Other(c)
BY DEF Colors, Other, NoColor

\* The script never works on the environment that was in use.
LEMMA TargetIsOther ==
  ASSUME script \in Script, ScriptOK, script.current # NoColor
  PROVE  script.target = Other(script.current) /\ script.current = Other(script.target) /\ script.current \in Colors
BY DEF Script, ScriptOK, Other, Colors, NoColor

\* The weights that the shift sets.
LEMMA Weights ==
  ASSUME NEW n \in 0..9
  PROVE  /\ n \in {0, 2, 4, 6, 8} => n % 2 = 0 /\ StepWeight(n) = ShiftedTarget(n + 1)
         /\ n \in {1, 3, 5, 7, 9} => n % 2 = 1 /\ StepWeight(n) = IF n = 9 THEN 0 ELSE ShiftedSource(n + 1)
         /\ StepWeight(n) \in 0..100
<1> USE DEF StepWeight, ShiftSteps, ShiftedTarget, ShiftedSource
<1>1. n \in {0, 1, 2, 3, 4, 5, 6, 7, 8, 9}
  OBVIOUS
<1>2. CASE n = 0
  BY <1>2
<1>3. CASE n = 1
  BY <1>3
<1>4. CASE n = 2
  BY <1>4
<1>5. CASE n = 3
  BY <1>5
<1>6. CASE n = 4
  BY <1>6
<1>7. CASE n = 5
  BY <1>7
<1>8. CASE n = 6
  BY <1>8
<1>9. CASE n = 7
  BY <1>9
<1>10. CASE n = 8
  BY <1>10
<1>11. CASE n = 9
  BY <1>11
<1> QED
  BY <1>1, <1>2, <1>3, <1>4, <1>5, <1>6, <1>7, <1>8, <1>9, <1>10, <1>11

-----------------------------------------------------------------------------
(* TypeOK and ScriptOK                                                     *)

LEMMA ScriptTyped ==
  /\ TypeOK => script \in Script
BY DEF TypeOK, Script

\* Every step gives the script such a value, and keeps to its target.
LEMMA ScriptStep ==
  ASSUME TypeOK, ScriptOK, Next
  PROVE  script' \in Script /\ ScriptOK'
<1>a. script \in Script /\ ScriptOK
  BY ScriptTyped
<1>1. ASSUME NEW apps \in SUBSET Services, Start(apps) PROVE script' \in Script /\ ScriptOK'
  <2>1. link \in Colors \cup {NoColor}
    BY DEF TypeOK
  <2>2. script' = [phase |-> "infra", current |-> link, target |-> IF link = "blue" THEN "green" ELSE "blue", apps |-> apps, count |-> 0]
    BY <1>1 DEF Start
  <2> QED
    BY <2>1, <2>2, ScriptValues DEF ScriptOK, Colors
<1>2. ASSUME Deploy PROVE script' \in Script /\ ScriptOK'
  <2>1. CASE EnsureProxy
    <3>1. "copy" \in Phases /\ Goto("copy")
      BY <2>1, PhaseNames DEF EnsureProxy
    <3>2. script' \in Script
      BY <3>1, <1>a, ScriptValues DEF Goto
    <3> QED
      BY <3>1, <3>2, <1>a, GotoMeans DEF ScriptOK
  <2>2. CASE CopySources
    <3>1. "base" \in Phases /\ Goto("base")
      BY <2>2, PhaseNames DEF CopySources
    <3>2. script' \in Script
      BY <3>1, <1>a, ScriptValues DEF Goto
    <3> QED
      BY <3>1, <3>2, <1>a, GotoMeans DEF ScriptOK
  <2>3. CASE BuildBase
    <3>1. "build" \in Phases /\ Goto("build")
      BY <2>3, PhaseNames DEF BuildBase
    <3>2. script' \in Script
      BY <3>1, <1>a, ScriptValues DEF Goto
    <3> QED
      BY <3>1, <3>2, <1>a, GotoMeans DEF ScriptOK
  <2>4. CASE Build
    <3>1. "up" \in Phases /\ Goto("up")
      BY <2>4, PhaseNames DEF Build
    <3>2. script' \in Script
      BY <3>1, <1>a, ScriptValues DEF Goto
    <3> QED
      BY <3>1, <3>2, <1>a, GotoMeans DEF ScriptOK
  <2>5. CASE Up
    <3>1. "health" \in Phases /\ Goto("health")
      BY <2>5, PhaseNames DEF Up
    <3>2. script' \in Script
      BY <3>1, <1>a, ScriptValues DEF Goto
    <3> QED
      BY <3>1, <3>2, <1>a, GotoMeans DEF ScriptOK
  <2>6. CASE BuildFails
    <3>1. script' = Idle
      BY <2>6 DEF BuildFails
    <3> QED
      BY <3>1, ScriptValues, IdleMeans DEF ScriptOK, NoColor
  <2>7. CASE NotHealthyYet
    <3>1. script.phase = "health" /\ script' = [script EXCEPT !.count = @ + 1]
      BY <2>7 DEF NotHealthyYet
    <3> QED
      BY <3>1, <1>a, ScriptValues, CountingMeans DEF ScriptOK
  <2>8. CASE AllHealthy
    <3>1. "final" \in Phases /\ Goto("final")
      BY <2>8, PhaseNames DEF AllHealthy
    <3>2. script' \in Script
      BY <3>1, <1>a, ScriptValues DEF Goto
    <3> QED
      BY <3>1, <3>2, <1>a, GotoMeans DEF ScriptOK
  <2>9. CASE RollBack
    <3>1. script' = Idle
      BY <2>9 DEF RollBack
    <3> QED
      BY <3>1, ScriptValues, IdleMeans DEF ScriptOK, NoColor
  <2>10. CASE FinalCheckPasses
    <3>1. "clear" \in Phases /\ Goto("clear")
      BY <2>10, PhaseNames DEF FinalCheckPasses
    <3>2. script' \in Script
      BY <3>1, <1>a, ScriptValues DEF Goto
    <3> QED
      BY <3>1, <3>2, <1>a, GotoMeans DEF ScriptOK
  <2>11. CASE SetWeight
    <3>1. "clear_again" \in Phases /\ NextCommand /\ script.phase = "shift"
      BY <2>11, PhaseNames DEF SetWeight
    <3>2. CASE Goto("clear_again")
      BY <3>1, <3>2, <1>a, ScriptValues, GotoMeans DEF ScriptOK, Goto
    <3>3. CASE script.count + 1 # Commands /\ script' = [script EXCEPT !.count = @ + 1]
      <4>1. script.count \in Nat /\ script.count < Commands
        BY <3>1, <1>a DEF Script, ScriptOK
      <4>2. script.count + 1 < Commands
        BY <3>3, <4>1 DEF Commands
      <4> QED
        BY <3>3, <4>2, <1>a, ScriptValues, CountingMeans DEF ScriptOK
    <3> QED
      BY <3>1, <3>2, <3>3 DEF NextCommand
  <2>12. CASE WeightIgnored
    <3>1. "clear_again" \in Phases /\ NextCommand /\ script.phase = "shift"
      BY <2>12, PhaseNames DEF WeightIgnored
    <3>2. CASE Goto("clear_again")
      BY <3>1, <3>2, <1>a, ScriptValues, GotoMeans DEF ScriptOK, Goto
    <3>3. CASE script.count + 1 # Commands /\ script' = [script EXCEPT !.count = @ + 1]
      <4>1. script.count \in Nat /\ script.count < Commands
        BY <3>1, <1>a DEF Script, ScriptOK
      <4>2. script.count + 1 < Commands
        BY <3>3, <4>1 DEF Commands
      <4> QED
        BY <3>3, <4>2, <1>a, ScriptValues, CountingMeans DEF ScriptOK
    <3> QED
      BY <3>1, <3>2, <3>3 DEF NextCommand
  <2>13. CASE ShiftFails
    <3>1. "clear_again" \in Phases /\ Goto("clear_again")
      BY <2>13, PhaseNames DEF ShiftFails
    <3>2. script' \in Script
      BY <3>1, <1>a, ScriptValues DEF Goto
    <3> QED
      BY <3>1, <3>2, <1>a, GotoMeans DEF ScriptOK
  <2>14. CASE RemoveLink
    <3>1. "link" \in Phases /\ Goto("link")
      BY <2>14, PhaseNames DEF RemoveLink
    <3>2. script' \in Script
      BY <3>1, <1>a, ScriptValues DEF Goto
    <3> QED
      BY <3>1, <3>2, <1>a, GotoMeans DEF ScriptOK
  <2>15. CASE SetLink
    <3>1. "stop" \in Phases /\ Goto("stop")
      BY <2>15, PhaseNames DEF SetLink
    <3>2. script' \in Script
      BY <3>1, <1>a, ScriptValues DEF Goto
    <3> QED
      BY <3>1, <3>2, <1>a, GotoMeans DEF ScriptOK
  <2>16. CASE StopOld
    <3>1. "finish" \in Phases /\ Goto("finish")
      BY <2>16, PhaseNames DEF StopOld
    <3>2. script' \in Script
      BY <3>1, <1>a, ScriptValues DEF Goto
    <3> QED
      BY <3>1, <3>2, <1>a, GotoMeans DEF ScriptOK
  <2>17. CASE Finish
    <3>1. script' = Idle
      BY <2>17 DEF Finish
    <3> QED
      BY <3>1, ScriptValues, IdleMeans DEF ScriptOK, NoColor
  <2>18. CASE ClearCache
    <3>1. \E p \in {"shift", "unlink"} : p \in Phases /\ Goto(p)
      BY <2>18, PhaseNames DEF ClearCache
    <3>2. script' \in Script
      BY <3>1, <1>a, ScriptValues DEF Goto
    <3> QED
      BY <3>1, <3>2, <1>a, GotoMeans DEF ScriptOK, Commands
  <2> QED
    BY <1>2, <2>1, <2>2, <2>3, <2>4, <2>5, <2>6, <2>7, <2>8, <2>9, <2>10, <2>11, <2>12, <2>13, <2>14, <2>15, <2>16, <2>17, <2>18 DEF Deploy
<1>3. CASE Die
  <2>1. script' = Idle
    BY <1>3 DEF Die
  <2> QED
    BY <2>1, ScriptValues, IdleMeans DEF ScriptOK, NoColor
<1>4. CASE RenewCerts
  BY <1>4, <1>a DEF RenewCerts, ScriptOK
<1>5. CASE CleanUp
  BY <1>5, <1>a DEF CleanUp, ScriptOK
<1> QED
  BY <1>1, <1>2, <1>3, <1>4, <1>5 DEF Next

\* The other variables keep their types.
HostTyped ==
  /\ link \in Colors \cup {NoColor}
  /\ src \in [Colors -> 0..MaxDeploys]
  /\ image \in [Colors -> [Services -> 0..MaxDeploys]]
  /\ run \in [Colors -> [Services -> 0..MaxDeploys]]
  /\ healthy \in [Colors -> BOOLEAN]
  /\ knows \in [Colors -> SUBSET Colors]
  /\ base \in BOOLEAN
  /\ proxy \in BOOLEAN
  /\ weight \in [Colors -> 0..100]
  /\ version \in 0..MaxDeploys
  /\ faults \subseteq Phases \cup {"command", "reload", "nginx"}

LEMMA HostStep ==
  ASSUME TypeOK, ScriptOK, Next
  PROVE  HostTyped'
<1>a. HostTyped /\ script \in Script /\ script.target \in Colors /\ 0 \in 0..MaxDeploys /\ MaxDeploys \in Nat
  BY ScriptTyped, BlueGreenAssumption DEF TypeOK, HostTyped, Script
<1>1. ASSUME NEW apps \in SUBSET Services, Start(apps) PROVE HostTyped'
  BY <1>1, <1>a DEF Start, HostTyped
<1>2. ASSUME Deploy PROVE HostTyped'
  <2>1. CASE EnsureProxy
    BY <2>1, <1>a DEF EnsureProxy, HostTyped, ConfigWeight
  <2>2. CASE CopySources
    BY <2>2, <1>a DEF CopySources, host, HostTyped
  <2>3. CASE BuildBase
    BY <2>3, <1>a DEF BuildBase, host, HostTyped
  <2>4. CASE Build
    <3>1. \A B : [s \in Services |-> IF s \in B THEN src[script.target] ELSE image[script.target][s]] \in [Services -> 0..MaxDeploys]
      BY <1>a DEF HostTyped
    <3>2. image' \in [Colors -> [Services -> 0..MaxDeploys]]
      BY <2>4, <1>a, <3>1 DEF Build, HostTyped
    <3> QED
      BY <2>4, <1>a, <3>2 DEF Build, HostTyped
  <2>5. CASE Up
    <3>1. [s \in Services |-> IF s \in Missing(script.target) THEN src[script.target] ELSE image[script.target][s]] \in [Services -> 0..MaxDeploys]
      BY <1>a DEF HostTyped
    <3>2. image' \in [Colors -> [Services -> 0..MaxDeploys]]
      BY <2>5, <1>a, <3>1 DEF Up, HostTyped
    <3>3. run' \in [Colors -> [Services -> 0..MaxDeploys]]
      BY <2>5, <1>a, <3>2 DEF Up, HostTyped
    <3>4. \A new : KnowsAfterUp(script.target, new) \in [Colors -> SUBSET Colors]
      BY <1>a DEF KnowsAfterUp, Running, HostTyped
    <3> QED
      BY <2>5, <1>a, <3>2, <3>3, <3>4 DEF Up, HostTyped
  <2>6. CASE BuildFails
    BY <2>6, <1>a DEF BuildFails, host, HostTyped
  <2>7. CASE NotHealthyYet
    BY <2>7, <1>a DEF NotHealthyYet, host, HostTyped
  <2>8. CASE AllHealthy
    BY <2>8, <1>a DEF AllHealthy, host, HostTyped
  <2>9. CASE RollBack
    BY <2>9, <1>a DEF RollBack, HostTyped, Down, NoContainers
  <2>10. CASE FinalCheckPasses
    BY <2>10, <1>a DEF FinalCheckPasses, host, HostTyped
  <2>11. CASE SetWeight
    <3>1. script.count \in 0..9
      BY <2>11, <1>a DEF SetWeight, ScriptOK, Script, Commands
    <3>2. StepWeight(script.count) \in 0..100
      BY <3>1, Weights
    <3> QED
      BY <2>11, <1>a, <3>2 DEF SetWeight, HostTyped
  <2>12. CASE WeightIgnored
    BY <2>12, <1>a DEF WeightIgnored, host, HostTyped, Fault
  <2>13. CASE ShiftFails
    BY <2>13, <1>a DEF ShiftFails, host, HostTyped, Fault
  <2>14. CASE RemoveLink
    BY <2>14, <1>a DEF RemoveLink, host, HostTyped
  <2>15. CASE SetLink
    BY <2>15, <1>a DEF SetLink, host, HostTyped
  <2>16. CASE StopOld
    <3>1. UNCHANGED <<link, src, image, base, proxy, weight, version, faults>>
      BY <2>16 DEF StopOld
    <3>2. CASE Down(script.current)
      BY <3>1, <3>2, <1>a DEF HostTyped, Down, NoContainers
    <3>3. CASE UNCHANGED <<run, healthy, knows>>
      BY <3>1, <3>3, <1>a DEF HostTyped
    <3> QED
      BY <2>16, <3>2, <3>3 DEF StopOld
  <2>17. CASE Finish
    BY <2>17, <1>a DEF Finish, host, HostTyped
  <2>18. CASE ClearCache
    <3>1. Running \subseteq Colors
      BY DEF Running
    <3>2. faults' \subseteq faults \cup {"nginx"}
      BY <2>18 DEF ClearCache, Fault
    <3> QED
      BY <2>18, <1>a, <3>1, <3>2 DEF ClearCache, Reload, HostTyped
  <2> QED
    BY <1>2, <2>1, <2>2, <2>3, <2>4, <2>5, <2>6, <2>7, <2>8, <2>9, <2>10, <2>11, <2>12, <2>13, <2>14, <2>15, <2>16, <2>17, <2>18 DEF Deploy
<1>3. CASE Die
  BY <1>3, <1>a DEF Die, host, HostTyped, Fault, Script
<1>4. CASE RenewCerts
  BY <1>4, <1>a DEF RenewCerts, HostTyped, Fault, ConfigWeight
<1>5. CASE CleanUp
  <2>1. image' \in [Colors -> [Services -> 0..MaxDeploys]]
    BY <1>5, <1>a DEF CleanUp, HostTyped
  <2> QED
    BY <1>5, <1>a, <2>1 DEF CleanUp, HostTyped
<1> QED
  BY <1>1, <1>2, <1>3, <1>4, <1>5 DEF Next

LEMMA TypeStep ==
  ASSUME TypeOK, ScriptOK, Next
  PROVE  TypeOK'
<1>1. script' \in Script
  BY ScriptStep
<1>2. HostTyped'
  BY HostStep
<1> QED
  BY <1>1, <1>2 DEF TypeOK, HostTyped, Script

-----------------------------------------------------------------------------
(* TrafficOK                                                               *)

\* What TrafficOK says as long as nothing has gone wrong.
Traffic ==
  /\ script.phase \in Preparing \cup {"shift", "clear_again", "unlink"} => link = script.current
  /\ script.phase = "link" => link = NoColor
  /\ script.phase \in {"stop", "finish"} => link = script.target
  /\ script.phase \in Preparing \cup {"idle"} /\ link # NoColor => InCharge(link)
  /\ script.phase \in Preparing \ {"infra"} => proxy
  /\ script.phase \in {"final", "clear"} => healthy[script.target]
  /\ script.phase \in {"shift"} \cup Switched => proxy /\ Whole(script.target)
  /\ script.phase = "shift" /\ script.current # NoColor => Whole(script.current)
  /\ script.phase = "shift" => Shifting(script.count)
  /\ script.phase \in Switched => AllTraffic(script.target)

LEMMA TrafficIs == TrafficOK <=> (Unharmed => Traffic)
BY DEF TrafficOK, Traffic

\* While nothing goes wrong every step keeps to the order in which traffic
\* and symlink move.
LEMMA TrafficStep ==
  ASSUME TypeOK, ScriptOK, TrafficOK, RunsOK, Next
  PROVE  TrafficOK'
<1> SUFFICES ASSUME Unharmed' PROVE Traffic'
  BY DEF TrafficOK, Traffic
<1>a. script \in Script /\ script' \in Script /\ ScriptOK /\ ScriptOK' /\ script.target \in Colors /\ link \in Colors \cup {NoColor}
  BY ScriptTyped, ScriptStep DEF TypeOK, Script
<1>t. healthy \in [Colors -> BOOLEAN] /\ weight \in [Colors -> 0..100] /\ knows \in [Colors -> SUBSET Colors]
  BY DEF TypeOK
<1>b. faults \subseteq faults' => Traffic
  BY FaultsStay, TrafficIs
<1>c. script.current # NoColor => script.target # script.current
  BY <1>a, TargetIsOther, TwoColors
<1>1. ASSUME NEW apps \in SUBSET Services, Start(apps) PROVE Traffic'
  <2>1. script.phase = "idle" /\ faults' = faults /\ UNCHANGED <<link, healthy, knows, proxy, weight>>
    BY <1>1 DEF Start
  <2>2. Traffic
    BY <2>1, <1>b
  <2>3. script'.phase = "infra" /\ script'.current = link
    BY <1>1 DEF Start
  <2>4. link # NoColor => InCharge(link)'
    BY <2>1, <2>2 DEF Traffic, Preparing, InCharge, Whole, AllTraffic
  <2> QED
    BY <2>1, <2>3, <2>4 DEF Traffic, Preparing, Switched
<1>2. ASSUME Deploy PROVE Traffic'
  <2>1. CASE EnsureProxy
    <3>1. script.phase = "infra" /\ faults' = faults /\ UNCHANGED <<link, healthy, knows>>
      BY <2>1 DEF EnsureProxy
    <3>2. Traffic
      BY <3>1, <1>b
    <3>3. script'.phase = "copy" /\ script'.current = script.current /\ script'.target = script.target
      BY <2>1, <1>a, GotoMeans, PhaseNames DEF EnsureProxy
    <3>4. link = script.current /\ (link # NoColor => InCharge(link))
      BY <3>1, <3>2 DEF Traffic, Preparing, Switched
    <3>5. proxy'
      BY <2>1 DEF EnsureProxy
    <3>6. ASSUME link # NoColor PROVE weight' = weight /\ InCharge(link)
      BY <2>1, <3>4, <3>6 DEF EnsureProxy, InCharge
    <3>7. link # NoColor => InCharge(link)'
      BY <3>1, <3>5, <3>6 DEF InCharge, Whole, AllTraffic
    <3> QED
      BY <3>1, <3>3, <3>4, <3>5, <3>7 DEF Traffic, Preparing, Switched
  <2>2. CASE CopySources
    <3>1. script.phase = "copy" /\ faults' = faults /\ UNCHANGED <<link, healthy, knows, proxy, weight>>
      BY <2>2 DEF CopySources
    <3>2. Traffic
      BY <3>1, <1>b
    <3>3. script'.phase = "base" /\ script'.current = script.current /\ script'.target = script.target
      BY <2>2, <1>a, GotoMeans, PhaseNames DEF CopySources
    <3>4. link = script.current /\ (link # NoColor => InCharge(link)) /\ proxy
      BY <3>1, <3>2 DEF Traffic, Preparing, Switched
    <3>5. link # NoColor => InCharge(link)'
      BY <3>1, <3>4 DEF InCharge, Whole, AllTraffic
    <3> QED
      BY <3>1, <3>3, <3>4, <3>5 DEF Traffic, Preparing, Switched
  <2>3. CASE BuildBase
    <3>1. script.phase = "base" /\ faults' = faults /\ UNCHANGED <<link, healthy, knows, proxy, weight>>
      BY <2>3 DEF BuildBase
    <3>2. Traffic
      BY <3>1, <1>b
    <3>3. script'.phase = "build" /\ script'.current = script.current /\ script'.target = script.target
      BY <2>3, <1>a, GotoMeans, PhaseNames DEF BuildBase
    <3>4. link = script.current /\ (link # NoColor => InCharge(link)) /\ proxy
      BY <3>1, <3>2 DEF Traffic, Preparing, Switched
    <3>5. link # NoColor => InCharge(link)'
      BY <3>1, <3>4 DEF InCharge, Whole, AllTraffic
    <3> QED
      BY <3>1, <3>3, <3>4, <3>5 DEF Traffic, Preparing, Switched
  <2>4. CASE Build
    <3>1. script.phase = "build" /\ faults' = faults /\ UNCHANGED <<link, healthy, knows, proxy, weight>>
      BY <2>4 DEF Build
    <3>2. Traffic
      BY <3>1, <1>b
    <3>3. script'.phase = "up" /\ script'.current = script.current /\ script'.target = script.target
      BY <2>4, <1>a, GotoMeans, PhaseNames DEF Build
    <3>4. link = script.current /\ (link # NoColor => InCharge(link)) /\ proxy
      BY <3>1, <3>2 DEF Traffic, Preparing, Switched
    <3>5. link # NoColor => InCharge(link)'
      BY <3>1, <3>4 DEF InCharge, Whole, AllTraffic
    <3> QED
      BY <3>1, <3>3, <3>4, <3>5 DEF Traffic, Preparing, Switched
  <2>5. CASE Up
    <3>1. script.phase = "up" /\ faults' = faults /\ UNCHANGED <<link, proxy, weight>>
      BY <2>5 DEF Up
    <3>2. Traffic
      BY <3>1, <1>b
    <3>3. script'.phase = "health" /\ script'.current = script.current /\ script'.target = script.target
      BY <2>5, <1>a, GotoMeans, PhaseNames DEF Up
    <3>4. link = script.current /\ (link # NoColor => InCharge(link)) /\ proxy
      BY <3>1, <3>2 DEF Traffic, Preparing, Switched
    <3>5. ASSUME link # NoColor PROVE healthy'[link] = healthy[link] /\ (link \in knows[link] => link \in knows'[link])
      BY <2>5, <3>4, <3>5, <1>a, <1>c, <1>t DEF Up, KnowsAfterUp
    <3>6. link # NoColor => InCharge(link)'
      BY <3>1, <3>4, <3>5 DEF InCharge, Whole, AllTraffic
    <3> QED
      BY <3>1, <3>3, <3>4, <3>6 DEF Traffic, Preparing, Switched
  <2>6. CASE BuildFails
    <3>1. script.phase \in {"build", "up"} /\ faults' = faults /\ UNCHANGED <<link, healthy, knows, proxy, weight>>
      BY <2>6 DEF BuildFails, host
    <3>2. Traffic
      BY <3>1, <1>b
    <3>3. script'.phase = "idle"
      BY <2>6, IdleMeans DEF BuildFails
    <3>4. link = script.current /\ (link # NoColor => InCharge(link)) /\ proxy
      BY <3>1, <3>2 DEF Traffic, Preparing, Switched
    <3>5. link # NoColor => InCharge(link)'
      BY <3>1, <3>4 DEF InCharge, Whole, AllTraffic
    <3> QED
      BY <3>1, <3>3, <3>5 DEF Traffic, Preparing, Switched
  <2>7. CASE NotHealthyYet
    <3>1. script.phase = "health" /\ faults' = faults /\ UNCHANGED <<link, healthy, knows, proxy, weight>>
      BY <2>7 DEF NotHealthyYet, host
    <3>2. Traffic
      BY <3>1, <1>b
    <3>3. script'.phase = "health" /\ script'.current = script.current /\ script'.target = script.target
      BY <2>7, <3>1, <1>a, CountingMeans DEF NotHealthyYet
    <3>4. link = script.current /\ (link # NoColor => InCharge(link)) /\ proxy
      BY <3>1, <3>2 DEF Traffic, Preparing, Switched
    <3>5. link # NoColor => InCharge(link)'
      BY <3>1, <3>4 DEF InCharge, Whole, AllTraffic
    <3> QED
      BY <3>1, <3>3, <3>4, <3>5 DEF Traffic, Preparing, Switched
  <2>8. CASE AllHealthy
    <3>1. script.phase = "health" /\ faults' = faults /\ UNCHANGED <<link, proxy, weight>>
      BY <2>8 DEF AllHealthy
    <3>2. Traffic
      BY <3>1, <1>b
    <3>3. script'.phase = "final" /\ script'.current = script.current /\ script'.target = script.target
      BY <2>8, <1>a, GotoMeans, PhaseNames DEF AllHealthy
    <3>4. link = script.current /\ (link # NoColor => InCharge(link)) /\ proxy
      BY <3>1, <3>2 DEF Traffic, Preparing, Switched
    <3>5. ASSUME link # NoColor PROVE healthy'[link] = healthy[link] /\ knows' = knows
      BY <2>8, <3>4, <3>5, <1>a, <1>c, <1>t DEF AllHealthy
    <3>6. link # NoColor => InCharge(link)'
      BY <3>1, <3>4, <3>5 DEF InCharge, Whole, AllTraffic
    <3>7. healthy'[script.target]
      BY <2>8, <1>a, <1>t DEF AllHealthy
    <3> QED
      BY <3>1, <3>3, <3>4, <3>6, <3>7 DEF Traffic, Preparing, Switched
  <2>9. CASE RollBack
    <3>1. script.phase \in {"health", "final"} /\ faults' = faults /\ UNCHANGED <<link, proxy, weight>>
      BY <2>9 DEF RollBack
    <3>2. Traffic
      BY <3>1, <1>b
    <3>3. script'.phase = "idle"
      BY <2>9, IdleMeans DEF RollBack
    <3>4. link = script.current /\ (link # NoColor => InCharge(link))
      BY <3>1, <3>2 DEF Traffic, Preparing, Switched
    <3>5. ASSUME link # NoColor PROVE healthy'[link] = healthy[link] /\ (link \in knows[link] => link \in knows'[link])
      BY <2>9, <3>4, <3>5, <1>a, <1>c, <1>t DEF RollBack, Down
    <3>6. link # NoColor => InCharge(link)'
      BY <3>1, <3>4, <3>5 DEF InCharge, Whole, AllTraffic
    <3> QED
      BY <3>1, <3>3, <3>6 DEF Traffic, Preparing, Switched
  <2>10. CASE FinalCheckPasses
    <3>1. script.phase = "final" /\ faults' = faults /\ UNCHANGED <<link, healthy, knows, proxy, weight>>
      BY <2>10 DEF FinalCheckPasses, host
    <3>2. Traffic
      BY <3>1, <1>b
    <3>3. script'.phase = "clear" /\ script'.current = script.current /\ script'.target = script.target
      BY <2>10, <1>a, GotoMeans, PhaseNames DEF FinalCheckPasses
    <3>4. link = script.current /\ (link # NoColor => InCharge(link)) /\ proxy /\ healthy[script.target]
      BY <3>1, <3>2 DEF Traffic, Preparing, Switched
    <3>5. link # NoColor => InCharge(link)'
      BY <3>1, <3>4 DEF InCharge, Whole, AllTraffic
    <3>6. healthy'[script'.target]
      BY <3>1, <3>3, <3>4
    <3> QED
      BY <3>1, <3>3, <3>4, <3>5, <3>6 DEF Traffic, Preparing, Switched
  <2>11. CASE SetWeight
    <3> DEFINE n == script.count
    <3>1. script.phase = "shift" /\ faults' = faults /\ UNCHANGED <<link, healthy, knows, proxy>> /\ NextCommand
      BY <2>11 DEF SetWeight
    <3>2. Traffic /\ Shifting(n) /\ n \in 0..9
      BY <3>1, <1>a, <1>b DEF Traffic, ScriptOK, Script, Commands
    <3>3. weight' = [weight EXCEPT ![Server(n)] = StepWeight(n)]
      BY <2>11 DEF SetWeight
    <3> HIDE DEF n
    <3>a. link = script.current /\ proxy /\ Whole(script.target) /\ (script.current # NoColor => Whole(script.current))
      BY <3>1, <3>2 DEF Traffic, Preparing
    <3>b. script'.target = script.target /\ script'.current = script.current
          => proxy' /\ Whole(script.target)' /\ (script.current # NoColor => Whole(script.current)')
      BY <3>1, <3>a DEF Whole
    <3>4. /\ n \in {0, 2, 4, 6, 8} => weight'[script.target] = ShiftedTarget(n + 1) /\ weight'[Other(script.target)] = weight[Other(script.target)]
          /\ n \in {1, 3, 5, 7, 9} => /\ weight'[Other(script.target)] = IF n = 9 THEN 0 ELSE ShiftedSource(n + 1)
                                     /\ weight'[script.target] = weight[script.target]
      BY <3>2, <3>3, <1>a, <1>t, Weights, TwoColors DEF Server
    <3>5. CASE n + 1 = Commands /\ Goto("clear_again")
      <4>1. script'.phase = "clear_again" /\ script'.current = script.current /\ script'.target = script.target
        BY <3>5, <1>a, GotoMeans, PhaseNames
      <4>2. n = 9
        BY <3>2, <3>5 DEF Commands
      <4>3. AllTraffic(script.target)'
        BY <3>2, <3>4, <4>1, <4>2 DEF AllTraffic, Shifting, ShiftedTarget
      <4> QED
        BY <3>1, <3>a, <3>b, <4>1, <4>3 DEF Traffic, Preparing, Switched
    <3>6. CASE n + 1 # Commands /\ script' = [script EXCEPT !.count = @ + 1]
      <4>1. script'.phase = "shift" /\ script'.current = script.current /\ script'.target = script.target /\ script'.count = n + 1
        BY <3>1, <3>6, <1>a, CountingMeans DEF n
      <4>2. n \in 0..8
        BY <3>2, <3>6 DEF Commands
      <4>3. n \in {0, 1, 2, 3, 4, 5, 6, 7, 8}
        BY <4>2
      <4>4. /\ n \in {1, 3, 5, 7} => ShiftedTarget(n) = ShiftedTarget(n + 1)
            /\ n \in {0, 2, 4, 6, 8} => ShiftedSource(n) = ShiftedSource(n + 1)
        BY DEF ShiftedTarget, ShiftedSource
      <4>5. weight'[script.target] = ShiftedTarget(n + 1)
        BY <3>2, <3>4, <4>3, <4>4 DEF Shifting
      <4>6. n > 0 \/ script.current # NoColor => weight'[Other(script.target)] = ShiftedSource(n + 1)
        BY <3>2, <3>4, <4>3, <4>4 DEF Shifting
      <4>7. Shifting(script.count)'
        BY <4>1, <4>2, <4>5, <4>6 DEF Shifting
      <4> QED
        BY <3>1, <3>a, <3>b, <4>1, <4>7 DEF Traffic, Preparing, Switched
    <3> QED
      BY <3>1, <3>5, <3>6 DEF NextCommand, n
  <2>12. CASE WeightIgnored
    <3>1. Fault("command")
      BY <2>12 DEF WeightIgnored
    <3>2. ~Unharmed'
      BY <3>1, FaultSeen
    <3> QED
      BY <3>2
  <2>13. CASE ShiftFails
    <3>1. Fault("command")
      BY <2>13 DEF ShiftFails
    <3>2. ~Unharmed'
      BY <3>1, FaultSeen
    <3> QED
      BY <3>2
  <2>14. CASE RemoveLink
    <3>1. script.phase = "unlink" /\ faults' = faults /\ UNCHANGED <<healthy, knows, proxy, weight>>
      BY <2>14 DEF RemoveLink
    <3>2. Traffic
      BY <3>1, <1>b
    <3>3. script'.phase = "link" /\ script'.current = script.current /\ script'.target = script.target
      BY <2>14, <1>a, GotoMeans, PhaseNames DEF RemoveLink
    <3>4. proxy /\ Whole(script.target) /\ AllTraffic(script.target)
      BY <3>1, <3>2 DEF Traffic, Preparing, Switched
    <3>5. proxy' /\ Whole(script.target)'
      BY <3>1, <3>3, <3>4 DEF Whole
    <3>6. AllTraffic(script.target)'
      BY <3>1, <3>3, <3>4 DEF AllTraffic
    <3>7. link' = NoColor
      BY <2>14 DEF RemoveLink
    <3> QED
      BY <3>3, <3>5, <3>6, <3>7 DEF Traffic, Preparing, Switched
  <2>15. CASE SetLink
    <3>1. script.phase = "link" /\ faults' = faults /\ UNCHANGED <<healthy, knows, proxy, weight>>
      BY <2>15 DEF SetLink
    <3>2. Traffic
      BY <3>1, <1>b
    <3>3. script'.phase = "stop" /\ script'.current = script.current /\ script'.target = script.target
      BY <2>15, <1>a, GotoMeans, PhaseNames DEF SetLink
    <3>4. proxy /\ Whole(script.target) /\ AllTraffic(script.target)
      BY <3>1, <3>2 DEF Traffic, Preparing, Switched
    <3>5. proxy' /\ Whole(script.target)'
      BY <3>1, <3>3, <3>4 DEF Whole
    <3>6. AllTraffic(script.target)'
      BY <3>1, <3>3, <3>4 DEF AllTraffic
    <3>7. link' = script.target
      BY <2>15 DEF SetLink
    <3> QED
      BY <3>3, <3>5, <3>6, <3>7 DEF Traffic, Preparing, Switched
  <2>16. CASE StopOld
    <3>1. script.phase = "stop" /\ faults' = faults /\ UNCHANGED <<link, proxy, weight>>
      BY <2>16 DEF StopOld
    <3>2. Traffic
      BY <3>1, <1>b
    <3>3. script'.phase = "finish" /\ script'.current = script.current /\ script'.target = script.target
      BY <2>16, <1>a, GotoMeans, PhaseNames DEF StopOld
    <3>4. proxy /\ Whole(script.target) /\ AllTraffic(script.target) /\ link = script.target
      BY <3>1, <3>2 DEF Traffic, Preparing, Switched
    <3>5. healthy'[script.target] = healthy[script.target]
          /\ (script.target \in knows[script.target] => script.target \in knows'[script.target])
      BY <2>16, <1>a, <1>c, <1>t DEF StopOld, Down
    <3>6. proxy' /\ Whole(script.target)'
      BY <3>1, <3>3, <3>4, <3>5 DEF Whole
    <3>7. AllTraffic(script.target)'
      BY <3>1, <3>3, <3>4 DEF AllTraffic
    <3> QED
      BY <3>1, <3>3, <3>4, <3>6, <3>7 DEF Traffic, Preparing, Switched
  <2>17. CASE Finish
    <3>1. script.phase = "finish" /\ faults' = faults /\ UNCHANGED <<link, healthy, knows, proxy, weight>>
      BY <2>17 DEF Finish, host
    <3>2. Traffic
      BY <3>1, <1>b
    <3>3. script'.phase = "idle"
      BY <2>17, IdleMeans DEF Finish
    <3>4. InCharge(link)
      BY <3>1, <3>2 DEF Traffic, Preparing, Switched, InCharge
    <3>5. InCharge(link)'
      BY <3>1, <3>4 DEF InCharge, Whole, AllTraffic
    <3> QED
      BY <3>3, <3>5 DEF Traffic, Preparing, Switched
  <2>18. CASE ClearCache
    <3>1. Reload /\ UNCHANGED <<link, healthy, proxy, weight, faults>>
      BY <2>18, FaultSeen DEF ClearCache
    <3>2. Traffic /\ script.target \in Running
      BY <2>18, <3>1, <1>b DEF RunsOK, ClearCache
    <3>3. script.target \in knows'[script.target] /\ \A c \in Colors : c # script.target => knows'[c] = knows[c]
      BY <3>1, <3>2, <1>a, <1>t DEF Reload
    <3>4. CASE script.phase = "clear"
      <4>1. script'.phase = "shift" /\ script'.count = 0 /\ script'.current = script.current /\ script'.target = script.target
        BY <2>18, <3>4, <1>a, GotoMeans, PhaseNames DEF ClearCache
      <4>2. link = script.current /\ (link # NoColor => InCharge(link)) /\ proxy /\ healthy[script.target]
        BY <3>2, <3>4 DEF Traffic, Preparing, Switched
      <4>3. ASSUME script.current # NoColor PROVE weight[script.target] = 0 /\ weight[Other(script.target)] = 100 /\ Whole(script.current)
        BY <4>2, <4>3, <1>a, TargetIsOther DEF InCharge, AllTraffic
      <4>4. Shifting(script.count)'
        BY <3>1, <4>1, <4>3 DEF Shifting, ShiftedTarget, ShiftedSource
      <4>5. Whole(script.target)'
        BY <3>1, <3>3, <4>1, <4>2 DEF Whole
      <4>6. script.current # NoColor => Whole(script.current)'
        BY <3>1, <3>3, <4>1, <4>3, <1>a, TargetIsOther, TwoColors DEF Whole
      <4> QED
        BY <3>1, <4>1, <4>2, <4>4, <4>5, <4>6 DEF Traffic, Preparing, Switched
    <3>5. CASE script.phase = "clear_again"
      <4>1. script'.phase = "unlink" /\ script'.current = script.current /\ script'.target = script.target
        BY <2>18, <3>5, <1>a, GotoMeans, PhaseNames DEF ClearCache
      <4>2. link = script.current /\ proxy /\ Whole(script.target) /\ AllTraffic(script.target)
        BY <3>2, <3>5 DEF Traffic, Preparing, Switched
      <4>3. Whole(script.target)' /\ AllTraffic(script.target)'
        BY <3>1, <3>3, <4>1, <4>2 DEF Whole, AllTraffic
      <4> QED
        BY <3>1, <4>1, <4>2, <4>3 DEF Traffic, Preparing, Switched
    <3> QED
      BY <2>18, <3>4, <3>5 DEF ClearCache
  <2> QED
    BY <1>2, <2>1, <2>2, <2>3, <2>4, <2>5, <2>6, <2>7, <2>8, <2>9, <2>10, <2>11, <2>12, <2>13, <2>14, <2>15, <2>16, <2>17, <2>18 DEF Deploy
<1>3. CASE Die
  <2>1. Fault(script.phase) /\ UNCHANGED <<link, healthy, knows, proxy, weight>>
    BY <1>3 DEF Die, host
  <2>2. Traffic /\ script.phase \notin Delicate
    BY <2>1, <1>b, FaultSeen
  <2>3. script.phase \in Preparing \cup {"stop", "finish"}
    BY <1>3, <2>2, <1>a, PhaseNames DEF Script, Delicate, Preparing, Die
  <2>4. script'.phase = "idle"
    BY <1>3, IdleMeans DEF Die
  <2>5. link # NoColor => InCharge(link)
    BY <2>2, <2>3 DEF Traffic, Preparing, Switched, InCharge
  <2>6. link # NoColor => InCharge(link)'
    BY <2>1, <2>5 DEF InCharge, Whole, AllTraffic
  <2> QED
    BY <2>1, <2>4, <2>6 DEF Traffic, Preparing, Switched
<1>4. CASE RenewCerts
  <2>1. Fault("reload")
    BY <1>4 DEF RenewCerts
  <2>2. ~Unharmed'
    BY <2>1, FaultSeen
  <2> QED
    BY <2>2
<1>5. CASE CleanUp
  <2>1. UNCHANGED <<link, healthy, knows, proxy, weight, script, faults>>
    BY <1>5 DEF CleanUp
  <2>2. Traffic
    BY <2>1, <1>b
  <2>3. (InCharge(link)' <=> InCharge(link)) /\ (AllTraffic(script.target)' <=> AllTraffic(script.target))
    BY <2>1 DEF InCharge, Whole, AllTraffic
  <2>4. Shifting(script.count)' <=> Shifting(script.count)
    BY <2>1 DEF Shifting
  <2>5. (proxy' <=> proxy) /\ (healthy'[script'.target] <=> healthy[script.target])
        /\ (Whole(script.target)' <=> Whole(script.target)) /\ (Whole(script.current)' <=> Whole(script.current))
    BY <2>1 DEF Whole
  <2>6. script' = script /\ link' = link
    BY <2>1
  <2> QED
    BY <2>2, <2>3, <2>4, <2>5, <2>6 DEF Traffic
<1> QED
  BY <1>1, <1>2, <1>3, <1>4, <1>5 DEF Next

-----------------------------------------------------------------------------
(* CommitOK                                                                *)

\* The commit moves from the sources to the images to the containers, and
\* neither the clean-up nor the end of the old environment interferes.
LEMMA CommitStep ==
  ASSUME TypeOK, ScriptOK, CommitOK, Next
  PROVE  CommitOK'
<1>a. /\ script \in Script /\ ScriptOK /\ script.target \in Colors
      /\ src \in [Colors -> 0..MaxDeploys] /\ image \in [Colors -> [Services -> 0..MaxDeploys]]
      /\ run \in [Colors -> [Services -> 0..MaxDeploys]]
  BY ScriptTyped DEF TypeOK, Script
<1>c. script.current # NoColor => script.target # script.current
  BY <1>a, TargetIsOther, TwoColors
<1>1. ASSUME NEW apps \in SUBSET Services, Start(apps) PROVE CommitOK'
  <2>1. script'.phase = "infra"
    BY <1>1 DEF Start
  <2> QED
    BY <2>1 DEF CommitOK
<1>2. ASSUME Deploy PROVE CommitOK'
  <2>1. CASE EnsureProxy
    <3>1. script'.phase = "copy"
      BY <2>1, <1>a, GotoMeans, PhaseNames, IdleMeans DEF EnsureProxy
    <3> QED
      BY <3>1 DEF CommitOK
  <2>2. CASE CopySources
    <3>1. script.phase = "copy" /\ UNCHANGED <<version>>
      BY <2>2 DEF CopySources
    <3>2. script'.phase = "base" /\ script'.target = script.target /\ script'.apps = script.apps
      BY <2>2, <1>a, GotoMeans, PhaseNames DEF CopySources
    <3>3. src'[script.target] = version
      BY <2>2, <1>a DEF CopySources
    <3> QED
      BY <3>1, <3>2, <3>3 DEF CommitOK
  <2>3. CASE BuildBase
    <3>1. script.phase = "base" /\ UNCHANGED <<version, src>>
      BY <2>3 DEF BuildBase
    <3>2. script'.phase = "build" /\ script'.target = script.target /\ script'.apps = script.apps
      BY <2>3, <1>a, GotoMeans, PhaseNames DEF BuildBase
    <3> QED
      BY <3>1, <3>2 DEF CommitOK
  <2>4. CASE Build
    <3>1. script.phase = "build" /\ UNCHANGED <<version, src>>
      BY <2>4 DEF Build
    <3>2. script'.phase = "up" /\ script'.target = script.target /\ script'.apps = script.apps
      BY <2>4, <1>a, GotoMeans, PhaseNames DEF Build
    <3>3. src[script.target] = version
      BY <3>1 DEF CommitOK
    <3>4. ASSUME script.apps = {}, NEW s \in Services PROVE image'[script.target][s] = version
      BY <2>4, <3>3, <3>4, <1>a DEF Build
    <3> QED
      BY <3>1, <3>2, <3>3, <3>4 DEF CommitOK
  <2>5. CASE Up
    <3>1. script.phase = "up" /\ UNCHANGED <<version, src>>
      BY <2>5 DEF Up
    <3>2. script'.phase = "health" /\ script'.target = script.target /\ script'.apps = script.apps
      BY <2>5, <1>a, GotoMeans, PhaseNames DEF Up
    <3>3. src[script.target] = version
      BY <3>1 DEF CommitOK
    <3>4. ASSUME script.apps = {}, NEW s \in Services PROVE image'[script.target][s] = version
      BY <2>5, <3>1, <3>3, <3>4, <1>a DEF Up, Missing, CommitOK
    <3>5. run'[script.target] = image'[script.target]
      BY <2>5, <1>a DEF Up
    <3> QED
      BY <3>1, <3>2, <3>3, <3>4, <3>5 DEF CommitOK
  <2>6. CASE BuildFails
    <3>1. script'.phase = "idle"
      BY <2>6, <1>a, GotoMeans, PhaseNames, IdleMeans DEF BuildFails
    <3> QED
      BY <3>1 DEF CommitOK
  <2>7. CASE NotHealthyYet
    <3>1. script.phase = "health" /\ UNCHANGED <<run, version>>
      BY <2>7 DEF NotHealthyYet, host
    <3>2. script'.phase = "health" /\ script'.target = script.target /\ script'.apps = script.apps
      BY <2>7, <1>a, <3>1, CountingMeans DEF NotHealthyYet
    <3> QED
      BY <3>1, <3>2 DEF CommitOK
  <2>8. CASE AllHealthy
    <3>1. script.phase = "health" /\ UNCHANGED <<version, run>>
      BY <2>8 DEF AllHealthy
    <3>2. script'.phase = "final" /\ script'.target = script.target /\ script'.apps = script.apps
      BY <2>8, <1>a, GotoMeans, PhaseNames DEF AllHealthy
    <3> QED
      BY <3>1, <3>2 DEF CommitOK
  <2>9. CASE RollBack
    <3>1. script'.phase = "idle"
      BY <2>9, <1>a, GotoMeans, PhaseNames, IdleMeans DEF RollBack
    <3> QED
      BY <3>1 DEF CommitOK
  <2>10. CASE FinalCheckPasses
    <3>1. script.phase = "final" /\ UNCHANGED <<version, run>>
      BY <2>10 DEF FinalCheckPasses, host
    <3>2. script'.phase = "clear" /\ script'.target = script.target /\ script'.apps = script.apps
      BY <2>10, <1>a, GotoMeans, PhaseNames DEF FinalCheckPasses
    <3> QED
      BY <3>1, <3>2 DEF CommitOK
  <2>11. CASE SetWeight
    <3>1. script.phase = "shift" /\ UNCHANGED <<run, version>> /\ NextCommand
      BY <2>11 DEF SetWeight, host
    <3>2. script'.phase \in {"shift", "clear_again"} /\ script'.target = script.target /\ script'.apps = script.apps
      BY <3>1, <1>a, GotoMeans, CountingMeans, PhaseNames DEF NextCommand
    <3> QED
      BY <3>1, <3>2 DEF CommitOK
  <2>12. CASE WeightIgnored
    <3>1. script.phase = "shift" /\ UNCHANGED <<run, version>> /\ NextCommand
      BY <2>12 DEF WeightIgnored, host
    <3>2. script'.phase \in {"shift", "clear_again"} /\ script'.target = script.target /\ script'.apps = script.apps
      BY <3>1, <1>a, GotoMeans, CountingMeans, PhaseNames DEF NextCommand
    <3> QED
      BY <3>1, <3>2 DEF CommitOK
  <2>13. CASE ShiftFails
    <3>1. script.phase = "shift" /\ UNCHANGED <<version, run>>
      BY <2>13 DEF ShiftFails, host
    <3>2. script'.phase = "clear_again" /\ script'.target = script.target /\ script'.apps = script.apps
      BY <2>13, <1>a, GotoMeans, PhaseNames DEF ShiftFails
    <3> QED
      BY <3>1, <3>2 DEF CommitOK
  <2>14. CASE RemoveLink
    <3>1. script.phase = "unlink" /\ UNCHANGED <<version, run>>
      BY <2>14 DEF RemoveLink
    <3>2. script'.phase = "link" /\ script'.target = script.target /\ script'.apps = script.apps
      BY <2>14, <1>a, GotoMeans, PhaseNames DEF RemoveLink
    <3> QED
      BY <3>1, <3>2 DEF CommitOK
  <2>15. CASE SetLink
    <3>1. script'.phase = "stop"
      BY <2>15, <1>a, GotoMeans, PhaseNames, IdleMeans DEF SetLink
    <3> QED
      BY <3>1 DEF CommitOK
  <2>16. CASE StopOld
    <3>1. script'.phase = "finish"
      BY <2>16, <1>a, GotoMeans, PhaseNames, IdleMeans DEF StopOld
    <3> QED
      BY <3>1 DEF CommitOK
  <2>17. CASE Finish
    <3>1. script'.phase = "idle"
      BY <2>17, <1>a, GotoMeans, PhaseNames, IdleMeans DEF Finish
    <3> QED
      BY <3>1 DEF CommitOK
  <2>18. CASE ClearCache
    <3>1. script.phase \in {"clear", "clear_again"} /\ UNCHANGED <<version, run>>
      BY <2>18 DEF ClearCache
    <3>2. script'.phase \in {"shift", "unlink"} /\ script'.target = script.target /\ script'.apps = script.apps
      BY <2>18, <1>a, GotoMeans, PhaseNames DEF ClearCache
    <3> QED
      BY <3>1, <3>2 DEF CommitOK
  <2> QED
    BY <1>2, <2>1, <2>2, <2>3, <2>4, <2>5, <2>6, <2>7, <2>8, <2>9, <2>10, <2>11, <2>12, <2>13, <2>14, <2>15, <2>16, <2>17, <2>18 DEF Deploy
<1>3. CASE Die
  <2>1. script'.phase = "idle"
    BY <1>3, <1>a, GotoMeans, PhaseNames, IdleMeans DEF Die
  <2> QED
    BY <2>1 DEF CommitOK
<1>4. CASE RenewCerts
  BY <1>4 DEF RenewCerts, CommitOK
<1>5. CASE CleanUp
  <2>1. UNCHANGED <<src, run, version, script>>
    BY <1>5 DEF CleanUp
  <2>2. ASSUME NEW s \in Services, image[script.target][s] \in {0, version} PROVE image'[script.target][s] \in {0, version}
    BY <1>5, <1>a, <2>2 DEF CleanUp
  <2> QED
    BY <2>1, <2>2 DEF CommitOK
<1> QED
  BY <1>1, <1>2, <1>3, <1>4, <1>5 DEF Next

-----------------------------------------------------------------------------
(* RunsOK                                                                  *)

\* Between `up` and the end of the shift nobody stops the new environment.
LEMMA RunsStep ==
  ASSUME TypeOK, ScriptOK, CommitOK, RunsOK, Next
  PROVE  RunsOK'
<1>a. script \in Script /\ script.target \in Colors /\ version \in Nat
  BY ScriptTyped, BlueGreenAssumption DEF TypeOK, Script
<1> DEFINE Live == {"health", "final", "clear", "shift", "clear_again"}
<1>1. ASSUME NEW apps \in SUBSET Services, Start(apps) PROVE RunsOK'
  BY <1>1, <1>a DEF Start, RunsOK
<1>2. ASSUME Deploy PROVE RunsOK'
  <2>1. version' = version /\ version > 0
    <3>1. script.phase # "idle" /\ version' = version
      BY <1>2 DEF Deploy, EnsureProxy, CopySources, BuildBase, Build, Up, BuildFails, NotHealthyYet, AllHealthy, RollBack,
                  FinalCheckPasses, ClearCache, SetWeight, WeightIgnored, ShiftFails, RemoveLink, SetLink, StopOld, Finish, host
    <3> QED
      BY <3>1 DEF RunsOK
  <2>2. CASE EnsureProxy \/ CopySources \/ BuildBase \/ Build \/ RemoveLink \/ SetLink \/ StopOld
    <3>1. \E p \in Phases \ (Live \cup {"idle"}) : Goto(p)
      BY <2>2, PhaseNames DEF EnsureProxy, CopySources, BuildBase, Build, RemoveLink, SetLink, StopOld
    <3>2. script'.phase \notin Live
      BY <1>a, <3>1, GotoMeans
    <3> QED
      BY <2>1, <3>2 DEF RunsOK
  <2>3. CASE Up
    <3>1. script.phase = "up" /\ src[script.target] = version
      BY <2>3 DEF Up, CommitOK
    <3>2. script'.target = script.target
      BY <2>3, <1>a, GotoMeans, PhaseNames DEF Up
    <3>3. PICK s \in Services : TRUE
      BY BlueGreenAssumption
    <3>4. image' = [image EXCEPT ![script.target] =
                      [x \in Services |-> IF x \in Missing(script.target) THEN src[script.target] ELSE @[x]]]
          /\ run' = [run EXCEPT ![script.target] = image'[script.target]]
      BY <2>3 DEF Up
    <3>5. image'[script.target][s] # 0
      BY <2>1, <3>1, <3>3, <3>4, <1>a DEF TypeOK, Missing
    <3>6. run'[script.target] = image'[script.target]
      BY <3>4, <1>a DEF TypeOK
    <3>7. run'[script.target] # NoContainers
      BY <3>3, <3>5, <3>6 DEF NoContainers
    <3> QED
      BY <2>1, <3>2, <3>7, <1>a DEF RunsOK, Running
  <2>4. CASE BuildFails \/ RollBack \/ Finish
    BY <2>1, <2>4, IdleMeans DEF BuildFails, RollBack, Finish, RunsOK
  <2>5. CASE NotHealthyYet \/ AllHealthy \/ FinalCheckPasses \/ ClearCache \/ SetWeight \/ WeightIgnored \/ ShiftFails
    <3>1. script.phase \in Live /\ run' = run
      BY <2>5 DEF NotHealthyYet, AllHealthy, FinalCheckPasses, ClearCache, SetWeight, WeightIgnored, ShiftFails, host
    <3>2. script' = [script EXCEPT !.count = @ + 1] \/ \E p \in Phases : Goto(p)
      BY <2>5, PhaseNames DEF NotHealthyYet, AllHealthy, FinalCheckPasses, ClearCache, SetWeight, WeightIgnored, ShiftFails, NextCommand
    <3>3. script'.target = script.target
      BY <3>2, <1>a, GotoMeans, CountingMeans
    <3>4. script.target \in Running
      BY <3>1 DEF RunsOK
    <3> QED
      BY <2>1, <3>1, <3>3, <3>4 DEF RunsOK, Running
  <2> QED
    BY <1>2, <2>2, <2>3, <2>4, <2>5 DEF Deploy
<1>3. CASE Die
  BY <1>3, IdleMeans DEF Die, RunsOK
<1>4. CASE RenewCerts
  BY <1>4 DEF RenewCerts, RunsOK, Running
<1>5. CASE CleanUp
  BY <1>5 DEF CleanUp, RunsOK, Running
<1> QED
  BY <1>1, <1>2, <1>3, <1>4, <1>5 DEF Next

-----------------------------------------------------------------------------
(* The theorems                                                            *)

\* In the beginning there is no environment and no deployment.
LEMMA InitIInv == Init => IInv
<1> SUFFICES ASSUME Init PROVE IInv
  OBVIOUS
<1>1. script = Idle /\ script.phase = "idle" /\ script.current = NoColor /\ script.target = "blue" /\ link = NoColor
  BY DEF Init, Idle
<1>2. script \in Script
  BY <1>1, ScriptValues
<1>3. HostTyped
  <2>1. 0 \in 0..MaxDeploys
    BY BlueGreenAssumption
  <2>2. NoContainers \in [Services -> 0..MaxDeploys]
    BY <2>1 DEF NoContainers
  <2>3. src \in [Colors -> 0..MaxDeploys] /\ version \in 0..MaxDeploys
    BY <2>1 DEF Init
  <2>4. image \in [Colors -> [Services -> 0..MaxDeploys]] /\ run \in [Colors -> [Services -> 0..MaxDeploys]]
    BY <2>2 DEF Init
  <2>5. weight \in [Colors -> 0..100]
    <3>1. \A c \in Colors : (IF c = "blue" THEN 100 ELSE 0) \in 0..100
      OBVIOUS
    <3> QED
      BY <3>1 DEF Init, ConfigWeight
  <2>6. healthy \in [Colors -> BOOLEAN] /\ knows \in [Colors -> SUBSET Colors] /\ base \in BOOLEAN /\ proxy \in BOOLEAN
    BY DEF Init
  <2>7. link \in Colors \cup {NoColor} /\ faults \subseteq Phases \cup {"command", "reload", "nginx"}
    BY DEF Init
  <2> QED
    BY <2>3, <2>4, <2>5, <2>6, <2>7 DEF HostTyped
<1>4. TypeOK
  BY <1>2, <1>3 DEF TypeOK, HostTyped, Script
<1>5. ScriptOK
  BY <1>1 DEF ScriptOK, NoColor
<1>6. TrafficOK
  BY <1>1 DEF TrafficOK, Preparing, Switched
<1>7. CommitOK
  BY <1>1 DEF CommitOK
<1>8. RunsOK
  BY <1>1 DEF RunsOK
<1> QED
  BY <1>4, <1>5, <1>6, <1>7, <1>8 DEF IInv

\* The invariant is kept by every step and by stuttering.
LEMMA NextIInv == IInv /\ [Next]_vars => IInv'
<1> SUFFICES ASSUME IInv, [Next]_vars PROVE IInv'
  OBVIOUS
<1>1. CASE Next
  <2>1. TypeOK'
    BY <1>1, TypeStep DEF IInv
  <2>2. ScriptOK'
    BY <1>1, ScriptStep DEF IInv
  <2>3. TrafficOK'
    BY <1>1, TrafficStep DEF IInv
  <2>4. CommitOK'
    BY <1>1, CommitStep DEF IInv
  <2>5. RunsOK'
    BY <1>1, RunsStep DEF IInv
  <2> QED
    BY <2>1, <2>2, <2>3, <2>4, <2>5 DEF IInv
<1>2. CASE UNCHANGED vars
  <2>1. UNCHANGED <<link, src, image, run, healthy, knows, base, proxy, weight, version, script, faults>>
    BY <1>2 DEF vars
  <2>2. TypeOK' /\ ScriptOK' /\ CommitOK' /\ RunsOK'
    BY <2>1 DEF IInv, TypeOK, ScriptOK, CommitOK, RunsOK, Running
  <2>3. TrafficOK'
    <3>1. Unharmed' => Unharmed
      BY <2>1 DEF Unharmed
    <3>2. /\ InCharge(link)' <=> InCharge(link)
          /\ AllTraffic(script.target)' <=> AllTraffic(script.target)
      BY <2>1 DEF InCharge, Whole, AllTraffic
    <3>3. Shifting(script.count)' <=> Shifting(script.count)
      BY <2>1 DEF Shifting
    <3>4. /\ proxy' <=> proxy
          /\ healthy'[script'.target] <=> healthy[script.target]
          /\ Whole(script.target)' <=> Whole(script.target)
          /\ Whole(script.current)' <=> Whole(script.current)
      BY <2>1 DEF Whole
    <3> QED
      BY <2>1, <3>1, <3>2, <3>3, <3>4 DEF IInv, TrafficOK
  <2> QED
    BY <2>2, <2>3 DEF IInv
<1> QED
  BY <1>1, <1>2

\* The inductive invariant holds in every reachable state.
THEOREM Invariance == Spec => []IInv
BY InitIInv, NextIInv, PTL DEF Spec

\* Every variable keeps its type, for any instance.
THEOREM TypeCorrect == Spec => []TypeOK
<1>1. IInv => TypeOK
  BY DEF IInv
<1> QED
  BY <1>1, Invariance, PTL

\* Between shifts the symlink names the environment HAProxy gives all traffic,
\* so that the script that trusts it destroys the idle one.
THEOREM LinkIsRight == Spec => []LinkFollowsTraffic
<1>1. IInv => LinkFollowsTraffic
  <2> SUFFICES ASSUME IInv, Unharmed, link # NoColor, script.phase \notin Delicate
               PROVE  weight[link] = 100 /\ weight[Other(link)] = 0 /\ healthy[link]
    BY DEF LinkFollowsTraffic
  <2>1. Traffic
    BY TrafficIs DEF IInv
  <2>2. script.phase \in Preparing \cup {"idle", "stop", "finish"}
    BY ScriptTyped, PhaseNames DEF IInv, Script, Delicate, Preparing
  <2>3. CASE script.phase \in Preparing \cup {"idle"}
    BY <2>1, <2>3 DEF Traffic, InCharge, Whole, AllTraffic
  <2>4. CASE script.phase \in {"stop", "finish"}
    BY <2>1, <2>4 DEF Traffic, Switched, Whole, AllTraffic
  <2> QED
    BY <2>2, <2>3, <2>4
<1> QED
  BY <1>1, Invariance, PTL

\* An environment with traffic whose nginx has a healthy server-nest beside it.
Open(c) == weight[c] > 0 /\ Whole(c)

\* Where the way leads through, at each point of the script.
LEMMA OpenThroughout ==
  ASSUME IInv, Unharmed, InService
  PROVE  proxy /\ \E c \in Colors : Open(c)
<1>1. Traffic
  BY TrafficIs DEF IInv
<1>2. script \in Script /\ ScriptOK /\ link \in Colors \cup {NoColor} /\ script.target \in Colors
  BY ScriptTyped DEF IInv, TypeOK, Script
<1>3. CASE script.phase \in Preparing \cup {"idle"}
  <2>1. link # NoColor
    BY <1>1, <1>2, <1>3 DEF Traffic, Preparing, InService, ScriptOK
  <2>2. InCharge(link) /\ link \in Colors
    BY <1>1, <1>2, <1>3, <2>1 DEF Traffic
  <2> QED
    BY <2>2 DEF InCharge, AllTraffic, Open
<1>4. CASE script.phase = "shift"
  <2> DEFINE n == script.count
  <2>1. script.current # NoColor /\ proxy /\ Whole(script.target) /\ Whole(script.current) /\ Shifting(n)
    BY <1>1, <1>4 DEF Traffic, Switched, InService
  <2>2. script.current \in Colors /\ script.current = Other(script.target)
    BY <1>2, <2>1, TargetIsOther
  <2>3. n \in 0..9
    BY <1>2, <1>4 DEF Script, ScriptOK, Commands
  <2>4. weight[script.target] = ShiftedTarget(n) /\ weight[script.current] = ShiftedSource(n)
    BY <2>1, <2>2 DEF Shifting
  <2> HIDE DEF n
  <2>5. ShiftedTarget(n) > 0 \/ ShiftedSource(n) > 0
    <3>1. n \in {0, 1, 2, 3} \/ n \in {4, 5, 6, 7, 8, 9}
      BY <2>3
    <3>2. CASE n \in {0, 1, 2, 3}
      BY <3>2 DEF ShiftedSource
    <3>3. CASE n \in {4, 5, 6, 7, 8, 9}
      BY <3>3 DEF ShiftedTarget
    <3> QED
      BY <3>1, <3>2, <3>3
  <2> QED
    BY <1>2, <2>1, <2>2, <2>4, <2>5 DEF Open
<1>5. CASE script.phase \in Switched
  <2>1. proxy /\ Whole(script.target) /\ AllTraffic(script.target)
    BY <1>1, <1>5 DEF Traffic
  <2> QED
    BY <1>2, <2>1 DEF AllTraffic, Open
<1> QED
  BY <1>2, <1>3, <1>4, <1>5, PhaseNames DEF Script, Preparing, Switched

\* From the first deployment on there is always a way from HAProxy through a
\* healthy nginx to a healthy server-nest, whatever fails or dies outside the
\* shift; it stays within one environment.
THEOREM WayThrough == Spec => []AWayThrough
<1>1. IInv => AWayThrough
  BY OpenThroughout DEF AWayThrough, Open, Whole
<1> QED
  BY <1>1, Invariance, PTL

\* The environment that an action would take containers from has no traffic.
LEMMA IdleOnly ==
  ASSUME IInv, Unharmed, InService
  PROVE  /\ script.phase \in {"up", "health", "final"} => weight[script.target] = 0
         /\ script.phase = "stop" /\ script.current # NoColor => weight[script.current] = 0
<1>1. Traffic
  BY TrafficIs DEF IInv
<1>2. script \in Script /\ ScriptOK /\ link \in Colors \cup {NoColor} /\ script.target \in Colors
  BY ScriptTyped DEF IInv, TypeOK, Script
<1>3. ASSUME script.phase \in {"up", "health", "final"} PROVE weight[script.target] = 0
  <2>1. link = script.current /\ link # NoColor
    BY <1>1, <1>3 DEF Traffic, Preparing, InService
  <2>2. AllTraffic(link)
    BY <1>1, <1>3, <2>1 DEF Traffic, Preparing, InCharge
  <2> QED
    BY <1>2, <2>1, <2>2, TargetIsOther DEF AllTraffic
<1>4. ASSUME script.phase = "stop", script.current # NoColor PROVE weight[script.current] = 0
  <2>1. AllTraffic(script.target)
    BY <1>1, <1>4 DEF Traffic, Switched
  <2> QED
    BY <1>2, <1>4, <2>1, TargetIsOther DEF AllTraffic
<1> QED
  BY <1>3, <1>4

\* What a step takes from an environment that HAProxy sends users to: nothing.
Kept == \A c \in Colors : healthy[c] /\ weight[c] > 0 => run'[c] = run[c] /\ healthy'[c]

LEMMA Untouched ==
  ASSUME UNCHANGED <<run, healthy>>
  PROVE  Kept
BY DEF Kept

\* Only containers of the environment without traffic are stopped or replaced.
LEMMA StepKeeps ==
  ASSUME IInv, Unharmed, InService, Next
  PROVE  Kept
<1>a. /\ script.target \in Colors /\ run \in [Colors -> [Services -> 0..MaxDeploys]]
      /\ healthy \in [Colors -> BOOLEAN]
  BY ScriptTyped DEF IInv, TypeOK, Script
<1>1. ASSUME NEW apps \in SUBSET Services, Start(apps) PROVE Kept
  BY <1>1, Untouched DEF Start, host
<1>2. ASSUME Deploy PROVE Kept
  <2>1. CASE EnsureProxy
    BY <2>1, Untouched DEF EnsureProxy, host
  <2>2. CASE CopySources
    BY <2>2, Untouched DEF CopySources, host
  <2>3. CASE BuildBase
    BY <2>3, Untouched DEF BuildBase, host
  <2>4. CASE Build
    BY <2>4, Untouched DEF Build, host
  <2>5. CASE Up
    <3>1. weight[script.target] = 0
      BY <2>5, IdleOnly DEF Up
    <3>2. \A c \in Colors : c # script.target => run'[c] = run[c] /\ healthy'[c] = healthy[c]
      BY <2>5, <1>a DEF Up
    <3> QED
      BY <3>1, <3>2 DEF Kept
  <2>6. CASE BuildFails
    BY <2>6, Untouched DEF BuildFails, host
  <2>7. CASE NotHealthyYet
    BY <2>7, Untouched DEF NotHealthyYet, host
  <2>8. CASE AllHealthy
    <3>1. run' = run /\ \A c \in Colors : healthy[c] => healthy'[c]
      BY <2>8, <1>a DEF AllHealthy
    <3> QED
      BY <3>1 DEF Kept
  <2>9. CASE RollBack
    <3>1. weight[script.target] = 0
      BY <2>9, IdleOnly DEF RollBack
    <3>2. \A c \in Colors : c # script.target => run'[c] = run[c] /\ healthy'[c] = healthy[c]
      BY <2>9, <1>a DEF RollBack, Down
    <3> QED
      BY <3>1, <3>2 DEF Kept
  <2>10. CASE FinalCheckPasses
    BY <2>10, Untouched DEF FinalCheckPasses, host
  <2>11. CASE SetWeight
    BY <2>11, Untouched DEF SetWeight, host
  <2>12. CASE WeightIgnored
    BY <2>12, Untouched DEF WeightIgnored, host
  <2>13. CASE ShiftFails
    BY <2>13, Untouched DEF ShiftFails, host
  <2>14. CASE RemoveLink
    BY <2>14, Untouched DEF RemoveLink, host
  <2>15. CASE SetLink
    BY <2>15, Untouched DEF SetLink, host
  <2>16. CASE StopOld
    <3>1. CASE UNCHANGED <<run, healthy>>
          BY <3>1, Untouched
    <3>2. ASSUME script.current # NoColor, Down(script.current) PROVE Kept
          <4>1. weight[script.current] = 0
          BY <2>16, <3>2, IdleOnly DEF StopOld
        <4>2. \A c \in Colors : c # script.current => run'[c] = run[c] /\ healthy'[c] = healthy[c]
          BY <3>2, <1>a DEF Down
        <4> QED
          BY <4>1, <4>2 DEF Kept
    <3> QED
          BY <2>16, <3>1, <3>2 DEF StopOld
  <2>17. CASE Finish
    BY <2>17, Untouched DEF Finish, host
  <2>18. CASE ClearCache
    BY <2>18, Untouched DEF ClearCache
  <2> QED
    BY <1>2, <2>1, <2>2, <2>3, <2>4, <2>5, <2>6, <2>7, <2>8, <2>9, <2>10, <2>11, <2>12, <2>13, <2>14, <2>15, <2>16, <2>17, <2>18 DEF Deploy
<1>3. CASE Die
  BY <1>3, Untouched DEF Die, host
<1>4. CASE RenewCerts
  BY <1>4, Untouched DEF RenewCerts, host
<1>5. CASE CleanUp
  BY <1>5, Untouched DEF CleanUp, host
<1> QED
  BY <1>1, <1>2, <1>3, <1>4, <1>5 DEF Next

\* No step stops or recreates a container of an environment that HAProxy
\* sends users to.
THEOREM PagesNeverCut == Spec => PagesAreNeverCut
<1>1. ASSUME IInv, [Next]_vars
      PROVE  [\A c \in Colors : Unharmed /\ InService /\ healthy[c] /\ weight[c] > 0 => run'[c] = run[c] /\ healthy'[c]]_vars
  <2> SUFFICES ASSUME Next, Unharmed, InService PROVE Kept
    BY <1>1 DEF Kept
  <2> QED
    BY <1>1, StepKeeps
<1> QED
  BY <1>1, Invariance, PTL DEF Spec, PagesAreNeverCut

\* Only SetLink and a stop of the old environment know a symlink, and a
\* deployment of everything links containers that all run its commit.
LEMMA LinksTheCommit ==
  ASSUME IInv, Next, script.phase = "link", link' = script.target, script.apps = {}
  PROVE  \A s \in Services : run[link'][s] = version
BY DEF IInv, CommitOK

\* An environment goes into service with every service at the commit
\* deployed, whatever images earlier deployments and the clean-up left.
THEOREM CommitDeployed == Spec => DeploysTheCommit
<1>1. ASSUME IInv, [Next]_vars
      PROVE  [script.phase = "link" /\ link' = script.target /\ script.apps = {}
               => \A s \in Services : run[link'][s] = version]_vars
  BY <1>1, LinksTheCommit
<1> QED
  BY <1>1, Invariance, PTL DEF Spec, DeploysTheCommit

-----------------------------------------------------------------------------
(* Why the script ends.                                                    *)

\* The phases that may follow a phase before the script is over.
Later(p) ==
  CASE p = "infra"       -> Phases \ {"idle", "infra"}
    [] p = "copy"        -> Phases \ {"idle", "infra", "copy"}
    [] p = "base"        -> {"build", "up", "health", "final", "clear", "shift"} \cup Switched
    [] p = "build"       -> {"up", "health", "final", "clear", "shift"} \cup Switched
    [] p = "up"          -> {"health", "final", "clear", "shift"} \cup Switched
    [] p = "health"      -> {"final", "clear", "shift"} \cup Switched
    [] p = "final"       -> {"clear", "shift"} \cup Switched
    [] p = "clear"       -> {"shift"} \cup Switched
    [] p = "shift"       -> Switched
    [] p = "clear_again" -> Switched \ {"clear_again"}
    [] p = "unlink"      -> {"link", "stop", "finish"}
    [] p = "link"        -> {"stop", "finish"}
    [] p = "stop"        -> {"finish"}
    [] OTHER             -> {}

\* The most often that the loop of a phase goes round.
Rest(p) == IF p = "health" THEN Rounds ELSE IF p = "shift" THEN Commands - 1 ELSE 0

\* A step of a deployment ends it, goes to a later phase, or counts within a
\* loop up to its bound; it works on the same environments and apps all
\* along.  So no deployment takes more steps than phases and rounds of its
\* two loops allow, whatever fails and whatever happens beside it.
ScriptAdvances ==
  [][script.phase # "idle" /\ script' # script =>
       \/ script' = Idle
       \/ /\ \/ script'.phase \in Later(script.phase)
             \/ script'.phase = script.phase /\ script'.count = script.count + 1
                /\ script'.count <= Rest(script.phase)
          /\ script'.current = script.current /\ script'.target = script.target
          /\ script'.apps = script.apps]_vars

Advance ==
  \/ script' = Idle
  \/ /\ \/ script'.phase \in Later(script.phase)
        \/ script'.phase = script.phase /\ script'.count = script.count + 1
           /\ script'.count <= Rest(script.phase)
     /\ script'.current = script.current /\ script'.target = script.target
     /\ script'.apps = script.apps

\* Goto to a later phase advances.
LEMMA GotoAdvances ==
  ASSUME script \in Script, NEW p \in Later(script.phase), Goto(p)
  PROVE  Advance
BY DEF Script, Goto, Advance

\* So does another round of a loop.
LEMMA RoundAdvances ==
  ASSUME script \in Script, script' = [script EXCEPT !.count = @ + 1],
         script.count + 1 <= Rest(script.phase)
  PROVE  Advance
BY DEF Script, Advance

LEMMA StepAdvances ==
  ASSUME IInv, [Next]_vars, script.phase # "idle", script' # script
  PROVE  Advance
<1>0. script \in Script /\ (script.phase = "shift" => script.count < Commands) /\ Rounds \in Nat
      /\ Commands = 10 /\ script.count \in Nat
  BY BlueGreenAssumption DEF IInv, TypeOK, ScriptOK, Script, Commands
<1> USE DEF Later, Phases, Switched
<1>1. CASE Deploy
  <2>1. CASE EnsureProxy \/ CopySources \/ BuildBase \/ Build \/ Up
    <3>1. \E p \in Later(script.phase) : Goto(p)
      BY <2>1 DEF EnsureProxy, CopySources, BuildBase, Build, Up
    <3> QED
      BY <1>0, <3>1, GotoAdvances
  <2>2. CASE BuildFails \/ RollBack \/ Finish
    BY <2>2 DEF BuildFails, RollBack, Finish, Advance
  <2>3. CASE NotHealthyYet
    <3>1. script' = [script EXCEPT !.count = @ + 1] /\ script.count + 1 <= Rest(script.phase)
      BY <1>0, <2>3 DEF NotHealthyYet, Rest
    <3> QED
      BY <1>0, <3>1, RoundAdvances
  <2>4. CASE AllHealthy \/ FinalCheckPasses \/ ClearCache \/ ShiftFails \/ RemoveLink \/ SetLink \/ StopOld
    <3>1. \E p \in Later(script.phase) : Goto(p)
      BY <2>4 DEF AllHealthy, FinalCheckPasses, ClearCache, ShiftFails, RemoveLink, SetLink, StopOld
    <3> QED
      BY <1>0, <3>1, GotoAdvances
  <2>5. CASE SetWeight \/ WeightIgnored
    <3>1. script.phase = "shift" /\ NextCommand
      BY <2>5 DEF SetWeight, WeightIgnored
    <3>2. CASE script.count + 1 = Commands
      BY <1>0, <3>1, <3>2, GotoAdvances DEF NextCommand
    <3>3. CASE script.count + 1 # Commands
      <4>1. script.count + 1 <= Rest(script.phase)
        BY <1>0, <3>1, <3>3 DEF Rest
      <4> QED
        BY <1>0, <3>1, <3>3, <4>1, RoundAdvances DEF NextCommand
    <3> QED
      BY <3>2, <3>3
  <2> QED
    BY <1>1, <2>1, <2>2, <2>3, <2>4, <2>5 DEF Deploy
<1>2. CASE Die
  BY <1>2 DEF Die, Advance
<1>3. ~(\E apps \in SUBSET Services : Start(apps))
  BY DEF Start
<1>4. ~(RenewCerts \/ CleanUp \/ UNCHANGED vars)
  BY DEF RenewCerts, CleanUp, vars
<1> QED
  BY <1>1, <1>2, <1>3, <1>4 DEF Next

\* The half of DeployEnds that needs no fairness: a deployment only moves
\* forward, for any number of services and of health polls.
THEOREM ScriptsAdvance == Spec => ScriptAdvances
<1> DEFINE Ahead == script.phase # "idle" /\ script' # script => Advance
<1>1. IInv /\ [Next]_vars => [Ahead]_vars
  BY StepAdvances
<1>2. ScriptAdvances <=> [][Ahead]_vars
  BY DEF ScriptAdvances, Advance
<1> QED
  BY Invariance, <1>1, <1>2, PTL DEF Spec
=============================================================================
