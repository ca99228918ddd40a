------------------------------ MODULE BlueGreen ------------------------------
(***************************************************************************)
(* Deployment on the production host: .github/scripts/blue-green-deploy.sh *)
(* with the scripts it calls, the renewal of certificates and the clean-up *)
(* of Docker that run beside it. Two environments, blue and green, hold    *)
(* one container per service; HAProxy divides the traffic between their    *)
(* nginxes by weights, and the symlink `current` names the environment in  *)
(* use.                                                                    *)
(*                                                                         *)
(* The environments are not isolated: both are on demo-t3-network, where   *)
(* every container goes by the name of its service. nginx looks the name   *)
(* server-nest up when it starts or is reloaded and then divides its API   *)
(* calls among all the containers it found, of either colour (`knows`).    *)
(*                                                                         *)
(* A command of the script that changes the host is one action. The script *)
(* runs under `set -e` in an SSH session: it may end between any two       *)
(* commands, because one failed or because the session broke (Die).        *)
(***************************************************************************)
EXTENDS Integers, FiniteSets

CONSTANTS
  Services,     \* the services of docker-compose.production.yml
  Frontend,     \* client-mx, where nginx runs
  Api,          \* server-nest, which nginx passes API calls to
  Rounds,       \* health polls before the time-out: TIMEOUT / INTERVAL
  MaxDeploys,   \* bound: deployments started
  MaxFaults     \* bound: faults that happen

ASSUME BlueGreenAssumption ==
  /\ {Frontend, Api} \subseteq Services
  /\ Frontend # Api
  /\ Rounds \in Nat \ {0}
  /\ MaxDeploys \in Nat
  /\ MaxFaults \in Nat

Colors == {"blue", "green"}
Other(c) == IF c = "blue" THEN "green" ELSE "blue"
NoColor == "none"

VARIABLES
  link,      \* what the symlink `current` points to
  src,       \* version of the sources in each environment's directory
  image,     \* version of each environment's image of a service, 0: no image
  run,       \* version each environment's container runs, 0: no container
  healthy,   \* does the environment answer
  knows,     \* the environments whose server-nest the nginx of each calls
  base,      \* is the image demo-base there
  proxy,     \* is HAProxy running
  weight,    \* HAProxy's weight of each environment
  version,   \* the commit in the source directory
  script,    \* the deployment under way
  faults     \* history: what has gone wrong, for the properties

vars == <<link, src, image, run, healthy, knows, base, proxy, weight, version, script, faults>>
host == <<link, src, image, run, healthy, knows, base, proxy, weight, version>>

(***************************************************************************)
(* The script                                                              *)
(***************************************************************************)
Phases == {"idle", "infra", "copy", "base", "build", "up", "health", "final",
           "clear", "shift", "clear_again", "unlink", "link", "stop", "finish"}

\* A script that dies here leaves traffic and symlink in disagreement.
Delicate == {"shift", "clear_again", "unlink", "link"}

\* Variant: a last step that adds to the fourth.
ShiftStepsTooFar == <<0, 25, 50, 75, 125>>

ShiftSteps == <<0, 25, 50, 75, 100>>
\* Variant: the loop ends one step early.
CommandsShort == 2 * 4

Commands == 2 * 5

Idle == [phase |-> "idle", current |-> NoColor, target |-> "blue", apps |-> {}, count |-> 0]

Goto(p) == script' = [script EXCEPT !.phase = p, !.count = 0]

Fault(f) ==
  /\ Cardinality(faults) < MaxFaults
  /\ faults' = faults \cup {f}

NoContainers == [s \in Services |-> 0]
ConfigWeight == [c \in Colors |-> IF c = "blue" THEN 100 ELSE 0]

Init ==
  /\ link = NoColor
  /\ src = [c \in Colors |-> 0]
  /\ image = [c \in Colors |-> NoContainers]
  /\ run = [c \in Colors |-> NoContainers]
  /\ healthy = [c \in Colors |-> FALSE]
  /\ knows = [c \in Colors |-> {}]
  /\ base = FALSE
  /\ proxy = FALSE
  /\ weight = ConfigWeight
  /\ version = 0
  /\ script = Idle
  /\ faults = {}

\* The workflow resets the sources to the commit and calls the script;
\* no apps named means all of them.
Start(apps) ==
  /\ script.phase = "idle"
  /\ version < MaxDeploys
  /\ version' = version + 1
  /\ script' = [phase |-> "infra", current |-> link, target |-> IF link = "blue" THEN "green" ELSE "blue",
                apps |-> apps, count |-> 0]
  /\ UNCHANGED <<link, src, image, run, healthy, knows, base, proxy, weight, faults>>

\* HAProxy is started if it does not run, with the weights of its
\* configuration. Network, monitoring and data stacks play no part here.
EnsureProxy ==
  /\ script.phase = "infra"
  /\ proxy' = TRUE
  /\ weight' = IF proxy THEN weight ELSE ConfigWeight
  /\ Goto("copy")
  /\ UNCHANGED <<link, src, image, run, healthy, knows, base, version, faults>>

\* Variant: sources that are there already are kept.
CopySourcesOnce ==
  /\ script.phase = "copy"
  /\ src' = [src EXCEPT ![script.target] = IF @ = 0 THEN version ELSE @]
  /\ Goto("base")
  /\ UNCHANGED <<link, image, run, healthy, knows, base, proxy, weight, version, faults>>

CopySources ==
  /\ script.phase = "copy"
  /\ src' = [src EXCEPT ![script.target] = version]
  /\ Goto("base")
  /\ UNCHANGED <<link, image, run, healthy, knows, base, proxy, weight, version, faults>>

BuildBase ==
  /\ script.phase = "base"
  /\ base' = TRUE
  /\ Goto("build")
  /\ UNCHANGED <<link, src, image, run, healthy, knows, proxy, weight, version, faults>>

\* "$SERVICES" is quoted: two names reach docker compose as one service that
\* does not exist.
Buildable == base /\ Cardinality(script.apps) < 2

Build ==
  /\ script.phase = "build"
  /\ Buildable
  /\ LET built == IF script.apps = {} THEN Services ELSE script.apps
     IN  image' = [image EXCEPT ![script.target] =
                     [s \in Services |-> IF s \in built THEN src[script.target] ELSE @[s]]]
  /\ Goto("up")
  /\ UNCHANGED <<link, src, run, healthy, knows, base, proxy, weight, version, faults>>

\* `docker compose up -d` builds the images that are missing, and only
\* those, and replaces the containers whose image has changed.
Missing(c) == {s \in Services : image[c][s] = 0}

Running == {c \in Colors : run[c] # NoContainers}

\* A new nginx looks server-nest up; an old one is left with an address that
\* a new server-nest does not have. (It may get one that somebody had before:
\* calls by such an address are not followed.)
KnowsAfterUp(c, new) ==
  [d \in Colors |-> IF d = c /\ Frontend \in new THEN Running \cup {c}
                    ELSE IF Api \in new THEN knows[d] \ {c} ELSE knows[d]]

Up ==
  /\ script.phase = "up"
  /\ base \/ Missing(script.target) = {}
  /\ LET c == script.target
     IN  /\ image' = [image EXCEPT ![c] = [s \in Services |-> IF s \in Missing(c) THEN src[c] ELSE @[s]]]
         /\ run' = [run EXCEPT ![c] = image'[c]]
         /\ healthy' = [healthy EXCEPT ![c] = FALSE]
         /\ knows' = KnowsAfterUp(c, {s \in Services : image'[c][s] # run[c][s]})
  /\ Goto("health")
  /\ UNCHANGED <<link, src, base, proxy, weight, version, faults>>

\* An image cannot be built, and `set -e` ends the script.
BuildFails ==
  /\ \/ script.phase = "build" /\ ~Buildable
     \/ script.phase = "up" /\ ~base /\ Missing(script.target) # {}
  /\ script' = Idle
  /\ UNCHANGED <<host, faults>>

NotHealthyYet ==
  /\ script.phase = "health"
  /\ script.count < Rounds
  /\ script' = [script EXCEPT !.count = @ + 1]
  /\ UNCHANGED <<host, faults>>

AllHealthy ==
  /\ script.phase = "health"
  /\ script.count < Rounds
  /\ healthy' = [healthy EXCEPT ![script.target] = TRUE]
  /\ Goto("final")
  /\ UNCHANGED <<link, src, image, run, knows, base, proxy, weight, version, faults>>

\* `docker compose down` of environment c
Down(c) ==
  /\ run' = [run EXCEPT ![c] = NoContainers]
  /\ healthy' = [healthy EXCEPT ![c] = FALSE]
  /\ knows' = [d \in Colors |-> IF d = c THEN {} ELSE knows[d] \ {c}]

\* Variant: the time-out is not acted upon.
RollBackFinal ==
  /\ script.phase = "final"
  /\ Down(script.target)
  /\ script' = Idle
  /\ UNCHANGED <<link, src, image, base, proxy, weight, version, faults>>

\* The health checks timed out, or the final check failed: exit 1.
RollBack ==
  /\ \/ script.phase = "health" /\ script.count >= Rounds
     \/ script.phase = "final"
  /\ Down(script.target)
  /\ script' = Idle
  /\ UNCHANGED <<link, src, image, base, proxy, weight, version, faults>>

FinalCheckPasses ==
  /\ script.phase = "final"
  /\ Goto("clear")
  /\ UNCHANGED <<host, faults>>

\* Variant: the cache is cleared and nginx goes on as before.
NoReload == UNCHANGED knows

\* `nginx -s reload`: nginx looks server-nest up again and finds the
\* containers of every environment that runs, healthy or not.
Reload == knows' = [knows EXCEPT ![script.target] = Running]

\* The cache is cleared before the shift and after it; a failure is ignored.
ClearCache ==
  /\ \/ script.phase = "clear" /\ Goto("shift")
     \/ script.phase = "clear_again" /\ Goto("unlink")
  /\ \/ Reload /\ UNCHANGED faults
     \/ Fault("nginx") /\ UNCHANGED knows
  /\ UNCHANGED <<link, src, image, run, healthy, base, proxy, weight, version>>

(***************************************************************************)
(* haproxy-shift-traffic.sh                                                *)
(***************************************************************************)

\* Each step sets the weight of the target, then that of the source.
Server(n) == IF n % 2 = 0 THEN script.target ELSE Other(script.target)
StepWeight(n) == IF n % 2 = 0 THEN ShiftSteps[n \div 2 + 1] ELSE 100 - ShiftSteps[n \div 2 + 1]

NextCommand ==
  IF script.count + 1 = Commands
  THEN Goto("clear_again")
  ELSE script' = [script EXCEPT !.count = @ + 1]

SetWeight ==
  /\ script.phase = "shift"
  /\ weight' = [weight EXCEPT ![Server(script.count)] = StepWeight(script.count)]
  /\ NextCommand
  /\ UNCHANGED <<link, src, image, run, healthy, knows, base, proxy, version, faults>>

\* HAProxy answers with an error text: the verification warns and goes on.
WeightIgnored ==
  /\ script.phase = "shift"
  /\ Fault("command")
  /\ NextCommand
  /\ UNCHANGED host

\* The command itself fails and ends the sub-script; its caller warns.
ShiftFails ==
  /\ script.phase = "shift"
  /\ Fault("command")
  /\ Goto("clear_again")
  /\ UNCHANGED host

RemoveLink ==
  /\ script.phase = "unlink"
  /\ link' = NoColor
  /\ Goto("link")
  /\ UNCHANGED <<src, image, run, healthy, knows, base, proxy, weight, version, faults>>

SetLink ==
  /\ script.phase = "link"
  /\ link' = script.target
  /\ Goto("stop")
  /\ UNCHANGED <<src, image, run, healthy, knows, base, proxy, weight, version, faults>>

\* Variant: the old environment may be stopped before its last weight is set.
StopOldEarly ==
  /\ script.current # NoColor
  /\ \/ script.phase = "stop" /\ Goto("finish")
     \/ script.phase = "shift" /\ script.count = Commands - 1 /\ UNCHANGED script
  /\ Down(script.current)
  /\ UNCHANGED <<link, src, image, base, proxy, weight, version, faults>>

\* Stops the environment the symlink named when the script began; if that
\* fails the script warns and leaves it running.
StopOld ==
  /\ script.phase = "stop"
  /\ \/ script.current # NoColor /\ Down(script.current)
     \/ UNCHANGED <<run, healthy, knows>>
  /\ Goto("finish")
  /\ UNCHANGED <<link, src, image, base, proxy, weight, version, faults>>

\* Back-up of the old directory, pruning, report.
Finish ==
  /\ script.phase = "finish"
  /\ script' = Idle
  /\ UNCHANGED <<host, faults>>

Die ==
  /\ script.phase # "idle"
  /\ Fault(script.phase)
  /\ script' = Idle
  /\ UNCHANGED host

(***************************************************************************)
(* Beside the script                                                       *)
(***************************************************************************)

\* renew-certs.sh: combine-certs.sh reloads or restarts HAProxy, which reads
\* its configuration again.
RenewCerts ==
  /\ proxy
  /\ Fault("reload")
  /\ weight' = ConfigWeight
  /\ UNCHANGED <<link, src, image, run, healthy, knows, base, proxy, version, script>>

\* docker-cleanup.sh: `docker system prune -a` removes, in either of its
\* modes, every image no container uses.
CleanUp ==
  /\ base' = FALSE
  /\ image' = [c \in Colors |-> [s \in Services |-> IF run[c][s] = image[c][s] THEN image[c][s] ELSE 0]]
  /\ <<base, image>>' # <<base, image>>
  /\ UNCHANGED <<link, src, run, healthy, knows, proxy, weight, version, script, faults>>

Deploy ==
  \/ EnsureProxy \/ CopySources \/ BuildBase \/ Build \/ Up \/ BuildFails
  \/ NotHealthyYet \/ AllHealthy \/ RollBack \/ FinalCheckPasses \/ ClearCache
  \/ SetWeight \/ WeightIgnored \/ ShiftFails
  \/ RemoveLink \/ SetLink \/ StopOld \/ Finish

Next ==
  \/ \E apps \in SUBSET Services : Start(apps)
  \/ Deploy
  \/ Die
  \/ RenewCerts
  \/ CleanUp

Spec == Init /\ [][Next]_vars

\* Every command of the script ends, one way or the other.
FairSpec == Spec /\ WF_vars(Deploy)

(***************************************************************************)
(* Properties                                                              *)
(***************************************************************************)
TypeOK ==
  /\ link \in Colors \cup {NoColor}
  /\ src \in [Colors -> 0..MaxDeploys]
  /\ image \in [Colors -> [Services -> 0..MaxDeploys]]
  /\ run \in [Colors -> [Services -> 0..MaxDeploys]]
  /\ healthy \in [Colors -> BOOLEAN]
  /\ knows \in [Colors -> SUBSET Colors]
  /\ base \in BOOLEAN
  /\ proxy \in BOOLEAN
  /\ weight \in [Colors -> 0..100]
  /\ version \in 0..MaxDeploys
  /\ script \in [phase : Phases, current : Colors \cup {NoColor}, target : Colors,
                  apps : SUBSET Services, count : Nat]
  /\ faults \subseteq Phases \cup {"command", "reload", "nginx"}

\* Nothing has happened that the scripts do not cope with.
Unharmed == faults \cap (Delicate \cup {"command", "reload", "nginx"}) = {}

\* The first deployment is done.
InService == link # NoColor \/ script.current # NoColor

\* From the first deployment on there is, at every moment, a way through: from
\* HAProxy to the nginx of a healthy environment, and from there to the
\* server-nest of a healthy one, perhaps the other; the auth-service that
\* one needs runs beside it. Builds that fail, health checks that time out,
\* roll-backs and scripts that die before or after the shift of traffic do not
\* change that. Nothing is said of the other ways, by which calls reach
\* containers that are starting or stopping: see CallsAreNeverCut.
AWayThrough ==
  Unharmed /\ InService =>
    proxy /\ \E c \in Colors : weight[c] > 0 /\ healthy[c] /\ \E d \in knows[c] : healthy[d]

\* Between shifts the symlink names the environment that HAProxy gives all
\* the traffic. The next script relies on it: it destroys the other one.
LinkFollowsTraffic ==
  Unharmed /\ link # NoColor /\ script.phase \notin Delicate =>
    weight[link] = 100 /\ weight[Other(link)] = 0 /\ healthy[link]

\* No step recreates or stops a container of an environment that HAProxy
\* sends users to, so no page is cut short; their API calls may well be.
PagesAreNeverCut ==
  [][\A c \in Colors : Unharmed /\ InService /\ healthy[c] /\ weight[c] > 0
       => run'[c] = run[c] /\ healthy'[c]]_vars

\* The environments whose server-nest users' API calls reach.
Called == UNION {knows[c] : c \in {d \in Colors : weight[d] > 0}}

\* No step recreates or stops a server-nest that users' API calls reach: what
\* "live traffic shifting without service interruption" needs, and what the
\* names shared by the two environments do not give.
CallsAreNeverCut ==
  [][Unharmed /\ InService => \A c \in Called : run'[c][Api] = run[c][Api]]_vars

\* An environment goes into service with every service at the commit that is
\* deployed, unless a selection of apps was built, whatever images earlier
\* deployments and the clean-up left.
DeploysTheCommit ==
  [][script.phase = "link" /\ link' = script.target /\ script.apps = {}
       => \A s \in Services : run[link'][s] = version]_vars

\* The script always comes to an end.
DeployEnds == script.phase # "idle" ~> script.phase = "idle"
=============================================================================
