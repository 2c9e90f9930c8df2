----------------------------- MODULE Deployment -----------------------------
(***************************************************************************)
(* How certificates and the server get to where they run: gencerts         *)
(* (cmd/gencerts/main.go) writes them on the user's machine, deploy.sh     *)
(* copies the server's share to the VPS, saveCert (ConfigManager.kt) the   *)
(* phone's; there systemd (tunnel.service) starts the server               *)
(* (cmd/server/main.go), which loads them, creates the TUN and the NAT     *)
(* rules, and serves.                                                      *)
(*                                                                         *)
(* The user runs one command at a time; the commands interleave with the   *)
(* server's process.  A file holds the number of the gencerts run that     *)
(* made it, 0 when it is absent or cut short; every run makes a CA, and    *)
(* signs with it.  binary and config are the same every time.  The files   *)
(* that go to neither place (the CA's key, the laptop's) are left out.     *)
(*                                                                         *)
(* Two facts of the systems used.  (1) The kernel refuses to open a file   *)
(* that is being executed for writing (ETXTBSY).  (2) With RestartSec=5s   *)
(* systemd's default limit, 5 starts in 10 s, is never met.                *)
(*                                                                         *)
(* NewServerTLSConfig's three reads are one step.  The server reads        *)
(* certificate, key, CA; deploy.sh writes CA, certificate, key: what reads *)
(* between those writes can see, one read at some time sees too.           *)
(***************************************************************************)
EXTENDS Naturals

CONSTANTS
  MaxRuns,      \* bound: runs of gencerts
  MaxUpsets     \* bound: failures, crashes, stops and reboots

ASSUME DeploymentAssumption == MaxRuns \in Nat \ {0} /\ MaxUpsets \in Nat

VARIABLES
  run,          \* the latest run of gencerts
  local,        \* the files in certs/ on the user's machine
  disk,         \* the files in /opt/tunnel
  phone,        \* the files in the app's filesDir
  op, step,     \* the command being run, and the step it is at
  proc,         \* the server's process
  loaded,       \* what its TLS configuration holds
  started,      \* history: was the process started between two copies?
  rules,        \* how often each of SetupNAT's commands is in force
  forwarding,   \* 1 when /etc/sysctl.conf sets ip_forward, else 0
  upsets,       \* how many upsets there were
  deployed, imported    \* history: whose files were put there whole, or 0

userVars == <<run, local, phone, op, step, deployed, imported>>
vpsVars  == <<proc, loaded, started, rules, forwarding>>
vars == <<userVars, disk, vpsVars, upsets>>

GenOrder == <<"ca", "cert", "key", "phoneCert", "phoneKey">>
MutDeployOrder == <<"ca", "cert", "key", "binary", "config">>
DeployOrder == <<"binary", "ca", "cert", "key", "config">>
SaveOrder == <<"phoneCert", "phoneKey", "ca">>
MutNatOrder == <<"sysctl", "out", "back", "masquerade">>
NatOrder == <<"sysctl", "masquerade", "out", "back">>

TlsFiles == {"ca", "cert", "key"}
LocalFiles == TlsFiles \cup {"phoneCert", "phoneKey"}
DiskFiles == TlsFiles \cup {"binary", "config"}
PhoneFiles == {"phoneCert", "phoneKey", "ca"}
NatRules == {"sysctl", "masquerade", "out", "back"}

DeployTypeOK ==
  /\ run \in 0..MaxRuns
  /\ local \in [LocalFiles -> 0..MaxRuns]
  /\ disk \in [DiskFiles -> 0..MaxRuns]
  /\ phone \in [PhoneFiles -> 0..MaxRuns]
  /\ op \in {"idle", "gencerts", "deploy", "import"}
  /\ step \in 1..7
  /\ proc \in {"absent", "off", "wait", "load", "tun", "serving"} \cup NatRules
  /\ loaded \in [TlsFiles -> 0..MaxRuns]
  /\ started \in {"clean", "between"}
  /\ rules \in [NatRules -> Nat]
  /\ forwarding \in 0..1
  /\ upsets \in 0..MaxUpsets
  /\ {deployed, imported} \subseteq 0..MaxRuns

Init ==
  /\ run = 0 /\ op = "idle" /\ step = 1 /\ upsets = 0
  /\ local = [f \in LocalFiles |-> 0]
  /\ disk = [f \in DiskFiles |-> 0]
  /\ phone = [f \in PhoneFiles |-> 0]
  /\ proc = "absent" /\ started = "clean"
  /\ loaded = [f \in TlsFiles |-> 0]
  /\ rules = [r \in NatRules |-> 0] /\ forwarding = 0
  /\ deployed = 0 /\ imported = 0

Upset == upsets < MaxUpsets /\ upsets' = upsets + 1

\* Opening a file to write it fails, or writing it does after it was truncated.
BadWrite(files, f) == {files, [files EXCEPT ![f] = 0]}

\* The run whose files in certs/ are all there, or 0.
WholeRun == IF \A f \in LocalFiles : local[f] = run THEN run ELSE 0
-----------------------------------------------------------------------------
(* The user's commands.                                                    *)

Begin(command) == op = "idle" /\ op' = command /\ step' = 1

At(command, last) == op = command /\ step <= last

Advance(last) ==
  /\ step' = IF step = last THEN 1 ELSE step + 1
  /\ op' = IF step = last THEN "idle" ELSE op

MutAbort == op' = "idle" /\ step' = step - 1

\* log.Fatalf, set -e, an exception.
Abort == op' = "idle" /\ step' = 1

Gencerts ==
  /\ Begin("gencerts")
  /\ run < MaxRuns
  /\ run' = run + 1
  /\ UNCHANGED <<local, disk, phone, vpsVars, upsets, deployed, imported>>

WriteCert ==
  /\ At("gencerts", 5)
  /\ local' = [local EXCEPT ![GenOrder[step]] = run]
  /\ Advance(5)
  /\ UNCHANGED <<run, disk, phone, vpsVars, upsets, deployed, imported>>

WriteCertFails ==
  /\ At("gencerts", 5)
  /\ Upset
  /\ local' \in BadWrite(local, GenOrder[step])
  /\ Abort
  /\ UNCHANGED <<run, disk, phone, vpsVars, deployed, imported>>

Import ==
  /\ Begin("import")
  /\ run > 0
  /\ imported' = 0
  /\ UNCHANGED <<run, local, disk, phone, vpsVars, upsets, deployed>>

SaveCert ==
  /\ At("import", 3)
  /\ phone' = [phone EXCEPT ![SaveOrder[step]] = local[SaveOrder[step]]]
  /\ Advance(3)
  /\ imported' = IF step = 3 THEN WholeRun ELSE 0
  /\ UNCHANGED <<run, local, disk, vpsVars, upsets, deployed>>

SaveCertFails ==
  /\ At("import", 3)
  /\ Upset
  /\ phone' \in BadWrite(phone, SaveOrder[step])
  /\ Abort
  /\ UNCHANGED <<run, local, disk, vpsVars, deployed, imported>>

Deploy ==
  /\ Begin("deploy")
  /\ run > 0
  /\ UNCHANGED <<run, local, disk, phone, vpsVars, upsets, deployed, imported>>
-----------------------------------------------------------------------------
(* deploy.sh.                                                              *)

Executing == proc \notin {"absent", "off", "wait"}

\* Of the files that the server loads, some are copied and some are not.
Copying == op = "deploy" /\ step \in 2..4

Contents(f) == IF f \in TlsFiles THEN local[f] ELSE 1

TextBusy == DeployOrder[step] = "binary" /\ Executing

\* The local file is absent, or was cut short and can be copied all the same.
Missing == Contents(DeployOrder[step]) = 0

Scp ==
  /\ At("deploy", 5)
  /\ ~TextBusy
  /\ disk' = [disk EXCEPT ![DeployOrder[step]] = Contents(DeployOrder[step])]
  /\ step' = step + 1
  /\ deployed' = 0
  /\ UNCHANGED <<run, local, phone, op, vpsVars, upsets, imported>>

MutScpFails ==
  /\ At("deploy", 5)
  /\ \/ (TextBusy \/ Missing) /\ UNCHANGED <<disk, deployed, upsets>>
     \/ /\ ~TextBusy
        /\ Upset
        /\ disk' \in BadWrite(disk, DeployOrder[step])
        /\ deployed' = 0
  /\ step' = step + 1
  /\ UNCHANGED <<run, local, phone, op, vpsVars, imported>>

ScpFails ==
  /\ At("deploy", 5)
  /\ \/ (TextBusy \/ Missing) /\ UNCHANGED <<disk, deployed, upsets>>
     \/ /\ ~TextBusy
        /\ Upset
        /\ disk' \in BadWrite(disk, DeployOrder[step])
        /\ deployed' = 0
  /\ Abort
  /\ UNCHANGED <<run, local, phone, vpsVars, imported>>

\* systemd executes the binary, when it can.
Starts ==
  /\ proc' = IF disk["binary"] # 0 THEN "load" ELSE "wait"
  /\ started' = IF Copying THEN "between" ELSE "clean"
  /\ UNCHANGED loaded

\* systemctl enable --now: a server that runs goes on as it is.
EnableNow ==
  /\ op = "deploy" /\ step = 6
  /\ IF Executing THEN UNCHANGED <<proc, loaded, started>> ELSE Starts
  /\ Advance(7)
  /\ deployed' = WholeRun
  /\ UNCHANGED <<run, local, disk, phone, rules, forwarding, upsets, imported>>

\* The unit is not installed, or enabled and not started.
EnableNowFails ==
  /\ op = "deploy" /\ step = 6
  /\ Upset
  /\ proc' \in {proc, IF proc = "absent" THEN "off" ELSE proc}
  /\ Abort
  /\ UNCHANGED <<run, local, disk, phone, loaded, started, rules, forwarding,
                 deployed, imported>>

\* tee -a and sysctl -p, the last command.
EnableForwarding ==
  /\ op = "deploy" /\ step = 7
  /\ forwarding' = 1
  /\ rules' = [rules EXCEPT !["sysctl"] = 1]
  /\ Advance(7)
  /\ UNCHANGED <<run, local, disk, phone, proc, loaded, started, upsets, deployed, imported>>

EnableForwardingFails ==
  /\ op = "deploy" /\ step = 7
  /\ Upset
  /\ forwarding' \in {forwarding, 1}
  /\ Abort
  /\ UNCHANGED <<run, local, disk, phone, proc, loaded, started, rules, deployed, imported>>
-----------------------------------------------------------------------------
(* The server's process.                                                   *)

ServerAct(A) == A /\ UNCHANGED <<userVars, disk, forwarding>>

MutRestart == proc = "off" /\ Starts /\ UNCHANGED <<rules, upsets>>

\* Restart=on-failure.
Restart == proc = "wait" /\ Starts /\ UNCHANGED <<rules, upsets>>

\* The operator's systemctl start.
Start == proc = "off" /\ Starts /\ UNCHANGED <<rules, upsets>>

Loadable ==
  /\ disk["config"] # 0 /\ disk["ca"] # 0
  /\ disk["cert"] # 0 /\ disk["key"] = disk["cert"]

\* LoadServerConfig and NewServerTLSConfig, or log.Fatalf.
Load ==
  /\ proc = "load"
  /\ \/ /\ Loadable
        /\ proc' = "tun"
        /\ loaded' = [f \in TlsFiles |-> disk[f]]
     \/ /\ ~Loadable
        /\ proc' = "wait"
        /\ UNCHANGED loaded
  /\ UNCHANGED <<started, rules, upsets>>

CreateTUN ==
  /\ proc = "tun"
  /\ proc' = NatOrder[1]
  /\ UNCHANGED <<loaded, started, rules, upsets>>

\* One command of SetupNAT.  iptables -A appends the rule once more.
SetupNAT ==
  \E i \in 1..4 :
    /\ proc = NatOrder[i]
    /\ rules' = [rules EXCEPT ![proc] = IF proc = "sysctl" THEN 1 ELSE @ + 1]
    /\ proc' = IF i = 4 THEN "serving" ELSE NatOrder[i + 1]
    /\ UNCHANGED <<loaded, started, upsets>>

\* CreateTUN or a command fails, the process is killed: the TUN goes with it,
\* the rules stay.
Fails ==
  /\ Executing
  /\ Upset
  /\ proc' = "wait"
  /\ UNCHANGED <<loaded, started, rules>>

\* systemctl stop: SIGTERM is a success to systemd, whoever handles it.
Stop ==
  /\ proc \notin {"absent", "off"}
  /\ Upset
  /\ proc' = "off"
  /\ UNCHANGED <<loaded, started, rules>>

\* The service is enabled; the rules were in the kernel only, but for what
\* /etc/sysctl.conf sets again.
Reboot ==
  /\ proc # "absent"
  /\ Upset
  /\ Starts
  /\ rules' = [r \in NatRules |-> IF r = "sysctl" THEN forwarding ELSE 0]

Startup == Load \/ CreateTUN \/ SetupNAT

Next ==
  \/ Gencerts \/ WriteCert \/ WriteCertFails
  \/ Import \/ SaveCert \/ SaveCertFails
  \/ Deploy \/ Scp \/ ScpFails
  \/ EnableNow \/ EnableNowFails \/ EnableForwarding \/ EnableForwardingFails
  \/ ServerAct(Restart) \/ ServerAct(Start) \/ ServerAct(Startup)
  \/ ServerAct(Fails) \/ ServerAct(Stop) \/ ServerAct(Reboot)

Spec == Init /\ [][Next]_vars

(* systemd restarts what failed, and a process that starts goes on; the    *)
(* user may stop using any command.                                        *)
FairSpec ==
  Spec /\ WF_vars(ServerAct(Restart)) /\ WF_vars(ServerAct(Startup))
-----------------------------------------------------------------------------
\* What a running server has loaded is what is on its disk, however deployments
\* fail around it, unless it was started between two copies of one: the binary
\* is copied first, and cannot be while a server runs (deploy.sh:45-51, 59).
RunsWhatIsOnDisk ==
  Executing /\ proc # "load" /\ started = "clean"
    => \A f \in TlsFiles : loaded[f] = disk[f]

\* RequireAndVerifyClientCert on one side, RootCAs on the other.
Accepted ==
  /\ phone["phoneKey"] = phone["phoneCert"]
  /\ phone["phoneCert"] = loaded["ca"]
  /\ phone["ca"] = loaded["cert"]

\* A phone that was given the whole of a run is accepted by a server that was
\* given the whole of the same run, whatever failed before and whatever gencerts
\* has overwritten since (deploy.sh:21, 49-51; ConfigManager.kt:65-69).
RotationWorks ==
  proc = "serving" /\ started = "clean" /\ deployed = imported /\ deployed # 0
    => Accepted

\* The server never forwards a client's packet that would leave with its tunnel
\* address, in any history of failed and repeated starts: each rule that forwards
\* came after one that masquerades, and all are there when it serves
\* (tun_linux.go:79-84).
ForwardsMasqueraded ==
  /\ rules["masquerade"] >= rules["out"] /\ rules["out"] >= rules["back"]
  /\ proc = "serving" => \A r \in NatRules : rules[r] > 0

\* A server that could not start, because half a deployment was on its disk,
\* starts by itself once the disk is whole: log.Fatalf exits with 1
\* (main.go:23-50; tunnel.service:11-12).
HalfDeployedHeals ==
  Loadable /\ disk["binary"] # 0 /\ proc = "wait"
    ~> proc \in {"serving", "off"} \/ ~Loadable \/ disk["binary"] = 0

\* A restart, or a step of a start, is possible when its guards hold: the side
\* condition under which weak fairness makes it happen.  ENABLED is out of the
\* prover's reach, so the theorem on failed starts has it as a hypothesis; it is
\* true by the guards of the actions, and says nothing else.
GuardsSuffice ==
  /\ proc = "wait" /\ disk["binary"] # 0 => ENABLED <<ServerAct(Restart)>>_vars
  /\ proc \in {"load", "tun"} \cup NatRules => ENABLED <<ServerAct(Startup)>>_vars
-----------------------------------------------------------------------------
(* What makes the invariants inductive; used by DeploymentProofs.          *)

CleanBetweenCopies == Executing /\ started = "clean" => ~Copying

CopiedSoFar ==
  /\ deployed # 0 => \A f \in TlsFiles : disk[f] = deployed
  /\ op = "deploy" =>
       /\ step \in 2..6 => deployed = 0
       /\ step > 2 => disk["ca"] = local["ca"]
       /\ step > 3 => disk["cert"] = local["cert"]
       /\ step > 4 => disk["key"] = local["key"]

SavedSoFar ==
  /\ imported # 0 => \A f \in PhoneFiles : phone[f] = imported
  /\ op = "import" =>
       /\ imported = 0
       /\ step > 1 => phone["phoneCert"] = local["phoneCert"]
       /\ step > 2 => phone["phoneKey"] = local["phoneKey"]

RulesSoFar ==
  /\ proc \in {"masquerade", "out", "back"} => rules["sysctl"] > 0
  /\ proc = "out" => rules["masquerade"] > rules["out"]
  /\ proc = "back" => rules["out"] > rules["back"]

DeploymentInv ==
  /\ DeployTypeOK
  /\ CleanBetweenCopies /\ RunsWhatIsOnDisk
  /\ CopiedSoFar /\ SavedSoFar /\ RotationWorks
  /\ RulesSoFar /\ ForwardsMasqueraded
=============================================================================
