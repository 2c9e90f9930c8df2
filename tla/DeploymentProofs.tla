-------------------------- MODULE DeploymentProofs --------------------------
(***************************************************************************)
(* Proofs about Deployment, for any number of runs and of upsets.          *)
(***************************************************************************)
EXTENDS Deployment, TLAPS

\* The orders, element by element.
LEMMA Orders ==
  /\ GenOrder[1] = "ca" /\ GenOrder[2] = "cert" /\ GenOrder[3] = "key"
  /\ GenOrder[4] = "phoneCert" /\ GenOrder[5] = "phoneKey"
  /\ DeployOrder[1] = "binary" /\ DeployOrder[2] = "ca" /\ DeployOrder[3] = "cert"
  /\ DeployOrder[4] = "key" /\ DeployOrder[5] = "config"
  /\ SaveOrder[1] = "phoneCert" /\ SaveOrder[2] = "phoneKey" /\ SaveOrder[3] = "ca"
  /\ NatOrder[1] = "sysctl" /\ NatOrder[2] = "masquerade"
  /\ NatOrder[3] = "out" /\ NatOrder[4] = "back"
  BY DEF GenOrder, DeployOrder, SaveOrder, NatOrder

\* SetupNAT's four commands as four steps.
LEMMA NatSteps ==
  ASSUME SetupNAT
  PROVE  /\ proc \in NatRules
         /\ rules' = [rules EXCEPT ![proc] = IF proc = "sysctl" THEN 1 ELSE @ + 1]
         /\ proc = "sysctl" => proc' = "masquerade"
         /\ proc = "masquerade" => proc' = "out"
         /\ proc = "out" => proc' = "back"
         /\ proc = "back" => proc' = "serving"
         /\ UNCHANGED <<loaded, started, upsets>>
<1>1. PICK i \in 1..4 :
        /\ proc = NatOrder[i]
        /\ rules' = [rules EXCEPT ![proc] = IF proc = "sysctl" THEN 1 ELSE @ + 1]
        /\ proc' = IF i = 4 THEN "serving" ELSE NatOrder[i + 1]
        /\ UNCHANGED <<loaded, started, upsets>>
  BY DEF SetupNAT
<1>2. i = 1 \/ i = 2 \/ i = 3 \/ i = 4
  OBVIOUS
<1> QED
  BY <1>1, <1>2, Orders DEF NatRules

LEMMA InitOK == Init => DeploymentInv
<1> SUFFICES ASSUME Init PROVE DeploymentInv
  OBVIOUS
<1>1. DeployTypeOK
  BY DeploymentAssumption
  DEF Init, DeployTypeOK, LocalFiles, DiskFiles, PhoneFiles, TlsFiles, NatRules
<1>2. rules["masquerade"] = 0 /\ rules["out"] = 0 /\ rules["back"] = 0
  BY DEF Init, NatRules
<1> QED
  BY <1>1, <1>2
  DEF Init, DeploymentInv, CleanBetweenCopies, RunsWhatIsOnDisk, Executing, CopiedSoFar,
      SavedSoFar, RotationWorks, RulesSoFar, ForwardsMasqueraded
-----------------------------------------------------------------------------
(* The user's commands.                                                    *)

UserStep ==
  \/ Gencerts \/ WriteCert \/ WriteCertFails
  \/ Import \/ SaveCert \/ SaveCertFails
  \/ Deploy \/ Scp \/ ScpFails
  \/ EnableNow \/ EnableNowFails \/ EnableForwarding \/ EnableForwardingFails

ServerStep ==
  \/ ServerAct(Restart) \/ ServerAct(Start) \/ ServerAct(Startup)
  \/ ServerAct(Fails) \/ ServerAct(Stop) \/ ServerAct(Reboot)

LEMMA UserTypes == ASSUME DeployTypeOK, UserStep PROVE DeployTypeOK'
<1> USE DeploymentAssumption
    DEF DeployTypeOK, LocalFiles, DiskFiles, PhoneFiles, TlsFiles, NatRules, vpsVars,
        Begin, At, Advance, Abort, Upset, BadWrite, WholeRun, Contents
<1>1. CASE Gencerts       BY <1>1 DEF Gencerts
<1>2. CASE WriteCert
  <2>1. step' \in 1..7 /\ op' \in {"idle", "gencerts"}
    BY <1>2 DEF WriteCert
  <2>2. local' \in [LocalFiles -> 0..MaxRuns]
    BY <1>2 DEF WriteCert
  <2> QED
    BY <1>2, <2>1, <2>2 DEF WriteCert
<1>3. CASE WriteCertFails BY <1>3 DEF WriteCertFails
<1>4. CASE Import         BY <1>4 DEF Import
<1>5. CASE SaveCert
  <2>1. step = 1 \/ step = 2 \/ step = 3
    BY <1>5 DEF SaveCert
  <2> QED
    BY <1>5, <2>1, Orders DEF SaveCert
<1>6. CASE SaveCertFails  BY <1>6 DEF SaveCertFails
<1>7. CASE Deploy         BY <1>7 DEF Deploy
<1>8. CASE Scp
  <2>1. step \in 1..5
    BY <1>8 DEF Scp
  <2>2. step = 1 \/ step = 2 \/ step = 3 \/ step = 4 \/ step = 5
    BY <2>1
  <2>3. Contents(DeployOrder[step]) \in 0..MaxRuns
    BY <2>2, Orders
  <2>4. disk' \in [DiskFiles -> 0..MaxRuns]
    BY <1>8, <2>3 DEF Scp
  <2>5. step' \in 1..7
    BY <1>8, <2>1 DEF Scp
  <2> QED
    BY <1>8, <2>4, <2>5 DEF Scp
<1>9. CASE ScpFails       BY <1>9 DEF ScpFails
<1>10. CASE EnableNow     BY <1>10 DEF EnableNow, Starts
<1>11. CASE EnableNowFails
  BY <1>11 DEF EnableNowFails
<1>12. CASE EnableForwarding \/ EnableForwardingFails
  BY <1>12 DEF EnableForwarding, EnableForwardingFails
<1> HIDE DEF DeployTypeOK
<1> QED
  BY <1>1, <1>2, <1>3, <1>4, <1>5, <1>6, <1>7, <1>8, <1>9, <1>10, <1>11, <1>12 DEF UserStep

LEMMA ServerTypes == ASSUME DeployTypeOK, ServerStep PROVE DeployTypeOK'
<1> USE DeploymentAssumption
    DEF DeployTypeOK, DiskFiles, TlsFiles, NatRules, ServerAct, userVars, Upset, Starts
<1>1. CASE ServerAct(Restart \/ Start)
  BY <1>1 DEF Restart, Start
<1>2. CASE ServerAct(Load)
  BY <1>2 DEF Load
<1>3. CASE ServerAct(CreateTUN)
  BY <1>3, Orders DEF CreateTUN
<1>4. CASE ServerAct(SetupNAT)
  BY <1>4, NatSteps
<1>5. CASE ServerAct(Fails \/ Stop)
  BY <1>5 DEF Fails, Stop
<1>6. CASE ServerAct(Reboot)
  BY <1>6 DEF Reboot
<1> HIDE DEF DeployTypeOK
<1> QED
  BY <1>1, <1>2, <1>3, <1>4, <1>5, <1>6 DEF ServerStep, Startup

LEMMA TypesKept == DeployTypeOK /\ [Next]_vars => DeployTypeOK'
<1>1. UNCHANGED vars => (DeployTypeOK => DeployTypeOK')
  BY DEF vars, userVars, vpsVars, DeployTypeOK
<1> QED
  BY <1>1, UserTypes, ServerTypes DEF Next, UserStep, ServerStep

\* Every variable keeps its type, whatever fails.
THEOREM DeploymentTypeCorrect == Spec => []DeployTypeOK
<1>1. Init => DeployTypeOK
  BY InitOK DEF DeploymentInv
<1> QED
  BY <1>1, TypesKept, PTL DEF Spec
-----------------------------------------------------------------------------
(* What a running server has loaded.                                       *)

\* A certificate is copied only between the first copy and the last.
LEMMA TlsFilesMove ==
  ASSUME DeploymentInv, UserStep
  PROVE  Copying \/ \A f \in TlsFiles : disk'[f] = disk[f]
<1> SUFFICES ASSUME ~Copying, NEW f \in TlsFiles PROVE disk'[f] = disk[f]
  OBVIOUS
<1> USE DEF DeploymentInv, DeployTypeOK, DiskFiles, TlsFiles
<1>1. CASE Scp \/ ScpFails
  <2>1. step = 1 \/ step = 5
    BY <1>1 DEF Scp, ScpFails, At, Copying
  <2>2. DeployOrder[step] \notin TlsFiles
    BY <2>1, Orders
  <2>3. disk' = disk \/ \E v \in 0..MaxRuns : disk' = [disk EXCEPT ![DeployOrder[step]] = v]
    <3>1. CASE Scp
      <4>1. Contents(DeployOrder[step]) = 1
        BY <2>1, Orders DEF Contents
      <4>2. disk' = [disk EXCEPT ![DeployOrder[step]] = 1]
        BY <3>1, <4>1 DEF Scp
      <4>3. 1 \in 0..MaxRuns
        BY DeploymentAssumption
      <4> QED
        BY <4>2, <4>3
    <3>2. CASE ScpFails
      BY <3>2, DeploymentAssumption DEF ScpFails, BadWrite
    <3> QED
      BY <1>1, <3>1, <3>2
  <2> QED
    BY <2>2, <2>3
<1> HIDE DEF DeploymentInv, DeployTypeOK
<1> QED
  BY <1>1
  DEF UserStep, Gencerts, WriteCert, WriteCertFails, Import, SaveCert, SaveCertFails,
      Deploy, EnableNow, EnableNowFails, EnableForwarding, EnableForwardingFails

\* Copying begins with the binary, which cannot be written while a server runs.
LEMMA CopyingBegins ==
  ASSUME DeploymentInv, UserStep, Copying', ~Copying
  PROVE  ~Executing /\ UNCHANGED vpsVars
<1> USE DEF DeploymentInv, DeployTypeOK, Copying
<1>1. Scp
  BY DEF UserStep, Gencerts, WriteCert, WriteCertFails, Import, SaveCert, SaveCertFails,
     Deploy, ScpFails, EnableNow, EnableNowFails, EnableForwarding, EnableForwardingFails,
     Begin, Advance, Abort, At
<1>2. step = 1
  BY <1>1 DEF Scp, At
<1> QED
  BY <1>1, <1>2, Orders DEF Scp, TextBusy

LEMMA LoadedByUser ==
  ASSUME DeploymentInv, UserStep
  PROVE  CleanBetweenCopies' /\ RunsWhatIsOnDisk'
<1>1. CASE EnableNow
  <2>1. CASE Executing
    <3>1. UNCHANGED <<vpsVars, disk>> /\ ~Copying'
      BY <1>1, <2>1 DEF EnableNow, Advance, Copying, vpsVars
    <3> QED
      BY <3>1 DEF DeploymentInv, CleanBetweenCopies, RunsWhatIsOnDisk, Executing, vpsVars
  <2>2. CASE ~Executing
    BY <1>1, <2>2
    DEF EnableNow, Starts, Advance, Copying, CleanBetweenCopies, RunsWhatIsOnDisk, Executing
  <2> QED
    BY <2>1, <2>2
<1>2. CASE EnableNowFails
  <2>1. /\ UNCHANGED <<disk, loaded, started>> /\ ~Copying'
        /\ Executing' => Executing /\ proc' = proc
    BY <1>2 DEF EnableNowFails, Abort, Copying, Executing
  <2> QED
    BY <2>1 DEF DeploymentInv, CleanBetweenCopies, RunsWhatIsOnDisk
<1>3. CASE EnableForwarding \/ EnableForwardingFails
  <2>1. UNCHANGED <<disk, proc, loaded, started>> /\ ~Copying'
    BY <1>3
    DEF EnableForwarding, EnableForwardingFails, Advance, Abort, Copying
  <2> QED
    BY <2>1 DEF DeploymentInv, CleanBetweenCopies, RunsWhatIsOnDisk, Executing
<1>4. CASE ~(EnableNow \/ EnableNowFails \/ EnableForwarding \/ EnableForwardingFails)
  <2>1. UNCHANGED vpsVars
    BY <1>4
    DEF UserStep, Gencerts, WriteCert, WriteCertFails, Import, SaveCert, SaveCertFails,
        Deploy, Scp, ScpFails
  <2>2. CleanBetweenCopies'
    BY <2>1, CopyingBegins DEF DeploymentInv, CleanBetweenCopies, Executing, vpsVars
  <2>3. RunsWhatIsOnDisk'
    BY <2>1, TlsFilesMove
    DEF DeploymentInv, CleanBetweenCopies, RunsWhatIsOnDisk, Executing, vpsVars
  <2> QED
    BY <2>2, <2>3
<1> QED
  BY <1>1, <1>2, <1>3, <1>4

LEMMA LoadedByServer ==
  ASSUME DeploymentInv, ServerStep
  PROVE  CleanBetweenCopies' /\ RunsWhatIsOnDisk'
<1> USE DEF DeploymentInv, DeployTypeOK, CleanBetweenCopies, RunsWhatIsOnDisk, Executing,
            Copying, NatRules, ServerAct, userVars
<1>1. CASE ServerAct(Restart \/ Start \/ Reboot)
  BY <1>1 DEF Restart, Start, Reboot, Starts
<1>2. CASE ServerAct(Load)
  BY <1>2 DEF Load
<1>3. CASE ServerAct(CreateTUN)
  BY <1>3, Orders DEF CreateTUN
<1>4. CASE ServerAct(SetupNAT)
  <2>1. proc \in NatRules /\ UNCHANGED <<loaded, started>>
    BY <1>4, NatSteps
  <2> QED
    BY <1>4, <2>1
<1>5. CASE ServerAct(Fails \/ Stop)
  BY <1>5 DEF Fails, Stop
<1> HIDE DEF DeploymentInv, DeployTypeOK, CleanBetweenCopies, RunsWhatIsOnDisk
<1> QED
  BY <1>1, <1>2, <1>3, <1>4, <1>5 DEF ServerStep, Startup
-----------------------------------------------------------------------------
(* What has been copied.                                                   *)

LEMMA CopiedByUser ==
  ASSUME DeploymentInv, UserStep
  PROVE  CopiedSoFar'
<1> USE DEF DeploymentInv, DeployTypeOK, CopiedSoFar, DiskFiles, LocalFiles, TlsFiles,
            Begin, At, Advance, Abort
<1>1. CASE Scp
  <2>1. step = 1 \/ step = 2 \/ step = 3 \/ step = 4 \/ step = 5
    BY <1>1 DEF Scp
  <2>2. /\ op = "deploy" /\ op' = "deploy" /\ step' = step + 1
        /\ disk' = [disk EXCEPT ![DeployOrder[step]] = Contents(DeployOrder[step])]
        /\ deployed' = 0 /\ local' = local
    BY <1>1 DEF Scp
  <2>3. step > 1 => disk'["ca"] = local["ca"]
    BY <2>1, <2>2, Orders DEF Contents
  <2>4. step > 2 => disk'["cert"] = local["cert"]
    BY <2>1, <2>2, Orders DEF Contents
  <2>5. step > 3 => disk'["key"] = local["key"]
    BY <2>1, <2>2, Orders DEF Contents
  <2> QED
    BY <2>1, <2>2, <2>3, <2>4, <2>5
<1>2. CASE ScpFails
  <2>1. CASE UNCHANGED <<disk, deployed>>
    BY <1>2, <2>1 DEF ScpFails
  <2>2. CASE deployed' = 0
    BY <1>2, <2>2 DEF ScpFails
  <2> QED
    BY <1>2, <2>1, <2>2 DEF ScpFails
<1>3. CASE EnableNow
  <2>1. /\ disk["ca"] = local["ca"]
        /\ disk["cert"] = local["cert"]
        /\ disk["key"] = local["key"]
    BY <1>3 DEF EnableNow
  <2>2. deployed' # 0 => \A f \in TlsFiles : local[f] = deployed'
    BY <1>3 DEF EnableNow, WholeRun
  <2> QED
    BY <1>3, <2>1, <2>2 DEF EnableNow
<1>4. CASE Gencerts \/ WriteCert \/ WriteCertFails
  BY <1>4 DEF Gencerts, WriteCert, WriteCertFails
<1>5. CASE Import \/ SaveCert \/ SaveCertFails \/ Deploy
  BY <1>5 DEF Import, SaveCert, SaveCertFails, Deploy
<1>6. CASE EnableNowFails \/ EnableForwarding \/ EnableForwardingFails
  BY <1>6 DEF EnableNowFails, EnableForwarding, EnableForwardingFails
<1> HIDE DEF DeploymentInv, DeployTypeOK, CopiedSoFar
<1> QED
  BY <1>1, <1>2, <1>3, <1>4, <1>5, <1>6 DEF UserStep

LEMMA SavedByUser ==
  ASSUME DeploymentInv, UserStep
  PROVE  SavedSoFar'
<1> USE DEF DeploymentInv, DeployTypeOK, SavedSoFar, PhoneFiles, LocalFiles, TlsFiles,
            Begin, At, Advance, Abort
<1>1. CASE SaveCert
  <2>1. step = 1 \/ step = 2 \/ step = 3
    BY <1>1 DEF SaveCert
  <2>2. /\ op = "import" /\ local' = local
        /\ phone' = [phone EXCEPT ![SaveOrder[step]] = local[SaveOrder[step]]]
        /\ imported' = IF step = 3 THEN WholeRun ELSE 0
        /\ step' = IF step = 3 THEN 1 ELSE step + 1
        /\ op' = IF step = 3 THEN "idle" ELSE op
    BY <1>1 DEF SaveCert
  <2>3. CASE step < 3
    BY <2>1, <2>2, <2>3, Orders
  <2>4. CASE step = 3
    <3>1. imported' # 0 => \A f \in LocalFiles : local[f] = imported'
      BY <2>2, <2>4 DEF WholeRun
    <3>2. \A f \in PhoneFiles : phone'[f] = local[f]
      BY <2>2, <2>4, Orders
    <3> QED
      BY <2>2, <2>4, <3>1, <3>2
  <2> QED
    BY <2>1, <2>3, <2>4
<1>2. CASE Import \/ SaveCertFails
  BY <1>2 DEF Import, SaveCertFails
<1>3. CASE Gencerts \/ WriteCert \/ WriteCertFails
  BY <1>3 DEF Gencerts, WriteCert, WriteCertFails
<1>4. CASE Deploy \/ Scp \/ ScpFails \/ EnableNow
  BY <1>4 DEF Deploy, Scp, ScpFails, EnableNow
<1>5. CASE EnableNowFails \/ EnableForwarding \/ EnableForwardingFails
  BY <1>5 DEF EnableNowFails, EnableForwarding, EnableForwardingFails
<1> HIDE DEF DeploymentInv, DeployTypeOK, SavedSoFar
<1> QED
  BY <1>1, <1>2, <1>3, <1>4, <1>5 DEF UserStep

\* A server that runs what is on its disk accepts the phone of the same run.
LEMMA RotationFollows ==
  RunsWhatIsOnDisk /\ CopiedSoFar /\ SavedSoFar => RotationWorks
  BY DEF RunsWhatIsOnDisk, CopiedSoFar, SavedSoFar, RotationWorks, Accepted, Executing,
     TlsFiles, PhoneFiles

LEMMA RotationFollowsNext ==
  ASSUME RunsWhatIsOnDisk', CopiedSoFar', SavedSoFar'
  PROVE  RotationWorks'
  BY RotationFollows, PTL
-----------------------------------------------------------------------------
(* The rules.                                                              *)

LEMMA RulesByUser ==
  ASSUME DeploymentInv, UserStep
  PROVE  RulesSoFar' /\ ForwardsMasqueraded'
<1> USE DEF DeploymentInv, RulesSoFar, ForwardsMasqueraded
<1>1. CASE UNCHANGED <<proc, rules>>
  BY <1>1
<1>2. CASE EnableNow /\ ~Executing
  BY <1>2 DEF EnableNow, Starts
<1>3. CASE EnableNowFails
  BY <1>3 DEF EnableNowFails
<1>4. CASE EnableForwarding
  <2>1. \A r \in NatRules : rules'[r] = IF r = "sysctl" THEN 1 ELSE rules[r]
    BY <1>4 DEF EnableForwarding, DeployTypeOK
  <2>2. UNCHANGED proc
    BY <1>4 DEF EnableForwarding
  <2> QED
    BY <2>1, <2>2 DEF NatRules
<1> HIDE DEF DeploymentInv, RulesSoFar, ForwardsMasqueraded
<1> QED
  BY <1>1, <1>2, <1>3, <1>4
  DEF UserStep, Gencerts, WriteCert, WriteCertFails, Import, SaveCert, SaveCertFails,
      Deploy, Scp, ScpFails, EnableNow, EnableForwardingFails, vpsVars

LEMMA RulesByServer ==
  ASSUME DeploymentInv, ServerStep
  PROVE  RulesSoFar' /\ ForwardsMasqueraded'
<1> USE DEF DeploymentInv, DeployTypeOK, RulesSoFar, ForwardsMasqueraded, NatRules, ServerAct
<1>1. CASE ServerAct(Restart \/ Start)
  BY <1>1 DEF Restart, Start, Starts
<1>2. CASE ServerAct(Reboot)
  BY <1>2 DEF Reboot, Starts
<1>3. CASE ServerAct(Load)
  BY <1>3 DEF Load
<1>4. CASE ServerAct(CreateTUN)
  BY <1>4, Orders DEF CreateTUN
<1>5. CASE ServerAct(SetupNAT)
  <2>1. CASE proc = "sysctl"     BY <1>5, <2>1, NatSteps
  <2>2. CASE proc = "masquerade" BY <1>5, <2>2, NatSteps
  <2>3. CASE proc = "out"        BY <1>5, <2>3, NatSteps
  <2>4. CASE proc = "back"       BY <1>5, <2>4, NatSteps
  <2> QED
    BY <1>5, <2>1, <2>2, <2>3, <2>4, NatSteps
<1>6. CASE ServerAct(Fails \/ Stop)
  BY <1>6 DEF Fails, Stop
<1> HIDE DEF DeploymentInv, DeployTypeOK, RulesSoFar, ForwardsMasqueraded
<1> QED
  BY <1>1, <1>2, <1>3, <1>4, <1>5, <1>6 DEF ServerStep, Startup
-----------------------------------------------------------------------------
LEMMA DeploymentInvKept == DeploymentInv /\ [Next]_vars => DeploymentInv'
<1> SUFFICES ASSUME DeploymentInv, [Next]_vars PROVE DeploymentInv'
  OBVIOUS
<1>1. DeployTypeOK'
  BY TypesKept DEF DeploymentInv
<1>2. CASE UNCHANGED vars
  BY <1>1, <1>2
  DEF DeploymentInv, CleanBetweenCopies, RunsWhatIsOnDisk, Executing, Copying, CopiedSoFar,
      SavedSoFar, RotationWorks, Accepted, RulesSoFar, ForwardsMasqueraded, vars, userVars,
      vpsVars
<1>3. CASE UserStep
  <2>1. CleanBetweenCopies' /\ RunsWhatIsOnDisk'
    BY <1>3, LoadedByUser
  <2>2. CopiedSoFar' /\ SavedSoFar'
    BY <1>3, CopiedByUser, SavedByUser
  <2>3. RotationWorks'
    BY <2>1, <2>2, RotationFollowsNext
  <2> QED
    BY <1>1, <1>3, <2>1, <2>2, <2>3, RulesByUser DEF DeploymentInv
<1>4. CASE ServerStep
  <2>1. CleanBetweenCopies' /\ RunsWhatIsOnDisk'
    BY <1>4, LoadedByServer
  <2>2. CopiedSoFar' /\ SavedSoFar'
    BY <1>4 DEF ServerStep, ServerAct, userVars, DeploymentInv, CopiedSoFar, SavedSoFar
  <2>3. RotationWorks'
    BY <2>1, <2>2, RotationFollowsNext
  <2> QED
    BY <1>1, <1>4, <2>1, <2>2, <2>3, RulesByServer DEF DeploymentInv
<1> QED
  BY <1>2, <1>3, <1>4 DEF Next, UserStep, ServerStep

LEMMA DeploymentInvariant == Spec => []DeploymentInv
  BY InitOK, DeploymentInvKept, PTL DEF Spec

\* No deployment, whole or failed, changes the files under a server that runs.
THEOREM ServerRunsItsDisk == Spec => []RunsWhatIsOnDisk
<1>1. DeploymentInv => RunsWhatIsOnDisk
  BY DEF DeploymentInv
<1> QED
  BY <1>1, DeploymentInvariant, PTL

\* After whatever failed before, a whole deployment and a whole import of one
\* run fit together.
THEOREM RotationIsAccepted == Spec => []RotationWorks
<1>1. DeploymentInv => RotationWorks
  BY DEF DeploymentInv
<1> QED
  BY <1>1, DeploymentInvariant, PTL

\* However often the server was started, and wherever it failed, what it
\* forwards is masqueraded.
THEOREM ForwardedIsMasqueraded == Spec => []ForwardsMasqueraded
<1>1. DeploymentInv => ForwardsMasqueraded
  BY DEF DeploymentInv
<1> QED
  BY <1>1, DeploymentInvariant, PTL
-----------------------------------------------------------------------------
(* Liveness.  The prover has no rules for ENABLED: the theorem takes       *)
(* GuardsSuffice as a hypothesis, which the guards of the actions imply.   *)

\* Where the server's process can be found as long as nothing upsets it and its
\* files stay whole, and how it goes on.
Whole(u) == Loadable /\ disk["binary"] # 0 /\ upsets = u
Stage(u, p) == Whole(u) /\ proc = p
Route == {<<"wait", "load">>, <<"load", "tun">>, <<"tun", "sysctl">>,
          <<"sysctl", "masquerade">>, <<"masquerade", "out">>, <<"out", "back">>,
          <<"back", "serving">>}

LEMMA RestartGoesOn ==
  ASSUME proc = "wait", disk["binary"] # 0, Starts
  PROVE  proc' = "load"
  BY DEF Starts

LEMMA StartupGoesOn ==
  ASSUME Loadable, Startup, NEW p, NEW q, <<p, q>> \in Route, proc = p
  PROVE  proc' = q
<1>1. CASE Load
  BY <1>1 DEF Load, Route
<1>2. CASE CreateTUN
  BY <1>2, Orders DEF CreateTUN, Route
<1>3. CASE SetupNAT
  BY <1>3, NatSteps DEF NatRules, Route
<1> QED
  BY <1>1, <1>2, <1>3 DEF Startup

LEMMA StageKept ==
  ASSUME DeployTypeOK, NEW u \in Nat, NEW p, NEW q, <<p, q>> \in Route,
         Stage(u, p), [Next]_vars
  PROVE  Stage(u, p)' \/ Stage(u, q)' \/ ~Whole(u)'
<1> USE DEF Stage
<1>1. CASE UNCHANGED proc
  BY <1>1
<1>2. ASSUME Starts, ~Executing PROVE proc' = q
  <2>1. p = "wait" /\ q = "load"
    BY <1>2 DEF Executing, Route
  <2> QED
    BY <1>2, <2>1, RestartGoesOn DEF Whole
<1>3. CASE EnableNow \/ ServerAct(Restart) \/ ServerAct(Start)
  BY <1>1, <1>2, <1>3 DEF EnableNow, ServerAct, Restart, Start, Executing
<1>4. CASE ServerAct(Startup)
  BY <1>4, StartupGoesOn DEF ServerAct, Whole
<1>5. CASE ServerAct(Fails) \/ ServerAct(Stop) \/ ServerAct(Reboot)
  BY <1>5 DEF ServerAct, Fails, Stop, Reboot, Upset, Whole, DeployTypeOK
<1>6. CASE EnableNowFails
  BY <1>1, <1>6 DEF EnableNowFails, Route
<1> QED
  BY <1>1, <1>3, <1>4, <1>5, <1>6
  DEF Next, vars, vpsVars, EnableForwarding, EnableForwardingFails, Gencerts, WriteCert, WriteCertFails, Import, SaveCert,
      SaveCertFails, Deploy, Scp, ScpFails

\* From one stage to the next, as one formula.
Passes(u, p, q) == Stage(u, p) ~> Stage(u, q) \/ ~Whole(u)

LEMMA WaitPasses ==
  ASSUME NEW u \in Nat
  PROVE  FairSpec /\ []GuardsSuffice => Passes(u, "wait", "load")
<1>1. DeployTypeOK /\ Stage(u, "wait") /\ [Next]_vars
        => Stage(u, "wait")' \/ Stage(u, "load")' \/ ~Whole(u)'
  BY StageKept DEF Route
<1>2. Stage(u, "wait") /\ <<Next /\ ServerAct(Restart)>>_vars
        => Stage(u, "load")' \/ ~Whole(u)'
  BY RestartGoesOn DEF Stage, Whole, ServerAct, Restart
<1>3. GuardsSuffice /\ Stage(u, "wait") => ENABLED <<ServerAct(Restart)>>_vars
  BY DEF GuardsSuffice, Stage, Whole
<1> QED
  BY <1>1, <1>2, <1>3, DeploymentTypeCorrect, PTL DEF Passes, FairSpec, Spec

LEMMA StartingPasses ==
  ASSUME NEW u \in Nat, NEW p \in {"load", "tun"} \cup NatRules, NEW q, <<p, q>> \in Route
  PROVE  FairSpec /\ []GuardsSuffice => Passes(u, p, q)
<1>1. DeployTypeOK /\ Stage(u, p) /\ [Next]_vars
        => Stage(u, p)' \/ Stage(u, q)' \/ ~Whole(u)'
  BY StageKept
<1>2. Stage(u, p) /\ <<Next /\ ServerAct(Startup)>>_vars
        => Stage(u, q)' \/ ~Whole(u)'
  BY StartupGoesOn DEF Stage, ServerAct, Whole
<1>3. GuardsSuffice /\ Stage(u, p) => ENABLED <<ServerAct(Startup)>>_vars
  BY DEF GuardsSuffice, Stage
<1> QED
  BY <1>1, <1>2, <1>3, DeploymentTypeCorrect, PTL DEF Passes, FairSpec, Spec

\* Each failed start heals on its own, once its files are whole: it takes no
\* later upset, and no command of the user's, to get from the failure to a
\* server that serves.  HalfDeployedHeals goes on to say so over all upsets.
HealsUnlessUpset ==
  \A u \in 0..MaxUpsets :
    Loadable /\ disk["binary"] # 0 /\ proc = "wait" /\ upsets = u
      ~> proc = "serving" \/ ~Loadable \/ disk["binary"] = 0 \/ upsets # u

\* A server that exited with 1 over half a deployment is restarted and goes
\* through every step of its start (tunnel.service:11-12; main.go:23-50).
THEOREM FailedStartHeals == FairSpec /\ []GuardsSuffice => HealsUnlessUpset
<1> SUFFICES
      ASSUME NEW u \in 0..MaxUpsets
      PROVE  FairSpec /\ []GuardsSuffice
               => (Loadable /\ disk["binary"] # 0 /\ proc = "wait" /\ upsets = u
                     ~> proc = "serving" \/ ~Loadable \/ disk["binary"] = 0 \/ upsets # u)
  BY DEF HealsUnlessUpset
<1> u \in Nat
  BY DeploymentAssumption
<1>1. FairSpec /\ []GuardsSuffice => Passes(u, "wait", "load")
  BY WaitPasses
<1>2. FairSpec /\ []GuardsSuffice => Passes(u, "load", "tun")
  BY StartingPasses DEF Route
<1>3. FairSpec /\ []GuardsSuffice => Passes(u, "tun", "sysctl")
  BY StartingPasses DEF Route
<1>4. FairSpec /\ []GuardsSuffice => Passes(u, "sysctl", "masquerade")
  BY StartingPasses DEF Route, NatRules
<1>5. FairSpec /\ []GuardsSuffice => Passes(u, "masquerade", "out")
  BY StartingPasses DEF Route, NatRules
<1>6. FairSpec /\ []GuardsSuffice => Passes(u, "out", "back")
  BY StartingPasses DEF Route, NatRules
<1>7. FairSpec /\ []GuardsSuffice => Passes(u, "back", "serving")
  BY StartingPasses DEF Route, NatRules
<1>8. Stage(u, "serving") => proc = "serving"
  BY DEF Stage
<1>9. Loadable /\ disk["binary"] # 0 /\ proc = "wait" /\ upsets = u => Stage(u, "wait")
  BY DEF Stage, Whole
<1>10. ~Whole(u) => ~Loadable \/ disk["binary"] = 0 \/ upsets # u
  BY DEF Whole
<1> QED
  BY <1>1, <1>2, <1>3, <1>4, <1>5, <1>6, <1>7, <1>8, <1>9, <1>10, PTL DEF Passes
=============================================================================
