---------------------------- MODULE DeployProofs ----------------------------
(***************************************************************************)
(* Proofs about Deploy and Target: any number of runs at the same time,     *)
(* with any options, killed or refused at any point, with make clean and    *)
(* orphaned builds in between, whatever IAM and Lambda do.                  *)
(***************************************************************************)
EXTENDS Deploy, TLAPS

-----------------------------------------------------------------------------
(* The inductive invariant.  DeploysOwnBuild is about the package, which     *)
(* create_zip takes from a directory that all runs write to: it holds        *)
(* because of what each file contains on the way there (OwnFiles).           *)
(* CompleteMeansDeployed is about the code Lambda runs: it holds because     *)
(* Lambda works on one package at a time, the last it took (LastTaken), and  *)
(* a run that waits had its own taken (WaitsForOwn).                         *)

\* A run whose build has returned, or not begun, has no build.py; one that waits for
\* its build asked for it.
Children ==
    \A r \in Runs : /\ pc[r] \in {"idle", "built"} => builder[r] = "off"
                    /\ pc[r] = "build" => build[r]

\* What the next step of an undisturbed build reads is its own work, and so is the
\* binary it leaves.
OwnFiles ==
    \A r \in AtWork : r \notin disturbed =>
        /\ builder[r] = "llc" => target["ll"] = r
        /\ builder[r] = "cargo" => target["obj"] = r
        /\ builder[r] = "copy" => target["release"] = r
        /\ builder[r] = "copying" => opened[r] = r
        /\ builder[r] \in {"strip", "ok"} => target["bootstrap"] = r
        /\ pc[r] = "built" => target["bootstrap"] = r

LastAccepted == accepted[Len(accepted)]

\* What Lambda runs, or is about to run, is the last package it took.
LastTaken ==
    /\ state \in {"absent", "Pending"} => update = "Successful"
    /\ accepted # <<>> =>
          /\ update = "Successful" => live = package[LastAccepted]
          /\ update = "InProgress" => coming = package[LastAccepted]

\* A run that waits for the function, or is done with it, had its package taken, and
\* the package of a run that was taken does not change any more.
WaitsForOwn ==
    /\ \A r \in Runs : pc[r] \in {"wait", "complete"} => \E i \in DOMAIN accepted : accepted[i] = r
    /\ \A i \in DOMAIN accepted : pc[accepted[i]] \notin {"idle", "build", "built"}
    /\ \A r \in Runs : pc[r] = "complete" => state = "Active"

\* A role without its policy is being given it, unless a run was stopped there: the part
\* of PolicyFollowsRole that is no matter of time.
PolicyOwed == role /\ ~ policy => abandoned \/ \E r \in Runs : pc[r] = "attach_role_policy"

BuildInv == Children /\ OwnFiles /\ DeploysOwnBuild
LambdaInv == LastTaken /\ WaitsForOwn
IInv == TypeOK /\ BuildInv /\ LambdaInv /\ PolicyOwed
-----------------------------------------------------------------------------

LEMMA InitIInv == Init => IInv
<1> SUFFICES ASSUME Init PROVE IInv
  OBVIOUS
<1> USE DeployAssumption DEF Init, TargetInit
<1>1. TypeOK
  <2>1. {role, policy, assumable, abandoned} \subseteq BOOLEAN
    BY Zenon
  <2> QED
    BY <2>1 DEF TypeOK, Files, BuilderStates
<1>2. BuildInv
  BY DEF BuildInv, Children, OwnFiles, AtWork, DeploysOwnBuild
<1>3. LambdaInv /\ PolicyOwed
  BY DEF LambdaInv, LastTaken, WaitsForOwn, PolicyOwed
<1> QED
  BY <1>1, <1>2, <1>3 DEF IInv

\* A step of a build.py writes what its own next step reads; it disturbs every other
\* run that is at work.
LEMMA BuildStep ==
    ASSUME IInv, NEW r \in Runs, build_phase(r)
    PROVE  IInv'
<1> USE DEF IInv, Becomes, Write
<1>1. /\ UNCHANGED <<local, aws, abandoned, cleaning>>
      /\ disturbed' = disturbed \cup (AtWork \ {r})
      /\ \/ build_compile(r) \/ build_llc(r) \/ build_cargo(r)
         \/ build_copy(r) \/ build_copied(r) \/ build_strip(r)
  BY DEF build_phase, Build
<1> USE DEF TypeOK, local, args, aws, iam, lambda
<1>2. builder[r] \in Building
  BY <1>1 DEF Building, build_compile, build_llc, build_cargo, build_copy, build_copied, build_strip
<1>3. PICK l \in BuilderStates : builder' = [builder EXCEPT ![r] = l]
  BY <1>1 DEF BuilderStates, Building, build_compile, build_llc, build_cargo, build_copy,
     build_copied, build_strip
<1>4. target' \in [Names -> Files]
  <2>1. \A f \in Names, c \in Files : [target EXCEPT ![f] = c] \in [Names -> Files]
    OBVIOUS
  <2>2. /\ {"ll", "obj", "release", "bootstrap"} \subseteq Names
        /\ {r, Partial, opened[r], target["ll"], target["obj"]} \subseteq Files
    BY DEF Names, Files
  <2>3. target' = target \/ \E f \in Names, c \in Files : target' = [target EXCEPT ![f] = c]
    BY <1>1, <2>2 DEF build_compile, build_llc, build_cargo, build_copy, build_copied, build_strip
  <2> QED
    BY <2>1, <2>3
<1>5. opened' \in [Runs -> Files]
  BY <1>1 DEF Files, Names, build_compile, build_llc, build_cargo, build_copy,
     build_copied, build_strip
<1>6. TypeOK'
  BY <1>1, <1>3, <1>4, <1>5 DEF AtWork
<1>7. Children'
  BY <1>1, <1>2, <1>3 DEF BuildInv, Children, Building
<1>8. OwnFiles'
  <2> SUFFICES ASSUME NEW q \in AtWork', q \notin disturbed'
               PROVE  /\ builder'[q] = "llc" => target'["ll"] = q
                      /\ builder'[q] = "cargo" => target'["obj"] = q
                      /\ builder'[q] = "copy" => target'["release"] = q
                      /\ builder'[q] = "copying" => opened'[q] = q
                      /\ builder'[q] \in {"strip", "ok"} => target'["bootstrap"] = q
                      /\ pc'[q] = "built" => target'["bootstrap"] = q
    BY DEF OwnFiles
  <2>1. q = r /\ r \in AtWork /\ r \notin disturbed
    BY <1>1 DEF AtWork
  <2>2. pc[r] # "built"
    BY <1>2 DEF BuildInv, Children, Building
  <2> USE TargetAssumption, <2>1 DEF BuildInv, OwnFiles, Names
  <2>3. CASE build_compile(r) \/ build_llc(r) \/ build_cargo(r)
    BY <1>1, <2>2, <2>3 DEF build_compile, build_llc, build_cargo
  <2>4. CASE build_copy(r)
    BY <1>1, <2>2, <2>4 DEF build_copy
  <2>5. CASE build_copied(r) \/ build_strip(r)
    BY <1>1, <2>2, <2>5 DEF build_copied, build_strip
  <2> QED
    BY <1>1, <2>3, <2>4, <2>5
<1>9. DeploysOwnBuild'
  BY <1>1 DEF BuildInv, DeploysOwnBuild
<1>10. LambdaInv' /\ PolicyOwed'
  BY <1>1 DEF LambdaInv, LastTaken, LastAccepted, WaitsForOwn, PolicyOwed
<1> QED
  BY <1>6, <1>7, <1>8, <1>9, <1>10 DEF BuildInv

\* A run moves from l0 to l: what Lambda has taken stays, and the run has its package
\* taken if it waits.
LEMMA LambdaUnmoved ==
    ASSUME TypeOK, LambdaInv, UNCHANGED <<lambda, package>>,
           NEW r \in Runs, NEW l, pc' = [pc EXCEPT ![r] = l],
           pc[r] \notin {"idle", "build", "built"} => l \notin {"idle", "build", "built"},
           l \in {"wait", "complete"} => pc[r] = "wait",
           l = "complete" => state = "Active"
    PROVE  LambdaInv'
<1> USE DEF TypeOK, LambdaInv, lambda
<1>1. LastTaken'
  BY DEF LastTaken, LastAccepted
<1>2. \A q \in Runs : pc'[q] = IF q = r THEN l ELSE pc[q]
  OBVIOUS
<1>3. \A i \in DOMAIN accepted : accepted[i] \in Runs
  OBVIOUS
<1>4. WaitsForOwn'
  BY <1>2, <1>3 DEF WaitsForOwn
<1> QED
  BY <1>1, <1>4

\* The run builds no more, and touches no file.
LEMMA BuildUnmoved ==
    ASSUME TypeOK, BuildInv, UNCHANGED <<build, target, opened, package>>,
           disturbed \subseteq disturbed',
           NEW r \in Runs, NEW l, l \notin {"idle", "build", "built"},
           pc' = [pc EXCEPT ![r] = l],
           \A q \in Runs \ {r} : builder'[q] = builder[q]
    PROVE  BuildInv'
<1> USE DEF TypeOK, BuildInv
<1>1. \A q \in Runs : pc'[q] = IF q = r THEN l ELSE pc[q]
  OBVIOUS
<1>2. Children'
  BY <1>1 DEF Children
<1>3. OwnFiles'
  BY <1>1 DEF OwnFiles, AtWork
<1>4. DeploysOwnBuild'
  BY DEF DeploysOwnBuild
<1> QED
  BY <1>2, <1>3, <1>4

\* The start of a run, the end of its build, its package and the calls that only look.
LEMMA LocalStep ==
    ASSUME IInv, NEW r \in Runs,
           main(r) \/ build_returns(r) \/ create_zip(r) \/ get_role(r) \/ get_function(r)
    PROVE  IInv'
<1> USE DEF IInv, TypeOK, Goto, Becomes, args, files, build_vars, aws, iam, lambda, history
<1>1. CASE main(r) \/ build_returns(r)
  <2> USE <1>1 DEF main, build_returns
  <2>1. TypeOK'
    BY DEF Ended, BuilderStates, Building
  <2>2. Children'
    BY DEF BuildInv, Children
  <2>3. OwnFiles'
    <3>1. \A q \in Runs \ {r} : /\ q \in AtWork' <=> q \in AtWork
                               /\ builder'[q] = builder[q] /\ pc'[q] = pc[q]
      BY DEF AtWork
    <3>2. CASE main(r)
      <4>1. r \in AtWork' => builder'[r] = "compile" /\ pc'[r] = "build"
        BY <3>2 DEF AtWork
      <4> QED
        BY <3>1, <4>1 DEF BuildInv, OwnFiles, AtWork
    <3>3. CASE build_returns(r)
      <4>1. builder'[r] = "off" /\ (pc'[r] = "built" => builder[r] = "ok")
        BY <3>3
      <4>2. r \in AtWork' => r \in AtWork /\ pc'[r] = "built"
        BY <3>3 DEF AtWork
      <4> QED
        BY <3>1, <4>1, <4>2 DEF BuildInv, OwnFiles, AtWork
    <3> QED
      BY <3>2, <3>3
  <2>4. DeploysOwnBuild' /\ PolicyOwed'
    BY DEF BuildInv, DeploysOwnBuild, PolicyOwed
  <2>5. LambdaInv'
    BY LambdaUnmoved
  <2> QED
    BY <2>1, <2>2, <2>3, <2>4, <2>5 DEF BuildInv
<1>2. CASE create_zip(r)
  <2> USE <1>2 DEF create_zip
  <2>1. TypeOK'
    BY DEF Ended, Names
  <2>2. Children' /\ OwnFiles'
    BY DEF BuildInv, Children, OwnFiles, AtWork
  <2>3. DeploysOwnBuild'
    BY DEF BuildInv, OwnFiles, AtWork, DeploysOwnBuild
  <2>4. LambdaInv'
    <3>1. \A i \in DOMAIN accepted : accepted[i] \in Runs \ {r}
      BY DEF LambdaInv, WaitsForOwn
    <3>2. LastTaken'
      BY <3>1 DEF LambdaInv, LastTaken, LastAccepted
    <3>3. WaitsForOwn'
      BY <3>1 DEF LambdaInv, WaitsForOwn
    <3> QED
      BY <3>2, <3>3 DEF LambdaInv
  <2>5. PolicyOwed'
    BY DEF PolicyOwed
  <2> QED
    BY <2>1, <2>2, <2>3, <2>4, <2>5 DEF BuildInv
<1>3. CASE get_role(r) \/ get_function(r)
  <2> USE <1>3 DEF get_role, get_function
  <2>1. TypeOK'
    BY DEF Ended
  <2>2. BuildInv'
    BY BuildUnmoved
  <2>3. PICK l \in {"get_function", "create_role", "update_function_code", "failed",
                   "create_function"} : pc' = [pc EXCEPT ![r] = l]
    BY Zenon
  <2>4. LambdaInv'
    BY <2>3, LambdaUnmoved
  <2>5. PolicyOwed'
    BY DEF PolicyOwed
  <2> QED
    BY <2>1, <2>2, <2>4, <2>5
<1> QED
  BY <1>1, <1>2, <1>3

\* Lambda takes the package of a run, which waits from now on.
LEMMA TakenStep ==
    ASSUME IInv, NEW r \in Runs, pc[r] \in {"update_function_code", "create_function"},
           pc' = [pc EXCEPT ![r] = "wait"], package' = package,
           accepted' = Append(accepted, r),
           \/ state' = "Pending" /\ update' = "Successful" /\ live' = package[r]
              /\ state = "absent"
           \/ state' = state /\ update' = "InProgress" /\ coming' = package[r]
              /\ state \in {"Active", "Failed"}
    PROVE  LambdaInv'
<1> USE DEF IInv, TypeOK, LambdaInv
<1>1. /\ Len(accepted') = Len(accepted) + 1 /\ LastAccepted' = r
      /\ DOMAIN accepted' = DOMAIN accepted \cup {Len(accepted) + 1}
      /\ \A i \in DOMAIN accepted : accepted'[i] = accepted[i]
  BY DEF LastAccepted
<1>2. LastTaken'
  BY <1>1 DEF LastTaken
<1>3. WaitsForOwn'
  <2>1. \A q \in Runs : pc'[q] \in {"wait", "complete"} =>
            \E i \in DOMAIN accepted' : accepted'[i] = q
    <3> SUFFICES ASSUME NEW q \in Runs, pc'[q] \in {"wait", "complete"}
                 PROVE  \E i \in DOMAIN accepted' : accepted'[i] = q
      OBVIOUS
    <3>1. CASE q = r
      BY <1>1, <3>1 DEF LastAccepted
    <3>2. CASE q # r
      BY <1>1, <3>2 DEF WaitsForOwn
    <3> QED
      BY <3>1, <3>2
  <2>2. \A i \in DOMAIN accepted' : pc'[accepted'[i]] \notin {"idle", "build", "built"}
    <3>1. pc'[accepted'[Len(accepted) + 1]] = "wait"
      BY <1>1 DEF LastAccepted
    <3>2. \A i \in DOMAIN accepted : accepted[i] \in Runs
      OBVIOUS
    <3> QED
      BY <1>1, <3>1, <3>2 DEF WaitsForOwn
  <2>3. \A q \in Runs : pc'[q] = "complete" => state' = "Active"
    BY DEF WaitsForOwn
  <2> QED
    BY <2>1, <2>2, <2>3 DEF WaitsForOwn
<1> QED
  BY <1>2, <1>3

\* A run keeps its count of polls, begins a new one, or counts a poll before the deadline.
LEMMA PollsStep ==
    ASSUME NEW r \in Runs,
           update_function_code(r) \/ create_function(r) \/ wait_for_function_active(r)
    PROVE  \/ polls' = polls
           \/ polls' = [polls EXCEPT ![r] = 0]
           \/ polls[r] < MaxPolls /\ polls' = [polls EXCEPT ![r] = @ + 1]
<1>1. CASE update_function_code(r)
  BY <1>1 DEF update_function_code
<1>2. CASE create_function(r)
  BY <1>2 DEF create_function, Created, retry
<1>3. CASE wait_for_function_active(r)
  BY <1>3 DEF wait_for_function_active, retry
<1> QED
  BY <1>1, <1>2, <1>3

\* The calls that change something in AWS, and the waiting for it.
LEMMA AwsCallStep ==
    ASSUME IInv, NEW r \in Runs,
           \/ create_role(r) \/ attach_role_policy(r) \/ update_function_code(r)
           \/ create_function(r) \/ wait_for_function_active(r)
    PROVE  IInv'
<1> USE DeployAssumption DEF IInv, TypeOK, Goto, args, files, build_vars, aws, iam, lambda, history
<1>1. CASE create_role(r) \/ attach_role_policy(r)
  <2> USE <1>1 DEF create_role, attach_role_policy
  <2>1. TypeOK'
    <3>1. CASE create_role(r)
      BY <3>1 DEF Ended
    <3>2. CASE attach_role_policy(r)
      BY <3>2 DEF Ended
    <3> QED
      BY <1>1, <3>1, <3>2
  <2>2. BuildInv'
    BY BuildUnmoved
  <2>3. LambdaInv'
    BY LambdaUnmoved
  <2>4. PolicyOwed'
    BY DEF PolicyOwed
  <2> QED
    BY <2>1, <2>2, <2>3, <2>4
<1>2. CASE update_function_code(r) \/ create_function(r) \/ wait_for_function_active(r)
  <2>0. \/ polls' = polls
        \/ polls' = [polls EXCEPT ![r] = 0]
        \/ polls[r] < MaxPolls /\ polls' = [polls EXCEPT ![r] = @ + 1]
    BY ONLY r \in Runs, <1>2, PollsStep
  <2> USE <1>2 DEF update_function_code, create_function, Created, wait_for_function_active, retry
  <2>1. TypeOK'
    <3>1. accepted' \in Seq(Runs)
      <4>1. Append(accepted, r) \in Seq(Runs)
        OBVIOUS
      <4>2. accepted' = accepted \/ accepted' = Append(accepted, r)
        OBVIOUS
      <4> QED
        BY <4>1, <4>2
    <3>2. polls' \in [Runs -> 0 .. MaxPolls]
      <4>1. 0 \in 0 .. MaxPolls /\ \A n \in 0 .. MaxPolls : n < MaxPolls => n + 1 \in 0 .. MaxPolls
        OBVIOUS
      <4>2. CASE polls' = polls
        BY <4>2
      <4>3. CASE polls' = [polls EXCEPT ![r] = 0]
        BY <4>1, <4>3
      <4>4. CASE polls[r] < MaxPolls /\ polls' = [polls EXCEPT ![r] = @ + 1]
        <5>1. polls[r] + 1 \in 0 .. MaxPolls
          BY <4>1, <4>4
        <5> QED
          BY <4>4, <5>1
      <4> QED
        BY <2>0, <4>2, <4>3, <4>4
    <3>3. {live', coming'} \subseteq Files
      OBVIOUS
    <3>4. state' \in {"absent", "Pending", "Active", "Failed"}
          /\ update' \in {"Successful", "InProgress", "Failed"}
      OBVIOUS
    <3>5. pc' \in [Runs -> {"idle", "build", "built", "get_role", "create_role",
                        "attach_role_policy", "get_function", "update_function_code",
                        "create_function", "wait"} \cup Ended]
      BY DEF Ended
    <3>6. UNCHANGED <<args, files, package, role, policy, assumable, history>>
      OBVIOUS
    <3> HIDE <1>2 DEF update_function_code, create_function, Created,
                     wait_for_function_active, retry
    <3> QED
      BY <3>1, <3>2, <3>3, <3>4, <3>5, <3>6
  <2>2. BuildInv'
    BY BuildUnmoved
  <2>3. LambdaInv'
    <3>1. CASE accepted' = accepted
      <4>1. UNCHANGED <<lambda, package>>
        BY <3>1
      <4> QED
        BY <4>1, LambdaUnmoved
    <3>2. CASE accepted' # accepted
      BY <3>2, TakenStep DEF LambdaInv, LastTaken
    <3> QED
      BY <3>1, <3>2
  <2>4. PolicyOwed'
    BY DEF PolicyOwed
  <2> QED
    BY <2>1, <2>2, <2>3, <2>4
<1> QED
  BY <1>1, <1>2

\* Kills, calls that raise, make clean and what the services do by themselves.
LEMMA EnvironmentStep ==
    ASSUME IInv,
           \/ \E r \in Runs : die(r) \/ call_raises(r)
           \/ iam_propagates \/ lambda_settles \/ lambda_updates
           \/ make_clean \/ (\E f \in Names : make_clean_file(f)) \/ UNCHANGED vars
    PROVE  IInv'
<1> USE DEF IInv, TypeOK, local, args, files, build_vars, aws, iam, lambda, history
<1>1. ASSUME NEW r \in Runs, die(r) \/ call_raises(r) PROVE IInv'
  <2> USE <1>1 DEF die, call_raises, Goto, Becomes, Abandons
  <2>1. TypeOK'
    BY DEF Ended, BuilderStates
  <2>2. BuildInv'
    BY BuildUnmoved
  <2>3. LambdaInv'
    BY LambdaUnmoved
  <2>4. PolicyOwed'
    BY DEF PolicyOwed
  <2> QED
    BY <2>1, <2>2, <2>3, <2>4
<1>2. CASE make_clean
  BY <1>2 DEF make_clean, clean, BuildInv, Children, OwnFiles, AtWork, DeploysOwnBuild,
     LambdaInv, LastTaken, LastAccepted, WaitsForOwn, PolicyOwed
<1>3. ASSUME NEW f \in Names, make_clean_file(f) PROVE IInv'
  <2> USE <1>3 DEF make_clean_file, clean_file, Write
  <2>1. TypeOK'
    BY DEF Files, AtWork
  <2>2. BuildInv'
    BY DEF BuildInv, Children, OwnFiles, AtWork, DeploysOwnBuild
  <2>3. LambdaInv' /\ PolicyOwed'
    BY DEF LambdaInv, LastTaken, LastAccepted, WaitsForOwn, PolicyOwed
  <2> QED
    BY <2>1, <2>2, <2>3
<1>4. CASE iam_propagates \/ lambda_settles \/ lambda_updates
  <2> USE <1>4 DEF iam_propagates, lambda_settles, lambda_updates
  <2>1. TypeOK'
    <3>1. {role, policy, assumable, abandoned}' \subseteq BOOLEAN
      BY Zenon
    <3> QED
      BY <3>1
  <2>2. BuildInv'
    BY DEF BuildInv, Children, OwnFiles, AtWork, DeploysOwnBuild
  <2>3. LambdaInv' /\ PolicyOwed'
    BY DEF LambdaInv, LastTaken, LastAccepted, WaitsForOwn, PolicyOwed
  <2> QED
    BY <2>1, <2>2, <2>3
<1>5. CASE UNCHANGED vars
  BY <1>5 DEF vars, BuildInv, Children, OwnFiles, AtWork, DeploysOwnBuild,
     LambdaInv, LastTaken, LastAccepted, WaitsForOwn, PolicyOwed
<1> QED
  BY <1>1, <1>2, <1>3, <1>4, <1>5

\* The invariant holds in every state of every behaviour.
THEOREM Invariance == Spec => []IInv
<1>1. IInv /\ [Next]_vars => IInv'
  BY BuildStep, LocalStep, AwsCallStep, EnvironmentStep DEF Next, Step
<1> QED
  BY <1>1, InitIInv, PTL DEF Spec

-----------------------------------------------------------------------------
(* The results.                                                              *)

\* The variables keep their types; in particular no run polls more often than its
\* deadline allows, which is what makes the loops of deploy.py end.
THEOREM TypeCorrectness == Spec => []TypeOK
  BY Invariance, PTL DEF IInv

\* "Deploy complete" (deploy.py:289) is said of an Active function for which Lambda took
\* the package of the run; once the last update is in place, invocations run that package
\* or one taken later, however many runs deploy at the same time, fail or die.
THEOREM CompletionIsTrue == Spec => []CompleteMeansDeployed
<1>1. IInv => CompleteMeansDeployed
  <2> SUFFICES ASSUME IInv, NEW r \in Runs, pc[r] = "complete"
               PROVE  /\ state = "Active" /\ SinceAccepted(r) # {}
                      /\ update = "Successful" => live \in SinceAccepted(r)
    BY DEF CompleteMeansDeployed
  <2> USE DEF IInv, LambdaInv, TypeOK
  <2>1. PICK i \in DOMAIN accepted : accepted[i] = r
    BY DEF WaitsForOwn
  <2>2. Len(accepted) \in DOMAIN accepted /\ i \in 1 .. Len(accepted)
    BY <2>1
  <2>3. package[LastAccepted] \in SinceAccepted(r)
    BY <2>1, <2>2 DEF SinceAccepted, LastAccepted
  <2> QED
    BY <2>2, <2>3 DEF WaitsForOwn, LastTaken
<1> QED
  BY <1>1, Invariance, PTL

\* A run with --build (deploy.py:216-222) packages its own source, whatever failed and
\* killed builds left in target/, unless somebody wrote or removed files there while it
\* was at work: a make clean, or a build.py that outlived its deployment.
THEOREM NoForeignBinary == Spec => []DeploysOwnBuild
  BY Invariance, PTL DEF IInv, BuildInv

\* A role without its policy has a run that is about to attach it (deploy.py:96), however
\* many runs race for the role, unless a run was killed or refused at that call.
THEOREM PolicyIsOwed == Spec => []PolicyOwed
  BY Invariance, PTL DEF IInv
=============================================================================
