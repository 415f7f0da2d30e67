------------------------------- MODULE Deploy -------------------------------
(***************************************************************************)
(* scripts/deploy.py: runs of the script, some at the same time and some    *)
(* after an earlier run died, against the IAM and Lambda services.  IAM is  *)
(* eventually consistent: a role that exists may not yet be assumable.      *)
(* Lambda takes code in and puts it in place later, or fails to.  Each AWS  *)
(* call is one step; a run can die between any two and any of them can      *)
(* raise.  With --build a run has build.py build the binary first, in the   *)
(* target/ that all runs share.                                             *)
(***************************************************************************)
EXTENDS Target, Sequences

CONSTANTS Scenarios,  \* [option, build, faults]: command lines, and what may go wrong
          MaxPolls    \* bound: polls before a deadline of the script

Options == {"role", "create_role", "none"}   \* --role, --create-role or neither
Faults == {"kill", "raise", "clean"}         \* a run is killed, a call raises, make clean

ASSUME DeployAssumption ==
    /\ Scenarios \subseteq [option: [Runs -> Options], build: [Runs -> BOOLEAN], faults: SUBSET Faults]
    /\ MaxPolls \in Nat

VARIABLES
    pc,          \* pc[r]: what run r does next
    option,      \* option[r]: what run r does for a role
    build,       \* build[r]: --build was given
    faults,      \* what may go wrong
    package,     \* package[r]: the binary in zip_bytes
    polls,       \* polls[r]: polls made against the current deadline
    role, policy, assumable,   \* IAM: role exists, has the policy, has propagated
    state,       \* Lambda: State of the function
    update,      \* Lambda: LastUpdateStatus
    live,        \* Lambda: the code that invocations run
    coming,      \* Lambda: the code of the last update
    accepted,    \* history: runs whose package Lambda took, in order
    abandoned,   \* history: a run ended with the role made and its policy not attached
    disturbed    \* history: runs whose files in target/ others wrote or removed meanwhile

args == <<option, build, faults>>
local == <<pc, args, polls, package>>
files == <<build_vars, cleaning>>
iam == <<role, policy, assumable>>
lambda == <<state, update, live, coming, accepted>>
aws == <<iam, lambda>>
history == <<abandoned, disturbed>>
vars == <<local, files, aws, history>>

Ended == {"complete", "failed"}
Goto(r, l) == pc' = [pc EXCEPT ![r] = l]

\* The function is there, with code from before, or not; the role is not.
Init ==
    /\ pc = [r \in Runs |-> "idle"]
    /\ \E s \in Scenarios : option = s.option /\ build = s.build /\ faults = s.faults
    /\ package = [r \in Runs |-> NoCode]
    /\ TargetInit
    /\ polls = [r \in Runs |-> 0]
    /\ role = FALSE /\ policy = FALSE /\ assumable = FALSE
    /\ state \in {"absent", "Active"} /\ update = "Successful"
    /\ live = NoCode /\ coming = NoCode /\ accepted = <<>>
    /\ abandoned = FALSE /\ disturbed = {}

\* The runs that need their files in target/: from the start of build.py until the
\* binary is packaged.
AtWork == {r \in Runs : build[r] /\ pc[r] \in {"build", "built"}}

\* The command line is parsed; --build starts build.py.  Two runs that build at the
\* same time mix their binaries: the developer starts one at a time.
main(r) ==
    /\ pc[r] = "idle"
    /\ build[r] => AtWork = {}
    /\ Goto(r, IF build[r] THEN "build" ELSE "built")
    /\ Becomes(r, IF build[r] THEN "compile" ELSE "off")
    /\ UNCHANGED <<args, polls, package, opened, target, cleaning, aws, history>>

\* A step of build.py, whether or not the run that started it is still there.
build_phase(r) ==
    /\ Build(r)
    /\ disturbed' = disturbed \cup (AtWork \ {r})
    /\ UNCHANGED <<local, aws, abandoned>>

\* subprocess.run returns; a build that fails ends the run.
build_returns(r) ==
    /\ pc[r] = "build" /\ builder[r] \in {"ok", "error"}
    /\ Goto(r, IF builder[r] = "ok" THEN "built" ELSE "failed")
    /\ Becomes(r, "off")
    /\ UNCHANGED <<args, polls, package, opened, target, cleaning, aws, history>>

\* os.path.exists, create_zip: the package is what target/bootstrap holds by now.
create_zip(r) ==
    /\ pc[r] = "built"
    /\ package' = [package EXCEPT ![r] = target["bootstrap"]]
    /\ Goto(r, IF target["bootstrap"] = NoCode THEN "failed"
               ELSE IF option[r] = "create_role" THEN "get_role" ELSE "get_function")
    /\ UNCHANGED <<args, polls, files, aws, history>>

make_clean == "clean" \in faults /\ clean /\ UNCHANGED <<local, aws, history>>

\* A run is disturbed by the removal of a file that is there.
make_clean_file(f) ==
    /\ clean_file(f)
    /\ disturbed' = IF target[f] = NoCode THEN disturbed ELSE disturbed \cup AtWork
    /\ UNCHANGED <<local, aws, abandoned>>

\* ensure_iam_role: an existing role is returned as it is.
get_role(r) ==
    /\ pc[r] = "get_role"
    /\ Goto(r, IF role THEN "get_function" ELSE "create_role")
    /\ UNCHANGED <<args, polls, package, files, aws, history>>

\* Seeded fault: the policy is not attached to a new role.
create_role_without_policy(r) ==
    /\ pc[r] = "create_role"
    /\ role' = TRUE
    /\ Goto(r, IF role THEN "failed" ELSE "get_function")
    /\ UNCHANGED <<args, polls, package, files, policy, assumable, lambda, history>>

\* EntityAlreadyExists, if another run was faster, is raised.
create_role(r) ==
    /\ pc[r] = "create_role"
    /\ role' = TRUE
    /\ Goto(r, IF role THEN "failed" ELSE "attach_role_policy")
    /\ UNCHANGED <<args, polls, package, files, policy, assumable, lambda, history>>

attach_role_policy(r) ==
    /\ pc[r] = "attach_role_policy"
    /\ policy' = TRUE
    /\ Goto(r, "get_function")
    /\ UNCHANGED <<args, polls, package, files, role, assumable, lambda, history>>

\* Without a role only an existing function can be deployed to.
get_function(r) ==
    /\ pc[r] = "get_function"
    /\ Goto(r, IF state # "absent" THEN "update_function_code"
               ELSE IF option[r] = "none" THEN "failed" ELSE "create_function")
    /\ UNCHANGED <<args, polls, package, files, aws, history>>

\* Lambda refuses an update (ResourceConflictException) while the function is created
\* or updated; otherwise it takes the code and puts it in place later.  An update of a
\* function whose creation failed may be taken or refused.
update_function_code(r) ==
    /\ pc[r] = "update_function_code"
    /\ \/ /\ state \in {"Active", "Failed"} /\ update # "InProgress"
          /\ coming' = package[r] /\ update' = "InProgress"
          /\ accepted' = Append(accepted, r)
          /\ Goto(r, "wait")
          /\ polls' = [polls EXCEPT ![r] = 0]
       \/ /\ state # "Active" \/ update = "InProgress"
          /\ Goto(r, "failed")
          /\ UNCHANGED <<polls, coming, update, accepted>>
    /\ UNCHANGED <<args, package, files, iam, state, live, history>>

\* --role names a role that is ready; a created one must have propagated.
Assumable(r) == option[r] = "role" \/ assumable

\* Seeded fault: the retry loop has no deadline.
retry_forever(r, next) ==
    /\ Goto(r, next)
    /\ UNCHANGED polls

\* One turn of a polling loop: again, or sys.exit once the deadline has passed.
retry(r, next) ==
    IF polls[r] < MaxPolls
    THEN Goto(r, next) /\ polls' = [polls EXCEPT ![r] = @ + 1]
    ELSE Goto(r, "failed") /\ UNCHANGED polls

\* Lambda creates the function with the package of r.
Created(r) ==
    /\ state' = "Pending" /\ live' = package[r]
    /\ accepted' = Append(accepted, r)
    /\ Goto(r, "wait")
    /\ polls' = [polls EXCEPT ![r] = 0]

\* Seeded fault: a function that exists by now is waited for as if it were the own one.
create_function_tolerates_conflict(r) ==
    /\ pc[r] = "create_function"
    /\ \/ /\ state # "absent"
          /\ Goto(r, "wait")
          /\ UNCHANGED <<polls, state, live, accepted>>
       \/ state = "absent" /\ Assumable(r) /\ Created(r)
       \/ /\ state = "absent" /\ ~ Assumable(r)
          /\ retry(r, "create_function")
          /\ UNCHANGED <<state, live, accepted>>
    /\ UNCHANGED <<args, package, files, iam, update, coming, history>>

\* wait_for_iam_propagation: create_function, retried while the role cannot be
\* assumed; ResourceConflictException (the function exists by now) is raised.
create_function(r) ==
    /\ pc[r] = "create_function"
    /\ \/ /\ state # "absent"
          /\ Goto(r, "failed")
          /\ UNCHANGED <<polls, state, live, accepted>>
       \/ state = "absent" /\ Assumable(r) /\ Created(r)
       \/ /\ state = "absent" /\ ~ Assumable(r)
          /\ retry(r, "create_function")
          /\ UNCHANGED <<state, live, accepted>>
    /\ UNCHANGED <<args, package, files, iam, update, coming, history>>

\* The State of the function decides; its LastUpdateStatus is not looked at.
wait_for_function_active(r) ==
    /\ pc[r] = "wait"
    /\ \/ state = "Active" /\ Goto(r, "complete") /\ UNCHANGED polls
       \/ state = "Failed" /\ Goto(r, "failed") /\ UNCHANGED polls
       \/ state = "Pending" /\ retry(r, "wait")
    /\ UNCHANGED <<args, package, files, aws, history>>

Abandons(r) == abandoned' = (abandoned \/ pc[r] = "attach_role_policy")

\* deploy.py is killed: alone, and the build.py it started goes on, or with it.
die(r) ==
    /\ "kill" \in faults /\ pc[r] \notin Ended \cup {"idle"}
    /\ Goto(r, "failed")
    /\ UNCHANGED builder \/ Becomes(r, "off")
    /\ Abandons(r)
    /\ UNCHANGED <<args, polls, package, opened, target, cleaning, aws, disturbed>>

\* The AWS call that is due raises: no credentials, no permission, throttled.
call_raises(r) ==
    /\ "raise" \in faults
    /\ pc[r] \in {"get_role", "create_role", "attach_role_policy", "get_function",
                  "update_function_code", "create_function", "wait"}
    /\ Goto(r, "failed")
    /\ Abandons(r)
    /\ UNCHANGED <<args, polls, package, files, aws, disturbed>>

\* IAM makes the role visible to Lambda.
iam_propagates ==
    /\ role /\ ~ assumable
    /\ assumable' = TRUE
    /\ UNCHANGED <<local, files, role, policy, lambda, history>>

\* Lambda finishes creating the function.
lambda_settles ==
    /\ state = "Pending"
    /\ state' \in {"Active", "Failed"}
    /\ UNCHANGED <<local, files, iam, update, live, coming, accepted, history>>

\* Lambda finishes an update: the code is in place, or stays what it was.
lambda_updates ==
    /\ update = "InProgress"
    /\ \/ update' = "Successful" /\ live' = coming /\ state' = "Active"
       \/ update' = "Failed" /\ UNCHANGED <<live, state>>
    /\ UNCHANGED <<local, files, iam, coming, accepted, history>>

Step(r) ==
    \/ main(r) \/ build_phase(r) \/ build_returns(r) \/ create_zip(r)
    \/ get_role(r) \/ create_role(r) \/ attach_role_policy(r)
    \/ get_function(r) \/ update_function_code(r) \/ create_function(r)
    \/ wait_for_function_active(r)

Next ==
    \/ \E r \in Runs : Step(r) \/ die(r) \/ call_raises(r)
    \/ iam_propagates \/ lambda_settles \/ lambda_updates
    \/ make_clean \/ \E f \in Names : make_clean_file(f)

\* A run that is not killed goes on; the AWS services owe the script nothing.
Spec == Init /\ [][Next]_vars /\ \A r \in Runs : WF_vars(Step(r))

-----------------------------------------------------------------------------

\* The values the variables take.
TypeOK ==
    /\ pc \in [Runs -> {"idle", "build", "built", "get_role", "create_role",
                        "attach_role_policy", "get_function", "update_function_code",
                        "create_function", "wait"} \cup Ended]
    /\ option \in [Runs -> Options] /\ build \in [Runs -> BOOLEAN] /\ faults \subseteq Faults
    /\ builder \in [Runs -> BuilderStates] /\ opened \in [Runs -> Files]
    /\ target \in [Names -> Files] /\ cleaning \subseteq Names
    /\ package \in [Runs -> Files]
    /\ polls \in [Runs -> 0 .. MaxPolls]
    /\ {role, policy, assumable, abandoned} \subseteq BOOLEAN
    /\ state \in {"absent", "Pending", "Active", "Failed"}
    /\ update \in {"Successful", "InProgress", "Failed"}
    /\ {live, coming} \subseteq Files
    /\ accepted \in Seq(Runs) /\ disturbed \subseteq Runs

\* The packages Lambda took from run r and from runs after it.
SinceAccepted(r) ==
    {package[accepted[j]] :
        j \in {k \in DOMAIN accepted : \E i \in 1 .. k : accepted[i] = r}}

\* What "Deploy complete" (deploy.py:289) is worth, whatever other runs did in between:
\* the function is Active, Lambda took the package of this run, and unless the last
\* update is under way or failed, invocations run that package or a later one, never
\* one that was there before.
CompleteMeansDeployed ==
    \A r \in Runs : pc[r] = "complete" =>
        /\ state = "Active" /\ SinceAccepted(r) # {}
        /\ update = "Successful" => live \in SinceAccepted(r)

\* "Poll until the function reaches Active state or raises on failure" (deploy.py:153)
\* and "Deploy complete" (deploy.py:289): a run that says so has replaced the code.
CompleteMeansLive ==
    \A r \in Runs : pc[r] = "complete" => live \in SinceAccepted(r)

\* A run with --build deploys its own source: nothing an earlier run left in target/
\* when it failed or was killed gets into its package.  The run is excused if, while it
\* was at work, make clean removed files or an orphaned build.py wrote some.
DeploysOwnBuild ==
    \A r \in Runs : build[r] /\ package[r] # NoCode => package[r] = r \/ r \in disturbed

\* "Build this .pie file first" (deploy.py:189): what a run with --build packages is
\* built from that file, without an excuse.
BuildsFirst ==
    \A r \in Runs : build[r] /\ package[r] # NoCode => package[r] = r

\* Every run ends, whatever IAM and Lambda do: the two polling loops give up.
EveryRunEnds == \A r \in Runs : <>(pc[r] \in Ended)

\* A role the script made gets its policy, also when several runs race for it, unless
\* a run was killed before, or refused by, the very call that attaches it.
PolicyFollowsRole == []((role /\ [](~ abandoned)) => <>policy)

\* "Create or retrieve an IAM role suitable for Lambda execution" (deploy.py:71): after
\* a deployment with --create-role the role has the policy, or a run is attaching it.
EnsuredRoleHasPolicy ==
    \A r \in Runs : pc[r] = "complete" /\ option[r] = "create_role" =>
        policy \/ \E q \in Runs : pc[q] = "attach_role_policy"
=============================================================================
