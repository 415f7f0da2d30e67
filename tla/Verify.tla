------------------------------- MODULE Verify -------------------------------
(***************************************************************************)
(* scripts/package.py, verify.py and invoke.py and the make targets around  *)
(* them.  Terminals run them one after the other, for ever, and share       *)
(* target/, a localstack container and the function lambpie-echo-test in    *)
(* it.  A run may be killed between any two steps and leaves behind what it *)
(* had made; a package may be rebuilt, localstack stopped and invoke.py     *)
(* called while a verification is on its way.  Localstack takes one         *)
(* verification at a time, the developer starts one build at a time.        *)
(* The content of a file is what the binary in it does with the test event. *)
(***************************************************************************)
EXTENDS Integers, FiniteSets

CONSTANTS Terminals,  \* each has one run at a time
          Behaviours, \* of binaries: "echo", "wrong" (other JSON, or none), "crash"
          NoCode,     \* no such file
          Partial,    \* a file its writer has not finished, or never did
          MaxPolls    \* bound: LOCALSTACK_READY_MAX_RETRIES, and polls before the deadline for Active

ASSUME VerifyAssumption ==
    /\ MaxPolls \in Nat
    /\ {"echo", "crash"} \subseteq Behaviours
    /\ {NoCode, Partial} \cap Behaviours = {} /\ NoCode # Partial

VARIABLES
    run,             \* run[t]: the process of terminal t, and how its last one ended
    bootstrap, zip,  \* target/bootstrap, target/function.zip
    localstack,      \* "down" or "ready"; one that is starting is down to its clients
    state, code      \* the function: State, and the binary in it

files == <<bootstrap, zip>>
service == <<localstack, state, code>>
vars == <<run, files, service>>

Commands == {"make verify", "make package", "package.py", "verify.py", "invoke.py"}
Builders == {"make verify", "make package", "package.py"}
Verifiers == {"make verify", "verify.py"}

\* How a run ends: exit code 0 is "ok"; the others tell an exit of the script's own
\* ("failed") from one that docker or localstack ("service") or a signal forced on it.
Outcomes == {"running", "ok", "failed", "service", "killed"}

Process(command, l) ==
    [command |-> command, pc |-> l, zip_bytes |-> NoCode, polls |-> 0, answer |-> "none",
     outcome |-> "running"]

At(t, l) == run[t].pc = l
Goto(t, l) == run' = [run EXCEPT ![t].pc = l]

BuildSteps == {"build", "export", "exists_bootstrap", "packaging"}

\* The process is gone and its variables with it.  In make verify, docker compose
\* down follows verify.py, whatever its exit code.
Exit(t, outcome) ==
    run' = [run EXCEPT ![t] =
               IF @.command = "make verify" /\ @.pc \notin BuildSteps \cup {"up"}
               THEN [Process("make verify", "teardown") EXCEPT !.outcome = outcome]
               ELSE [Process("none", "ended") EXCEPT !.outcome = outcome]]

Init ==
    /\ run = [t \in Terminals |-> Process("none", "ended")]
    /\ bootstrap = NoCode /\ zip = NoCode
    /\ localstack = "down" /\ state = "absent" /\ code = NoCode

start(t, command) ==
    /\ At(t, "ended")
    /\ \A kind \in {Builders, Verifiers} :
           command \in kind => \A u \in Terminals : run[u].command \notin kind
    /\ run' = [run EXCEPT ![t] = Process(command,
                   CASE command \in {"make verify", "make package"} -> "build"
                     [] command = "package.py" -> "exists_bootstrap"
                     [] command = "verify.py" -> "exists_zip"
                     [] command = "invoke.py" -> "payload")]
    /\ UNCHANGED <<files, service>>

-----------------------------------------------------------------------------
(* make build, make package, docker compose up.                              *)

\* docker build -o target: builds, then writes target/bootstrap.
docker_build(t) ==
    /\ At(t, "build")
    /\ \/ Exit(t, "service") /\ UNCHANGED bootstrap
       \/ Goto(t, "export") /\ bootstrap' = Partial
    /\ UNCHANGED <<zip, service>>

docker_export(t) ==
    /\ At(t, "export")
    /\ bootstrap' \in Behaviours
    /\ Goto(t, "exists_bootstrap")
    /\ UNCHANGED <<zip, service>>

\* package.py: os.path.exists, then ZipFile(output, 'w') truncates the archive.
package_open(t) ==
    /\ At(t, "exists_bootstrap")
    /\ IF bootstrap = NoCode
       THEN Exit(t, "failed") /\ UNCHANGED zip
       ELSE Goto(t, "packaging") /\ zip' = Partial
    /\ UNCHANGED <<bootstrap, service>>

\* The binary is read and written into the archive, which is closed.  The archive
\* of a binary that was cut off is sound, the binary in it does not run.
package_close(t) ==
    /\ At(t, "packaging")
    /\ zip' = IF bootstrap = Partial THEN "crash" ELSE bootstrap
    /\ IF run[t].command = "make verify" THEN Goto(t, "up") ELSE Exit(t, "ok")
    /\ UNCHANGED <<bootstrap, service>>

\* docker compose up -d --wait localstack.  If it fails, make stops and takes nothing down.
compose_up(t) ==
    /\ At(t, "up")
    /\ \/ localstack' = "ready" /\ Goto(t, "exists_zip")
       \/ localstack' \in {localstack, "ready"} /\ Exit(t, "service")
    /\ UNCHANGED <<files, state, code>>

-----------------------------------------------------------------------------
(* verify.py.                                                                *)

exists_zip(t) ==
    /\ At(t, "exists_zip")
    /\ IF zip = NoCode THEN Exit(t, "failed") ELSE Goto(t, "wait_for_localstack")
    /\ UNCHANGED <<files, service>>

\* Seeded fault: the loop does not count its turns.
poll_forever(t) == UNCHANGED run

\* One more turn of a polling loop, or the end of the script when they are used up.
poll(t) ==
    IF run[t].polls < MaxPolls THEN run' = [run EXCEPT ![t].polls = @ + 1]
    ELSE Exit(t, "service")

wait_for_localstack(t) ==
    /\ At(t, "wait_for_localstack")
    /\ IF localstack = "ready"
       THEN run' = [run EXCEPT ![t].pc = "open_zip", ![t].polls = 0]
       ELSE poll(t)
    /\ UNCHANGED <<files, service>>

\* The package is read after the wait: it need not be the one exists_zip saw.
open_zip(t) ==
    /\ At(t, "open_zip")
    /\ IF zip = NoCode THEN Exit(t, "failed")
       ELSE run' = [run EXCEPT ![t].pc = "delete_function", ![t].zip_bytes = zip]
    /\ UNCHANGED <<files, service>>

\* A call to a localstack that is not there raises.
Refused(t) == localstack = "down" /\ Exit(t, "service") /\ UNCHANGED service

\* Seeded fault: the leftover of an earlier run is not deleted.
delete_function_skipped(t) ==
    /\ At(t, "delete_function")
    /\ Goto(t, "create_function")
    /\ UNCHANGED <<files, service>>

\* Seeded fault: a function that exists already is used instead of being deleted.
delete_function_keeps(t) ==
    /\ At(t, "delete_function")
    /\ \/ Refused(t)
       \/ /\ localstack = "ready"
          /\ Goto(t, IF state = "absent" THEN "create_function" ELSE "wait_for_function_active")
          /\ UNCHANGED service
    /\ UNCHANGED files

\* ResourceNotFoundException is fine.
delete_function(t) ==
    /\ At(t, "delete_function")
    /\ \/ Refused(t)
       \/ /\ localstack = "ready"
          /\ state' = "absent" /\ code' = NoCode
          /\ Goto(t, "create_function")
          /\ UNCHANGED localstack
    /\ UNCHANGED files

\* A broken archive or an existing function raises.
create_function(t) ==
    /\ At(t, "create_function")
    /\ \/ Refused(t)
       \/ /\ localstack = "ready"
          /\ IF state # "absent" \/ run[t].zip_bytes = Partial
             THEN Exit(t, "failed") /\ UNCHANGED <<state, code>>
             ELSE /\ state' = "Pending" /\ code' = run[t].zip_bytes
                  /\ Goto(t, "wait_for_function_active")
          /\ UNCHANGED localstack
    /\ UNCHANGED files

\* get_function also raises when the function has gone with a restarted localstack.
wait_for_function_active(t) ==
    /\ At(t, "wait_for_function_active")
    /\ \/ Refused(t)
       \/ /\ localstack = "ready"
          /\ CASE state = "Active" -> Goto(t, "invoke")
               [] state \in {"Failed", "absent"} -> Exit(t, "service")
               [] state = "Pending" -> poll(t)
          /\ UNCHANGED service
    /\ UNCHANGED files

\* client.invoke, by verify.py and by invoke.py.  A function that is not Active
\* raises; a healthy binary may also run out of its time (FunctionError).
invoke(t) ==
    /\ At(t, "invoke")
    /\ IF localstack = "ready" /\ state = "Active"
       THEN \E answer \in {code, "timeout"} :
                run' = [run EXCEPT ![t].pc = "check", ![t].answer = answer]
       ELSE Exit(t, "service")
    /\ UNCHANGED <<files, service>>

\* verify.py: FunctionError, then JSON and equality with EXPECTED_RESPONSE.
check_response(t) ==
    /\ At(t, "check") /\ run[t].command # "invoke.py"
    /\ CASE run[t].answer = "timeout" -> Exit(t, "service")
         [] run[t].answer = "echo" -> Goto(t, "cleanup")
         [] OTHER -> Exit(t, "failed")
    /\ UNCHANGED <<files, service>>

\* invoke.py: the answer is printed; only FunctionError makes the exit code 1.
print_response(t) ==
    /\ At(t, "check") /\ run[t].command = "invoke.py"
    /\ CASE run[t].answer = "timeout" -> Exit(t, "service")
         [] run[t].answer = "crash" -> Exit(t, "failed")
         [] OTHER -> Exit(t, "ok")
    /\ UNCHANGED <<files, service>>

\* After PASS the function is deleted; an error of that is only a warning.
cleanup(t) ==
    /\ At(t, "cleanup")
    /\ \/ localstack = "ready" /\ state' = "absent" /\ code' = NoCode
       \/ UNCHANGED <<state, code>>
    /\ Exit(t, "ok")
    /\ UNCHANGED <<files, localstack>>

\* Seeded fault: docker compose down only after a success.
compose_down_on_success(t) ==
    /\ At(t, "teardown")
    /\ IF run[t].outcome = "ok" THEN localstack' = "down" /\ state' = "absent" /\ code' = NoCode
       ELSE UNCHANGED service
    /\ run' = [run EXCEPT ![t].pc = "ended", ![t].command = "none"]
    /\ UNCHANGED files

\* docker compose down in make verify: localstack keeps nothing.
compose_down(t) ==
    /\ At(t, "teardown")
    /\ localstack' = "down" /\ state' = "absent" /\ code' = NoCode
    /\ run' = [run EXCEPT ![t].pc = "ended", ![t].command = "none"]
    /\ UNCHANGED files

\* invoke.py: json.loads of --payload, then the client and its arguments.
parse_payload(t) ==
    /\ At(t, "payload")
    /\ Goto(t, "invoke") \/ Exit(t, "failed")
    /\ UNCHANGED <<files, service>>

-----------------------------------------------------------------------------
(* The surroundings.                                                         *)

\* SIGINT, SIGKILL, a lost terminal: no handler runs.
kill(t) ==
    /\ ~ At(t, "ended")
    /\ run' = [run EXCEPT ![t] = [Process("none", "ended") EXCEPT !.outcome = "killed"]]
    /\ UNCHANGED <<files, service>>

\* A developer starts localstack, for verify.py without make; it becomes ready.
localstack_starts ==
    /\ localstack = "down"
    /\ localstack' = "ready"
    /\ UNCHANGED <<run, files, state, code>>

localstack_creates ==
    /\ state = "Pending"
    /\ state' \in {"Active", "Failed"}
    /\ UNCHANGED <<run, files, localstack, code>>

\* make clean, not during a build.
clean ==
    /\ zip # NoCode \/ bootstrap # NoCode
    /\ \A t \in Terminals : run[t].pc \notin BuildSteps
    /\ bootstrap' = NoCode /\ zip' = NoCode
    /\ localstack' = "down" /\ state' = "absent" /\ code' = NoCode
    /\ UNCHANGED run

Step(t) ==
    \/ docker_build(t) \/ docker_export(t) \/ package_open(t) \/ package_close(t)
    \/ compose_up(t) \/ exists_zip(t) \/ wait_for_localstack(t) \/ open_zip(t)
    \/ delete_function(t) \/ create_function(t) \/ wait_for_function_active(t)
    \/ invoke(t) \/ check_response(t) \/ print_response(t) \/ cleanup(t) \/ compose_down(t) \/ parse_payload(t)

Next ==
    \/ \E t \in Terminals : Step(t) \/ kill(t) \/ (\E command \in Commands : start(t, command))
    \/ localstack_starts \/ localstack_creates \/ clean

\* The scripts run on; localstack owes them nothing.
Spec == Init /\ [][Next]_vars /\ \A t \in Terminals : WF_vars(Step(t))

-----------------------------------------------------------------------------

Code == Behaviours \cup {NoCode, Partial}

Labels == BuildSteps \cup
    {"ended", "up", "exists_zip", "wait_for_localstack", "open_zip", "delete_function",
     "create_function", "wait_for_function_active", "invoke", "check", "cleanup", "teardown",
     "payload"}

Processes == [command: Commands \cup {"none"}, pc: Labels, zip_bytes: Code, polls: 0 .. MaxPolls,
              answer: Behaviours \cup {"none", "timeout"}, outcome: Outcomes]

\* The values the variables take.
TypeOK ==
    /\ run \in [Terminals -> Processes]
    /\ {bootstrap, zip, code} \subseteq Code
    /\ localstack \in {"down", "ready"} /\ state \in {"absent", "Pending", "Active", "Failed"}
    /\ state # "absent" => code \in Behaviours

Ends(t, outcome) == run[t].outcome = "running" /\ run'[t].outcome = outcome

(* Exit code 0 of verify.py, or of make verify, says that the binary in the  *)
(* package this run read echoes the test event: not a function a killed run  *)
(* left in localstack, nor a package that was being rewritten.  Exit code 0  *)
(* of invoke.py says that the function answered and did not fail.            *)
Genuine(t) ==
    Ends(t, "ok") =>
        /\ run[t].command \in Verifiers => run[t].zip_bytes = "echo"
        /\ run[t].command = "invoke.py" => run[t].answer \in Behaviours \ {"crash"}
SuccessIsGenuine == [][\A t \in Terminals : Genuine(t)]_vars

(* A verification of a finished package whose binary echoes does not fail    *)
(* by itself: whatever earlier runs left in target/ and in localstack, only  *)
(* a signal, docker or localstack can keep it from PASS.                     *)
Harmless(t) ==
    Ends(t, "failed") /\ run[t].command \in Verifiers => run[t].zip_bytes # "echo"
LeftoversAreHarmless == [][\A t \in Terminals : Harmless(t)]_vars

\* Every run ends, whatever localstack does: both polling loops give up.
EveryRunEnds == \A t \in Terminals : ~ At(t, "ended") ~> At(t, "ended")

\* make verify takes localstack down also when the verification fails, unless killed.
LocalstackTornDown ==
    \A t \in Terminals : (run[t].command = "make verify" /\ At(t, "exists_zip"))
                             ~> (localstack = "down" \/ run[t].outcome = "killed")
=============================================================================
