---------------------------- MODULE VerifyProofs ----------------------------
(***************************************************************************)
(* Proofs about Verify: any number of terminals, any set of binaries, runs  *)
(* without end, each killed at any point.                                   *)
(***************************************************************************)
EXTENDS Verify, TLAPS

-----------------------------------------------------------------------------
(* The inductive invariant.                                                  *)

VerifySteps == {"exists_zip", "wait_for_localstack", "open_zip", "delete_function",
                "create_function", "wait_for_function_active", "cleanup"}

BeforeRead == BuildSteps \cup {"up", "exists_zip", "wait_for_localstack", "open_zip"}

\* Which commands come by a step.
Control(p) ==
    /\ p.pc \in BuildSteps => p.command \in Builders
    /\ p.pc \in {"up", "teardown"} => p.command = "make verify"
    /\ p.pc \in VerifySteps => p.command \in Verifiers
    /\ p.pc \in {"invoke", "check"} => p.command \in Verifiers \cup {"invoke.py"}
    /\ p.pc = "payload" => p.command = "invoke.py"

\* What the script has in hand: the package once it is read, then the answer.
InHand(p) ==
    /\ p.pc \in BeforeRead => p.zip_bytes = NoCode
    /\ p.pc \in {"delete_function", "create_function"} => p.zip_bytes # NoCode
    /\ p.pc = "check" => p.answer \in Behaviours \cup {"timeout"}

\* What a verification tests is the package it has read.
TestsOwn(p) ==
    /\ p.pc = "create_function" => state = "absent"
    /\ p.pc \in {"wait_for_function_active", "invoke"} /\ p.command \in Verifiers
           => state = "absent" \/ code = p.zip_bytes
    /\ p.pc = "check" /\ p.command \in Verifiers => p.answer \in {p.zip_bytes, "timeout"}
    /\ p.pc = "cleanup" => p.zip_bytes = "echo"

OneVerifier ==
    \A t, u \in Terminals : run[t].command \in Verifiers /\ run[u].command \in Verifiers => t = u

IInv ==
    /\ TypeOK /\ OneVerifier
    /\ \A t \in Terminals : Control(run[t]) /\ InHand(run[t]) /\ TestsOwn(run[t])
-----------------------------------------------------------------------------
(* What a step of one terminal has to keep.                                  *)

\* Only terminal t moves.
Alone(t) ==
    /\ run' \in [Terminals -> Processes]
    /\ \A u \in Terminals : u # t => run'[u] = run[u]

LEMMA GotoFacts ==
    ASSUME TypeOK, NEW t \in Terminals, NEW l \in Labels, Goto(t, l)
    PROVE  Alone(t) /\ run'[t] = [run[t] EXCEPT !.pc = l]
  BY DEF TypeOK, Goto, Alone, Processes

LEMMA NewProcess ==
    ASSUME NEW command \in Commands \cup {"none"}, NEW l \in Labels, NEW outcome \in Outcomes
    PROVE  /\ Process(command, l) \in Processes
           /\ [Process(command, l) EXCEPT !.outcome = outcome] \in Processes
  BY VerifyAssumption DEF Process, Processes, Code, Outcomes

\* An exit leaves nothing in hand, and of the commands only make verify goes on, to
\* docker compose down.
LEMMA ExitFacts ==
    ASSUME TypeOK, NEW t \in Terminals, NEW outcome \in Outcomes, Exit(t, outcome)
    PROVE  /\ Alone(t)
           /\ run'[t].outcome = outcome
           /\ \/ run'[t].pc = "teardown" /\ run'[t].command = "make verify"
                 /\ run[t].command = "make verify"
              \/ run'[t].pc = "ended" /\ run'[t].command = "none"
<1> DEFINE down == [Process("make verify", "teardown") EXCEPT !.outcome = outcome]
           gone == [Process("none", "ended") EXCEPT !.outcome = outcome]
<1>1. down \in Processes /\ gone \in Processes
  BY NewProcess DEF Commands, Labels
<1>2. /\ down.outcome = outcome /\ down.pc = "teardown" /\ down.command = "make verify"
      /\ gone.outcome = outcome /\ gone.pc = "ended" /\ gone.command = "none"
  BY DEF Process
<1>3. run' = [run EXCEPT ![t] = IF run[t].command = "make verify" /\ run[t].pc \notin BuildSteps \cup {"up"}
                                THEN down ELSE gone]
  BY DEF Exit
<1> HIDE DEF down, gone
<1> QED
  BY <1>1, <1>2, <1>3 DEF TypeOK, Alone

\* The rest of the invariant follows when only t moves and its new process is in order,
\* if the function in localstack is left alone, deleted, or changed by the verification.
LEMMA OneTerminalMoves ==
    ASSUME IInv, NEW t \in Terminals, Alone(t),
           Control(run[t])', InHand(run[t])', TestsOwn(run[t])',
           run'[t].command \in Verifiers => run[t].command \in Verifiers,
           {bootstrap, zip, code}' \subseteq Code,
           localstack' \in {"down", "ready"},
           state' \in {"absent", "Pending", "Active", "Failed"},
           state' # "absent" => code' \in Behaviours,
           UNCHANGED <<state, code>> \/ state' = "absent" \/ run[t].command \in Verifiers
    PROVE  IInv'
<1> USE DEF IInv, Alone
<1>1. TypeOK'
  BY DEF TypeOK
<1>2. OneVerifier'
  BY DEF OneVerifier
<1>3. ASSUME NEW u \in Terminals, u # t
      PROVE  Control(run[u])' /\ InHand(run[u])' /\ TestsOwn(run[u])'
  <2>1. run'[u] = run[u]
    BY <1>3
  <2>2. Control(run[u])' /\ InHand(run[u])'
    BY <2>1 DEF Control, InHand
  <2>3. CASE UNCHANGED <<state, code>> \/ state' = "absent"
    BY <2>1, <2>3 DEF TestsOwn
  <2>4. CASE run[t].command \in Verifiers
    <3>1. run[u].command \notin Verifiers
      BY <1>3, <2>4 DEF OneVerifier
    <3>2. run[u].pc \notin {"create_function", "cleanup"}
      BY <3>1 DEF Control, VerifySteps
    <3> QED
      BY <2>1, <3>1, <3>2 DEF TestsOwn
  <2> QED
    BY <2>2, <2>3, <2>4
<1> QED
  BY <1>1, <1>2, <1>3

\* An exit that leaves the function alone or deletes it keeps the invariant.
LEMMA ExitKeeps ==
    ASSUME IInv, NEW t \in Terminals, NEW outcome \in Outcomes, Exit(t, outcome),
           {bootstrap, zip}' \subseteq Code,
           localstack' \in {"down", "ready"},
           UNCHANGED <<state, code>> \/ (state' = "absent" /\ code' = NoCode)
    PROVE  IInv'
<1>1. /\ Alone(t)
      /\ \/ run'[t].pc = "teardown" /\ run'[t].command = "make verify"
            /\ run[t].command = "make verify"
         \/ run'[t].pc = "ended" /\ run'[t].command = "none"
  BY ExitFacts DEF IInv
<1>2. Control(run[t])'
  BY <1>1 DEF Control, BuildSteps, VerifySteps, Verifiers
<1>3. InHand(run[t])' /\ TestsOwn(run[t])'
  BY <1>1 DEF InHand, TestsOwn, BeforeRead, BuildSteps
<1>4. run'[t].command \in Verifiers => run[t].command \in Verifiers
  BY <1>1 DEF Verifiers
<1>5. {bootstrap, zip, code}' \subseteq Code /\ state' \in {"absent", "Pending", "Active", "Failed"}
      /\ (state' # "absent" => code' \in Behaviours)
  BY DEF IInv, TypeOK, Code
<1> QED
  BY <1>1, <1>2, <1>3, <1>4, <1>5, OneTerminalMoves

\* A step to another label: command, package, answer and outcome stay.
LEMMA GotoFields ==
    ASSUME TypeOK, NEW t \in Terminals, NEW l \in Labels, Goto(t, l)
    PROVE  /\ Alone(t)
           /\ run'[t].pc = l /\ run'[t].command = run[t].command
           /\ run'[t].zip_bytes = run[t].zip_bytes /\ run'[t].answer = run[t].answer
           /\ run'[t].outcome = run[t].outcome
<1>1. Alone(t) /\ run'[t] = [run[t] EXCEPT !.pc = l]
  BY GotoFacts, Zenon
<1>2. run[t] \in Processes
  BY DEF TypeOK
<1> QED
  BY <1>1, <1>2 DEF Processes

-----------------------------------------------------------------------------
(* Every step keeps the invariant.                                           *)

LEMMA InitIInv == Init => IInv
<1> SUFFICES ASSUME Init PROVE IInv
  OBVIOUS
<1>1. Process("none", "ended") \in Processes
  BY NewProcess DEF Labels, Outcomes
<1>2. \A t \in Terminals : run[t].command = "none" /\ run[t].pc = "ended"
  BY DEF Init, Process
<1>3. TypeOK
  BY <1>1 DEF Init, TypeOK, Code
<1>4. OneVerifier
  BY <1>2 DEF OneVerifier, Verifiers
<1>5. \A t \in Terminals : Control(run[t]) /\ InHand(run[t]) /\ TestsOwn(run[t])
  BY <1>2 DEF Control, InHand, TestsOwn, BuildSteps, VerifySteps, BeforeRead
<1> QED
  BY <1>3, <1>4, <1>5 DEF IInv

\* A new process: at most one verification is under way, and it has read nothing yet.
LEMMA StartStep ==
    ASSUME IInv, NEW t \in Terminals, NEW command \in Commands, start(t, command)
    PROVE  IInv'
<1> DEFINE l == CASE command \in {"make verify", "make package"} -> "build"
                  [] command = "package.py" -> "exists_bootstrap"
                  [] command = "verify.py" -> "exists_zip"
                  [] command = "invoke.py" -> "payload"
<1>1. /\ l \in Labels
      /\ command \in Builders => l \in BuildSteps
      /\ command = "verify.py" => l = "exists_zip"
      /\ command = "invoke.py" => l = "payload"
  BY DEF Commands, Builders, Labels, BuildSteps
<1>2. run' = [run EXCEPT ![t] = Process(command, l)] /\ UNCHANGED <<files, service>>
  BY DEF start
<1> HIDE DEF l
<1>3. /\ Process(command, l) \in Processes
      /\ Process(command, l).command = command /\ Process(command, l).pc = l
      /\ Process(command, l).zip_bytes = NoCode
  BY <1>1, NewProcess DEF Process, Outcomes
<1>4. Alone(t) /\ run'[t].command = command /\ run'[t].pc = l /\ run'[t].zip_bytes = NoCode
  BY <1>2, <1>3 DEF IInv, TypeOK, Alone
<1>5. TypeOK'
  BY <1>2, <1>4 DEF IInv, TypeOK, Alone, files, service
<1>6. OneVerifier'
  BY <1>4 DEF IInv, OneVerifier, start, Alone
<1>7. \A u \in Terminals : u # t => Control(run[u])' /\ InHand(run[u])' /\ TestsOwn(run[u])'
  BY <1>2, <1>4 DEF IInv, Alone, Control, InHand, TestsOwn, service
<1>8. Control(run[t])' /\ InHand(run[t])' /\ TestsOwn(run[t])'
  BY <1>1, <1>4 DEF Control, InHand, TestsOwn, Commands, Builders, Verifiers, BuildSteps,
     VerifySteps, BeforeRead
<1> QED
  BY <1>5, <1>6, <1>7, <1>8 DEF IInv

\* Building and packaging: no package is in hand and the function is left alone.
LEMMA PackageStep ==
    ASSUME IInv, NEW t \in Terminals,
           \/ docker_build(t) \/ docker_export(t) \/ package_open(t) \/ package_close(t)
           \/ compose_up(t)
    PROVE  IInv'
<1>1. /\ {bootstrap, zip}' \subseteq Code /\ localstack' \in {"down", "ready"}
      /\ UNCHANGED <<state, code>>
  BY VerifyAssumption DEF IInv, TypeOK, docker_build, docker_export, package_open, package_close,
     compose_up, files, service, Code
<1>2. /\ Control(run[t]) /\ InHand(run[t])
      /\ run[t].pc \in BuildSteps \cup {"up"}
  BY DEF IInv, At, BuildSteps, docker_build, docker_export, package_open, package_close, compose_up
<1>3. ASSUME NEW outcome \in Outcomes, Exit(t, outcome) PROVE IInv'
  BY <1>1, <1>3, ExitKeeps
<1>4. ASSUME NEW l \in {"export", "exists_bootstrap", "packaging", "up", "exists_zip"}, Goto(t, l),
             l \in BuildSteps => run[t].pc \in BuildSteps,
             l \in {"up", "exists_zip"} => run[t].command = "make verify"
      PROVE  IInv'
  <2>1. /\ Alone(t) /\ run'[t].pc = l /\ run'[t].command = run[t].command
        /\ run'[t].zip_bytes = run[t].zip_bytes
    BY <1>4, GotoFields DEF IInv, Labels, BuildSteps
  <2>2. Control(run[t])'
    BY <1>2, <1>4, <2>1 DEF Control, BuildSteps, VerifySteps, Verifiers
  <2>3. InHand(run[t])' /\ TestsOwn(run[t])'
    BY <1>2, <1>4, <2>1 DEF InHand, TestsOwn, BeforeRead, BuildSteps
  <2> QED
    BY <1>1, <2>1, <2>2, <2>3, OneTerminalMoves DEF IInv, TypeOK
<1>5. CASE docker_build(t) \/ docker_export(t) \/ package_open(t)
  BY <1>3, <1>4, <1>5 DEF docker_build, docker_export, package_open, At, BuildSteps, Outcomes
<1>6. CASE package_close(t) \/ compose_up(t)
  BY <1>2, <1>3, <1>4, <1>6 DEF package_close, compose_up, At, BuildSteps, Outcomes, Control
<1> QED
  BY <1>5, <1>6

\* A step within one terminal that touches neither files nor services.
LEMMA QuietMove ==
    ASSUME IInv, NEW t \in Terminals, Alone(t), UNCHANGED <<files, service>>,
           run'[t].command = run[t].command,
           Control(run[t])', InHand(run[t])', TestsOwn(run[t])'
    PROVE  IInv'
  BY OneTerminalMoves DEF IInv, TypeOK, files, service

LEMMA QuietExit ==
    ASSUME IInv, NEW t \in Terminals, NEW outcome \in Outcomes, Exit(t, outcome),
           UNCHANGED <<files, service>>
    PROVE  IInv'
  BY ExitKeeps DEF IInv, TypeOK, files, service

LEMMA PollStep ==
    ASSUME IInv, NEW t \in Terminals, poll(t), UNCHANGED <<files, service>>
    PROVE  IInv'
<1>1. CASE run[t].polls < MaxPolls
  <2>1. run' = [run EXCEPT ![t].polls = @ + 1]
    BY <1>1 DEF poll
  <2>2. run[t].polls + 1 \in 0 .. MaxPolls
    BY <1>1, VerifyAssumption DEF IInv, TypeOK, Processes
  <2>3. /\ Alone(t)
        /\ run'[t].pc = run[t].pc /\ run'[t].command = run[t].command
        /\ run'[t].zip_bytes = run[t].zip_bytes /\ run'[t].answer = run[t].answer
    BY <2>1, <2>2 DEF IInv, TypeOK, Processes, Alone
  <2>4. Control(run[t])' /\ InHand(run[t])' /\ TestsOwn(run[t])'
    BY <2>3 DEF IInv, Control, InHand, TestsOwn, service
  <2> QED
    BY <2>3, <2>4, QuietMove
<1>2. CASE ~ (run[t].polls < MaxPolls)
  BY <1>2, QuietExit DEF poll, Outcomes
<1> QED
  BY <1>1, <1>2

\* verify.py up to the package it has read.
LEMMA ReadStep ==
    ASSUME IInv, NEW t \in Terminals, exists_zip(t) \/ wait_for_localstack(t) \/ open_zip(t)
    PROVE  IInv'
<1>1. /\ UNCHANGED <<files, service>> /\ Control(run[t]) /\ InHand(run[t])
      /\ run[t].pc \in VerifySteps /\ run[t].zip_bytes = NoCode
  BY DEF exists_zip, wait_for_localstack, open_zip, IInv, At, InHand, BeforeRead, VerifySteps
<1>2. run[t].command \in Verifiers
  BY <1>1 DEF Control
<1>3. CASE exists_zip(t)
  <2>1. CASE Goto(t, "wait_for_localstack")
    <3>1. /\ Alone(t) /\ run'[t].pc = "wait_for_localstack"
          /\ run'[t].command = run[t].command /\ run'[t].zip_bytes = run[t].zip_bytes
      BY <2>1, GotoFields DEF IInv, Labels
    <3>2. Control(run[t])' /\ InHand(run[t])' /\ TestsOwn(run[t])'
      BY <1>1, <1>2, <3>1 DEF Control, InHand, TestsOwn, BuildSteps
    <3> QED
      BY <1>1, <3>1, <3>2, QuietMove
  <2> QED
    BY <1>1, <1>3, <2>1, QuietExit DEF exists_zip, Outcomes
<1>4. CASE wait_for_localstack(t)
  <2>1. CASE run' = [run EXCEPT ![t].pc = "open_zip", ![t].polls = 0]
    <3>1. /\ Alone(t) /\ run'[t].pc = "open_zip"
          /\ run'[t].command = run[t].command /\ run'[t].zip_bytes = run[t].zip_bytes
      <4>1. 0 \in 0 .. MaxPolls /\ "open_zip" \in Labels
        BY VerifyAssumption DEF Labels
      <4>2. run' = [run EXCEPT ![t] = [run[t] EXCEPT !.pc = "open_zip", !.polls = 0]]
        BY <2>1
      <4> QED
        BY <4>1, <4>2 DEF IInv, TypeOK, Processes, Alone
    <3>2. Control(run[t])' /\ InHand(run[t])' /\ TestsOwn(run[t])'
      BY <1>1, <1>2, <3>1 DEF Control, InHand, TestsOwn, BuildSteps
    <3> QED
      BY <1>1, <3>1, <3>2, QuietMove
  <2> QED
    BY <1>1, <1>4, <2>1, PollStep DEF wait_for_localstack
<1>5. CASE open_zip(t)
  <2>1. CASE zip # NoCode
    <3>1. run' = [run EXCEPT ![t].pc = "delete_function", ![t].zip_bytes = zip]
      BY <1>5, <2>1 DEF open_zip
    <3>2. /\ Alone(t) /\ run'[t].pc = "delete_function"
          /\ run'[t].command = run[t].command /\ run'[t].zip_bytes = zip
      BY <3>1, ZenonT(40) DEF IInv, TypeOK, Processes, Alone, Labels
    <3>3. Control(run[t])' /\ InHand(run[t])' /\ TestsOwn(run[t])'
      BY <1>2, <2>1, <3>2 DEF Control, InHand, TestsOwn, BuildSteps, BeforeRead
    <3> QED
      BY <1>1, <3>2, <3>3, QuietMove
  <2> QED
    BY <1>1, <1>5, <2>1, QuietExit DEF open_zip, Outcomes
<1> QED
  BY <1>3, <1>4, <1>5

\* The function is deleted and made from the package in hand.
LEMMA CreateStep ==
    ASSUME IInv, NEW t \in Terminals, delete_function(t) \/ create_function(t)
    PROVE  IInv'
<1>1. /\ UNCHANGED files /\ Control(run[t]) /\ InHand(run[t]) /\ run[t].zip_bytes # NoCode
      /\ run[t].pc \in {"delete_function", "create_function"}
      /\ run[t].command \in Verifiers
  BY DEF delete_function, create_function, IInv, At, InHand, Control, VerifySteps
<1>2. CASE Refused(t)
  BY <1>1, <1>2, QuietExit DEF Refused, Outcomes
<1>3. CASE delete_function(t) /\ ~ Refused(t)
  <2>1. /\ state' = "absent" /\ code' = NoCode /\ UNCHANGED localstack
        /\ Goto(t, "create_function")
    BY <1>3 DEF delete_function
  <2>2. /\ Alone(t) /\ run'[t].pc = "create_function"
        /\ run'[t].command = run[t].command /\ run'[t].zip_bytes = run[t].zip_bytes
    BY <2>1, GotoFields DEF IInv, Labels
  <2>3. Control(run[t])' /\ InHand(run[t])' /\ TestsOwn(run[t])'
    BY <1>1, <2>1, <2>2 DEF Control, InHand, TestsOwn, BuildSteps, BeforeRead
  <2> QED
    BY <1>1, <2>1, <2>2, <2>3, OneTerminalMoves DEF IInv, TypeOK, files, Code
<1>4. CASE create_function(t) /\ ~ Refused(t)
  <2>1. CASE Exit(t, "failed") /\ UNCHANGED <<state, code>>
    BY <1>1, <1>4, <2>1, ExitKeeps DEF create_function, IInv, TypeOK, files, Outcomes
  <2>2. CASE /\ state' = "Pending" /\ code' = run[t].zip_bytes
             /\ run[t].zip_bytes # Partial
             /\ Goto(t, "wait_for_function_active")
    <3>1. /\ Alone(t) /\ run'[t].pc = "wait_for_function_active"
          /\ run'[t].command = run[t].command /\ run'[t].zip_bytes = run[t].zip_bytes
      BY <2>2, GotoFields DEF IInv, Labels
    <3>2. code' \in Behaviours /\ code' \in Code
      BY <1>1, <2>2 DEF IInv, TypeOK, Processes, Code
    <3>3. Control(run[t])' /\ InHand(run[t])' /\ TestsOwn(run[t])'
      BY <1>1, <2>2, <3>1 DEF Control, InHand, TestsOwn, BuildSteps, BeforeRead, VerifySteps
    <3>4. UNCHANGED localstack
      BY <1>4 DEF create_function
    <3> QED
      BY <1>1, <2>2, <3>1, <3>2, <3>3, <3>4, OneTerminalMoves DEF IInv, TypeOK, files
  <2> QED
    BY <1>4, <2>1, <2>2 DEF create_function
<1> QED
  BY <1>2, <1>3, <1>4

\* Waiting for the function, invoking it and looking at the answer.
LEMMA TestStep ==
    ASSUME IInv, NEW t \in Terminals,
           \/ wait_for_function_active(t) \/ parse_payload(t) \/ invoke(t)
           \/ check_response(t) \/ print_response(t)
    PROVE  IInv'
<1>1. /\ UNCHANGED <<files, service>>
      /\ Control(run[t]) /\ InHand(run[t]) /\ TestsOwn(run[t])
  BY DEF wait_for_function_active, parse_payload, invoke, check_response, print_response, IInv,
     Refused, service
<1>2. ASSUME NEW outcome \in Outcomes, Exit(t, outcome) PROVE IInv'
  BY <1>1, <1>2, QuietExit
<1>3. CASE wait_for_function_active(t)
  <2>1. CASE state = "Active" /\ Goto(t, "invoke")
    <3>1. /\ Alone(t) /\ run'[t].pc = "invoke"
          /\ run'[t].command = run[t].command /\ run'[t].zip_bytes = run[t].zip_bytes
      BY <2>1, GotoFields DEF IInv, Labels
    <3>2. Control(run[t])' /\ InHand(run[t])' /\ TestsOwn(run[t])'
      BY <1>1, <1>3, <3>1 DEF wait_for_function_active, At, Control, InHand, TestsOwn, BuildSteps,
         BeforeRead, VerifySteps, service
    <3> QED
      BY <1>1, <3>1, <3>2, QuietMove
  <2>2. state \in {"absent", "Pending", "Active", "Failed"}
    BY DEF IInv, TypeOK
  <2> QED
    BY <1>1, <1>2, <1>3, <2>1, <2>2, PollStep DEF wait_for_function_active, Refused, Outcomes
<1>4. CASE parse_payload(t)
  <2>1. CASE Goto(t, "invoke")
    <3>1. Alone(t) /\ run'[t].pc = "invoke" /\ run'[t].command = run[t].command
      BY <2>1, GotoFields DEF IInv, Labels
    <3>2. Control(run[t])' /\ InHand(run[t])' /\ TestsOwn(run[t])'
      BY <1>1, <1>4, <3>1 DEF parse_payload, At, Control, InHand, TestsOwn, BuildSteps,
         BeforeRead, VerifySteps, Verifiers
    <3> QED
      BY <1>1, <3>1, <3>2, QuietMove
  <2> QED
    BY <1>2, <1>4, <2>1 DEF parse_payload, Outcomes
<1>5. CASE invoke(t)
  <2>1. ASSUME state = "Active", NEW answer \in {code, "timeout"},
               run' = [run EXCEPT ![t].pc = "check", ![t].answer = answer]
        PROVE  IInv'
    <3>1. code \in Behaviours
      BY <2>1 DEF IInv, TypeOK
    <3>2. /\ Alone(t) /\ run'[t].pc = "check" /\ run'[t].answer = answer
          /\ run'[t].command = run[t].command /\ run'[t].zip_bytes = run[t].zip_bytes
      BY <2>1, <3>1, ZenonT(40) DEF IInv, TypeOK, Processes, Alone, Labels
    <3>3. Control(run[t])' /\ TestsOwn(run[t])'
      BY <1>1, <1>5, <2>1, <3>2 DEF invoke, At, Control, TestsOwn, BuildSteps, VerifySteps
    <3>4. InHand(run[t])'
      BY <3>1, <3>2 DEF InHand, BeforeRead, BuildSteps
    <3> QED
      BY <1>1, <3>2, <3>3, <3>4, QuietMove
  <2> QED
    BY <1>2, <1>5, <2>1 DEF invoke, Outcomes
<1>6. CASE check_response(t)
  <2>1. CASE run[t].answer = "echo" /\ Goto(t, "cleanup")
    <3>1. /\ Alone(t) /\ run'[t].pc = "cleanup"
          /\ run'[t].command = run[t].command /\ run'[t].zip_bytes = run[t].zip_bytes
      BY <2>1, GotoFields DEF IInv, Labels
    <3>2. run[t].command \in Verifiers /\ run[t].zip_bytes = "echo"
      BY <1>1, <1>6, <2>1 DEF check_response, At, Control, TestsOwn
    <3>3. Control(run[t])' /\ InHand(run[t])' /\ TestsOwn(run[t])'
      BY <3>1, <3>2 DEF Control, InHand, TestsOwn, BuildSteps, BeforeRead
    <3> QED
      BY <1>1, <3>1, <3>3, QuietMove
  <2> QED
    BY <1>2, <1>6, <2>1 DEF check_response, Outcomes
<1>7. CASE print_response(t)
  BY <1>2, <1>7 DEF print_response, Outcomes
<1> QED
  BY <1>3, <1>4, <1>5, <1>6, <1>7

\* After PASS, docker compose down, a signal: the function is deleted or left alone.
LEMMA EndStep ==
    ASSUME IInv, NEW t \in Terminals, cleanup(t) \/ compose_down(t) \/ kill(t)
    PROVE  IInv'
<1>1. CASE cleanup(t)
  BY <1>1, ExitKeeps DEF cleanup, files, IInv, TypeOK, Outcomes
<1>2. CASE compose_down(t)
  <2>1. run' = [run EXCEPT ![t] = [run[t] EXCEPT !.pc = "ended", !.command = "none"]]
    BY <1>2 DEF compose_down
  <2>2. Alone(t) /\ run'[t].pc = "ended" /\ run'[t].command = "none"
    BY <2>1, ZenonT(40) DEF IInv, TypeOK, Processes, Alone, Labels
  <2>3. Control(run[t])' /\ InHand(run[t])' /\ TestsOwn(run[t])'
    BY <2>2 DEF Control, InHand, TestsOwn, BuildSteps, VerifySteps, BeforeRead
  <2> QED
    BY <1>2, <2>2, <2>3, OneTerminalMoves
       DEF compose_down, files, IInv, TypeOK, Code, Verifiers
<1>3. CASE kill(t)
  <2> DEFINE gone == [Process("none", "ended") EXCEPT !.outcome = "killed"]
  <2>1. gone \in Processes /\ gone.pc = "ended" /\ gone.command = "none"
    BY NewProcess DEF Labels, Outcomes, Process
  <2>2. run' = [run EXCEPT ![t] = gone]
    BY <1>3 DEF kill
  <2> HIDE DEF gone
  <2>3. Alone(t) /\ run'[t].pc = "ended" /\ run'[t].command = "none"
    BY <2>1, <2>2 DEF IInv, TypeOK, Alone
  <2>4. Control(run[t])' /\ InHand(run[t])' /\ TestsOwn(run[t])'
    BY <2>3 DEF Control, InHand, TestsOwn, BuildSteps, VerifySteps, BeforeRead
  <2> QED
    BY <1>3, <2>3, <2>4, OneTerminalMoves DEF kill, files, service, IInv, TypeOK, Verifiers
<1> QED
  BY <1>1, <1>2, <1>3

\* Localstack and make clean change no process, and no code but to delete it.
LEMMA EnvironmentStep ==
    ASSUME IInv, localstack_starts \/ localstack_creates \/ clean \/ UNCHANGED vars
    PROVE  IInv'
<1> USE DEF localstack_starts, localstack_creates, clean, vars, files, service
<1>1. TypeOK'
  BY DEF IInv, TypeOK, Code
<1>2. OneVerifier'
  BY DEF IInv, OneVerifier
<1>3. \A t \in Terminals : Control(run[t])' /\ InHand(run[t])'
  BY DEF IInv, Control, InHand
<1>4. \A t \in Terminals : TestsOwn(run[t])'
  BY DEF IInv, TestsOwn
<1> QED
  BY <1>1, <1>2, <1>3, <1>4 DEF IInv

\* The invariant holds in every state of every behaviour.
THEOREM Invariance == Spec => []IInv
<1>1. IInv /\ [Next]_vars => IInv'
  BY StartStep, PackageStep, ReadStep, CreateStep, TestStep, EndStep, EnvironmentStep
     DEF Next, Step
<1> QED
  BY <1>1, InitIInv, PTL DEF Spec

-----------------------------------------------------------------------------
(* What the exit codes mean.                                                 *)

\* A script that does not exit with 0 or 1 in this step says nothing.
Silent(t) == Alone(t) /\ (run'[t].outcome \in {"ok", "failed"} => run'[t].outcome = run[t].outcome)

LEMMA GotoSilent ==
    ASSUME TypeOK, NEW t \in Terminals, NEW l \in Labels, Goto(t, l)
    PROVE  Silent(t)
  BY GotoFields DEF Silent

LEMMA PollSilent ==
    ASSUME TypeOK, NEW t \in Terminals, poll(t)
    PROVE  Silent(t)
<1>1. CASE run[t].polls < MaxPolls
  <2>1. run' = [run EXCEPT ![t].polls = @ + 1]
    BY <1>1 DEF poll
  <2>2. run[t].polls + 1 \in 0 .. MaxPolls
    BY <1>1, VerifyAssumption DEF TypeOK, Processes
  <2> QED
    BY <2>1, <2>2 DEF TypeOK, Processes, Alone, Silent
<1>2. CASE ~ (run[t].polls < MaxPolls)
  BY <1>2, ExitFacts DEF poll, Outcomes, Silent
<1> QED
  BY <1>1, <1>2

\* A silent step, an exit with 1 without a package that echoes, and an exit with 0
\* after the answer was found good: the three kinds of steps a script takes.
Justified(t) ==
    \/ Silent(t)
    \/ Exit(t, "failed") /\ (run[t].command \in Verifiers => run[t].zip_bytes # "echo")
    \/ /\ Exit(t, "ok")
       /\ run[t].command \in Verifiers => run[t].zip_bytes = "echo"
       /\ run[t].command = "invoke.py" => run[t].answer \in Behaviours \ {"crash"}

LEMMA StepJustified ==
    ASSUME IInv, NEW t \in Terminals, Step(t)
    PROVE  Justified(t)
<1> USE DEF IInv, Justified
<1>1. /\ Control(run[t]) /\ InHand(run[t]) /\ TestsOwn(run[t])
      /\ NoCode # "echo" /\ Partial # "echo"
  BY VerifyAssumption
<1>2. ASSUME Exit(t, "service") PROVE Silent(t)
  BY <1>2, ExitFacts DEF Outcomes, Silent
<1>3. CASE docker_build(t) \/ docker_export(t) \/ compose_up(t)
  BY <1>2, <1>3, GotoSilent DEF docker_build, docker_export, compose_up, Labels, BuildSteps
<1>4. CASE package_open(t)
  BY <1>1, <1>4, GotoSilent DEF package_open, Labels, BuildSteps, At, InHand, BeforeRead
<1>5. CASE package_close(t)
  <2>1. run[t].command \in Builders
    BY <1>1, <1>5 DEF package_close, At, Control, BuildSteps
  <2> QED
    BY <1>5, <2>1, GotoSilent DEF package_close, Labels, Builders, Verifiers
<1>6. CASE exists_zip(t)
  BY <1>1, <1>6, GotoSilent DEF exists_zip, Labels, At, InHand, BeforeRead
<1>7. CASE wait_for_localstack(t)
  <2>1. CASE run' = [run EXCEPT ![t].pc = "open_zip", ![t].polls = 0]
    <3>1. 0 \in 0 .. MaxPolls /\ "open_zip" \in Labels
      BY VerifyAssumption DEF Labels
    <3>2. run' = [run EXCEPT ![t] = [run[t] EXCEPT !.pc = "open_zip", !.polls = 0]]
      BY <2>1
    <3> QED
      BY <3>1, <3>2 DEF TypeOK, Processes, Alone, Silent
  <2> QED
    BY <1>7, <2>1, PollSilent DEF wait_for_localstack
<1>8. CASE open_zip(t)
  <2>1. CASE run' = [run EXCEPT ![t].pc = "delete_function", ![t].zip_bytes = zip]
    BY <2>1, ZenonT(40) DEF TypeOK, Processes, Alone, Silent, Labels
  <2> QED
    BY <1>1, <1>8, <2>1 DEF open_zip, At, InHand, BeforeRead
<1>9. CASE delete_function(t)
  BY <1>2, <1>9, GotoSilent DEF delete_function, Refused, Labels
<1>10. CASE create_function(t)
  BY <1>1, <1>2, <1>10, GotoSilent DEF create_function, Refused, Labels, At, TestsOwn
<1>11. CASE wait_for_function_active(t)
  <2>1. state \in {"absent", "Pending", "Active", "Failed"}
    BY DEF TypeOK
  <2> QED
    BY <1>2, <1>11, <2>1, GotoSilent, PollSilent DEF wait_for_function_active, Refused, Labels
<1>12. CASE invoke(t)
  <2>1. ASSUME state = "Active", NEW answer \in {code, "timeout"},
               run' = [run EXCEPT ![t].pc = "check", ![t].answer = answer]
        PROVE  Silent(t)
    BY <2>1, ZenonT(40) DEF TypeOK, Processes, Alone, Silent, Labels
  <2> QED
    BY <1>2, <1>12, <2>1 DEF invoke
<1>13. CASE check_response(t)
  <2>1. run[t].command \in Verifiers /\ run[t].answer \in {run[t].zip_bytes, "timeout"}
    BY <1>1, <1>13 DEF check_response, At, Control, TestsOwn
  <2> QED
    BY <1>2, <1>13, <2>1, GotoSilent DEF check_response, Labels
<1>14. CASE print_response(t)
  <2>1. run[t].command = "invoke.py" /\ run[t].answer \in Behaviours \cup {"timeout"}
    BY <1>1, <1>14 DEF print_response, At, InHand
  <2> QED
    BY <1>2, <1>14, <2>1 DEF print_response, Verifiers
<1>15. CASE cleanup(t)
  BY <1>1, <1>15 DEF cleanup, At, Control, TestsOwn, Verifiers, VerifySteps
<1>16. CASE compose_down(t)
  <2>1. run' = [run EXCEPT ![t] = [run[t] EXCEPT !.pc = "ended", !.command = "none"]]
    BY <1>16 DEF compose_down
  <2> QED
    BY <2>1, ZenonT(40) DEF TypeOK, Processes, Alone, Silent, Labels
<1>17. CASE parse_payload(t)
  <2>1. run[t].command = "invoke.py"
    BY <1>1, <1>17 DEF parse_payload, At, Control
  <2> QED
    BY <1>17, <2>1, GotoSilent DEF parse_payload, Labels, Verifiers
<1> QED
  BY <1>3, <1>4, <1>5, <1>6, <1>7, <1>8, <1>9, <1>10, <1>11, <1>12, <1>13, <1>14, <1>15, <1>16,
     <1>17 DEF Step

\* The step of one terminal ends no other, and its own run only as it should.
LEMMA JustifiedEnds ==
    ASSUME TypeOK, NEW t \in Terminals, Justified(t), NEW u \in Terminals
    PROVE  Genuine(u) /\ Harmless(u)
<1>1. Alone(t)
  BY ExitFacts DEF Justified, Silent, Outcomes
<1>2. CASE u # t
  BY <1>1, <1>2 DEF Alone, Genuine, Harmless, Ends
<1>3. CASE u = t /\ Silent(t)
  BY <1>3 DEF Silent, Genuine, Harmless, Ends
<1>4. CASE u = t /\ ~ Silent(t)
  BY <1>4, ExitFacts DEF Justified, Outcomes, Genuine, Harmless, Ends
<1> QED
  BY <1>2, <1>3, <1>4

LEMMA NextEnds ==
    ASSUME IInv, [Next]_vars, NEW u \in Terminals
    PROVE  Genuine(u) /\ Harmless(u)
<1> USE DEF IInv
<1>1. ASSUME NEW t \in Terminals, Step(t) PROVE Genuine(u) /\ Harmless(u)
  BY <1>1, StepJustified, JustifiedEnds
<1>2. ASSUME NEW t \in Terminals, kill(t) PROVE Genuine(u) /\ Harmless(u)
  BY <1>2 DEF kill, Process, TypeOK, Genuine, Harmless, Ends
<1>3. ASSUME NEW t \in Terminals, NEW command \in Commands, start(t, command)
      PROVE  Genuine(u) /\ Harmless(u)
  BY <1>3 DEF start, Process, TypeOK, Genuine, Harmless, Ends
<1>4. CASE localstack_starts \/ localstack_creates \/ clean \/ UNCHANGED vars
  BY <1>4 DEF localstack_starts, localstack_creates, clean, vars, Genuine, Harmless, Ends
<1> QED
  BY <1>1, <1>2, <1>3, <1>4 DEF Next

\* Exit code 0 of verify.py means that the package it read echoes; of invoke.py, that
\* the function answered: for any number of terminals, kills and leftovers.
THEOREM SuccessMeansEcho == Spec => SuccessIsGenuine
<1>1. IInv /\ [Next]_vars => [\A t \in Terminals : Genuine(t)]_vars
  BY NextEnds
<1> QED
  BY <1>1, Invariance, PTL DEF Spec, SuccessIsGenuine

\* Exit code 1 of a verification is never the fault of what other runs left behind.
THEOREM FailureIsOwn == Spec => LeftoversAreHarmless
<1>1. IInv /\ [Next]_vars => [\A t \in Terminals : Harmless(t)]_vars
  BY NextEnds
<1> QED
  BY <1>1, Invariance, PTL DEF Spec, LeftoversAreHarmless
=============================================================================
