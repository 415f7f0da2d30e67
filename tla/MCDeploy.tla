------------------------------ MODULE MCDeploy ------------------------------
(* Small instance of Deploy: two runs of the script.                         *)
EXTENDS Deploy

CONSTANTS d1, d2

MCRuns == {d1, d2}
Commands(options, builds, fs) ==
    [option: [MCRuns -> options], build: [MCRuns -> builds], faults: {fs}]

\* Any command lines, with runs killed and AWS calls refused; or two builds
\* with target/ removed, for which the role does not matter.
MCScenarios ==
    Commands(Options, BOOLEAN, {"kill", "raise"})
    \cup Commands({"none"}, {TRUE}, {"clean"})
=============================================================================
