------------------------------- MODULE Target -------------------------------
(***************************************************************************)
(* scripts/build.py and the directory target/ it writes.  A build.py is a   *)
(* process of its own, the child of the run of a script that wants a build: *)
(* it goes through the three tools and the copy of the binary.  The         *)
(* intermediate files are named after the source, the binary is not.  The   *)
(* content of a file is the run whose source it was made from.              *)
(***************************************************************************)
EXTENDS Integers, FiniteSets

CONSTANTS Runs,      \* runs of a script; also the code each one's source compiles to
          NoCode,    \* no such file
          Partial    \* a file that is being copied, or was when its writer was killed

ASSUME TargetAssumption == NoCode \notin Runs /\ Partial \notin Runs \cup {NoCode}

VARIABLES builder,   \* builder[r]: what the build.py of run r does next
          opened,    \* opened[r]: what the file holds that shutil.copy2 reads
          target,    \* the files of target/, see Names
          cleaning   \* files that a make clean under way has still to remove

\* <basename>.ll and .o (the sources have one basename), the binary in cargo-target/
\* and the copy that is packaged.
Names == {"ll", "obj", "release", "bootstrap"}
Files == Runs \cup {NoCode, Partial}
Building == {"compile", "llc", "cargo", "copy", "copying", "strip"}
BuilderStates == Building \cup {"off", "ok", "error"}

build_vars == <<builder, opened, target>>

TargetInit ==
    /\ builder = [r \in Runs |-> "off"] /\ opened = [r \in Runs |-> NoCode]
    /\ target = [f \in Names |-> NoCode]
    /\ cleaning = {}

Becomes(r, l) == builder' = [builder EXCEPT ![r] = l]
Write(f, c) == target' = [target EXCEPT ![f] = c]

\* [1/3] compiler.py, which may reject the source.  The IR is written at the end.
build_compile(r) ==
    /\ builder[r] = "compile"
    /\ \/ Write("ll", r) /\ Becomes(r, "llc")
       \/ UNCHANGED target /\ Becomes(r, "error")
    /\ UNCHANGED opened

\* [2/3] llc
build_llc(r) ==
    /\ builder[r] = "llc"
    /\ \/ target["ll"] # NoCode /\ Write("obj", target["ll"]) /\ Becomes(r, "cargo")
       \/ UNCHANGED target /\ Becomes(r, "error")
    /\ UNCHANGED opened

\* Seeded fault: the exit code of cargo is not looked at.
build_cargo_unchecked(r) ==
    /\ builder[r] = "cargo"
    /\ Becomes(r, "copy")
    /\ UNCHANGED target \/ Write("release", target["obj"])
    /\ UNCHANGED opened

\* [3/3] cargo build links the object; a link that fails ends the script.
build_cargo(r) ==
    /\ builder[r] = "cargo"
    /\ \/ target["obj"] # NoCode /\ Write("release", target["obj"]) /\ Becomes(r, "copy")
       \/ UNCHANGED target /\ Becomes(r, "error")
    /\ UNCHANGED opened

\* shutil.copy2 opens both files and truncates the copy.  Without a binary the script
\* warns and succeeds, and leaves the copy there may be.
build_copy(r) ==
    /\ builder[r] = "copy"
    /\ IF target["release"] = NoCode
       THEN Becomes(r, "ok") /\ UNCHANGED <<target, opened>>
       ELSE /\ opened' = [opened EXCEPT ![r] = target["release"]]
            /\ Write("bootstrap", Partial)
            /\ Becomes(r, "copying")

\* The bytes are written, to a removed file if make clean was there, and the mode is
\* taken over, which fails if one of the two names is gone.
build_copied(r) ==
    /\ builder[r] = "copying"
    /\ IF target["bootstrap"] = NoCode THEN UNCHANGED target ELSE Write("bootstrap", opened[r])
    /\ Becomes(r, IF NoCode \in {target["release"], target["bootstrap"]} THEN "error" ELSE "strip")
    /\ opened' = [opened EXCEPT ![r] = NoCode]

\* strip, in place: done, not installed, or failed after the copy.
build_strip(r) ==
    /\ builder[r] = "strip"
    /\ \/ target["bootstrap"] # NoCode /\ Becomes(r, "ok")
       \/ Becomes(r, "error")
    /\ UNCHANGED <<target, opened>>

Build(r) ==
    /\ \/ build_compile(r) \/ build_llc(r) \/ build_cargo(r)
       \/ build_copy(r) \/ build_copied(r) \/ build_strip(r)
    /\ UNCHANGED cleaning

\* make clean, by the developer at any time: rm -rf walks target/ and removes file by
\* file, in no particular order, while builds go on.
clean ==
    /\ cleaning = {}
    /\ \E f \in Names : target[f] # NoCode
    /\ cleaning' = Names
    /\ UNCHANGED build_vars

clean_file(f) ==
    /\ f \in cleaning
    /\ Write(f, NoCode)
    /\ cleaning' = cleaning \ {f}
    /\ UNCHANGED <<builder, opened>>
=============================================================================
