---------------------------- MODULE KeyCeremony -----------------------------
(***************************************************************************)
(* prover/src/bin/felica-setup.rs: each run draws a key pair, checks that  *)
(* it survives encoding and writes its two files, one after the other.  A  *)
(* file is truncated when it is opened and filled afterwards; a run may be *)
(* killed, or a call of the file system may fail, anywhere.                *)
(***************************************************************************)
EXTENDS Naturals

CONSTANTS
  Ceremony,   \* what tells one draw of a key pair from another
  MaxFailures \* kills and I/O errors, at most: bounds the runs that go wrong

ASSUME FailuresType == MaxFailures \in Nat

Files == {"pk", "vk"}

Absent == "absent"
Torn == "torn"

ASSUME CeremonyType == Absent \notin Ceremony /\ Torn \notin Ceremony

VARIABLES
  file,     \* what each of the two files holds
  at,       \* what the run does next: "idle" between runs, or
            \* "draw", "check", "open" and "fill"
  which,    \* the file it does that to
  force,    \* whether it was started with --force
  drawn,    \* the ceremony whose keys it holds
  exit,     \* how the last run ended
  failures

vars == <<file, at, which, force, drawn, exit, failures>>

\* The directory may hold keys already, of one ceremony or of two.
Init ==
  /\ file \in [Files -> Ceremony \cup {Absent}]
  /\ at = "idle" /\ which = "pk" /\ force = FALSE
  /\ drawn \in Ceremony
  /\ exit = "never" /\ failures = 0

\* Faulty: --force is read and forgotten.
Start_unforced(forced) ==
  /\ at = "idle"
  /\ at' = "draw" /\ which' = "pk" /\ force' = FALSE
  /\ exit' = "running"
  /\ UNCHANGED <<file, drawn, failures>>

Start(forced) ==
  /\ at = "idle"
  /\ at' = "draw" /\ which' = "pk" /\ force' = forced
  /\ exit' = "running"
  /\ UNCHANGED <<file, drawn, failures>>

\* generate_keys draws from the operating system: the keys are those of no file.
Draw ==
  /\ at = "draw"
  /\ \E k \in Ceremony : /\ \A f \in Files : file[f] # k
                         /\ drawn' = k
  /\ at' = "check"
  /\ UNCHANGED <<file, which, force, exit, failures>>

Refused == file[which] # Absent /\ ~force

Ended(how) == at' = "idle" /\ exit' = how

\* Faulty: the file's being there is looked at for the first file alone.
Check_first ==
  /\ at = "check"
  /\ IF Refused /\ which = "pk" THEN Ended("failed")
     ELSE at' = "open" /\ UNCHANGED exit
  /\ UNCHANGED <<file, which, force, drawn, failures>>

\* write_key looks before each file, at that file only.
Check ==
  /\ at = "check"
  /\ IF Refused THEN Ended("failed") ELSE at' = "open" /\ UNCHANGED exit
  /\ UNCHANGED <<file, which, force, drawn, failures>>

Open ==
  /\ at = "open"
  /\ file' = [file EXCEPT ![which] = Torn]
  /\ at' = "fill"
  /\ UNCHANGED <<which, force, drawn, exit, failures>>

\* Faulty: the run is over, and reports both files, once it has written one.
Fill_early ==
  /\ at = "fill"
  /\ file' = [file EXCEPT ![which] = drawn]
  /\ Ended("ok")
  /\ UNCHANGED <<which, force, drawn, failures>>

Fill ==
  /\ at = "fill"
  /\ file' = [file EXCEPT ![which] = drawn]
  /\ IF which = "pk" THEN /\ at' = "check" /\ which' = "vk"
                          /\ UNCHANGED exit
     ELSE Ended("ok") /\ UNCHANGED which
  /\ UNCHANGED <<force, drawn, failures>>

Step == Draw \/ Check \/ Open \/ Fill

\* Killed, or an error of the file system: what was written stays as it is.
Fail ==
  /\ at # "idle" /\ failures < MaxFailures
  /\ failures' = failures + 1
  /\ Ended("failed")
  /\ UNCHANGED <<file, which, force, drawn>>

Next == Start(TRUE) \/ Start(FALSE) \/ Step \/ Fail

Spec == Init /\ [][Next]_vars

\* A run that is not killed goes on, and its operator starts another with --force
\* until one succeeds.
FairSpec == Spec /\ WF_vars(Step) /\ SF_vars(Start(TRUE))

-----------------------------------------------------------------------------
TypeOK ==
  /\ file \in [Files -> Ceremony \cup {Absent, Torn}]
  /\ at \in {"idle", "draw", "check", "open", "fill"}
  /\ which \in Files /\ force \in BOOLEAN /\ drawn \in Ceremony
  /\ exit \in {"never", "running", "ok", "failed"}
  /\ failures \in 0 .. MaxFailures

Matched == file["pk"] = file["vk"] /\ file["pk"] \in Ceremony

\* A run that reports the files it wrote leaves two that belong together
\* (felica-setup.rs write_outputs).
ReportedPairMatches == exit = "ok" => Matched

\* A key, once whole, is replaced by a run with --force and by no other
\* (felica-setup.rs "exists (pass --force to overwrite)").
OnlyForceReplaces ==
  [][\A f \in Files : file[f] \in Ceremony /\ ~force => file'[f] = file[f]]_vars

\* However runs are interrupted, the files belong together again in the end.
EventuallyMatched == []<>Matched
=============================================================================
