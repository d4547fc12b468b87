-------------------------- MODULE KeyProvisioning ---------------------------
(***************************************************************************)
(* prover/src/bin/felica-keys.rs: the wizard that reads key records line   *)
(* by line and writes keys.json for the oracle beside a keys.jsonl of the  *)
(* records it was derived from.  The path of the second file is that of    *)
(* the first with another extension.                                       *)
(*                                                                         *)
(* The derived GSK and USK are a function of the keys read, in order: a    *)
(* file is written down as the records it was made from.                   *)
(***************************************************************************)
EXTENDS Sequences, Naturals

CONSTANTS
  Record,      \* [system_code, node, valid]; valid: DES, no idm, 8 bytes of key
  SystemNode,  \* FFFF
  SamePath,    \* whether OUT ends in .jsonl itself
  MaxRecords,  \* records of a section, at most: bounds the input
  MaxFailures  \* kills and I/O errors, at most

VARIABLES
  file,    \* what is at each path: Absent, Torn or what was written there
  at,      \* "idle" between runs, or what the run does next
  input,   \* the records read: system, area and service
  force,
  exit,    \* how the last run ended
  failures

vars == <<file, at, input, force, exit, failures>>

\* Lines that are no record: the end of a section, and what does not parse.
End == [line |-> "{}"]
Bad == [line |-> "bad"]

Absent == [is |-> "absent"]
Torn == [is |-> "torn"]
Other == [is |-> "other"]

NoInput == [system |-> <<>>, area |-> <<>>, service |-> <<>>]

\* out.with_extension("jsonl") is out itself when that is its extension.
Path(f) == IF SamePath THEN "json" ELSE f

Paths == {Path("json"), Path("jsonl")}

\* A path may hold a file of something else: the records of another system, say.
Init ==
  /\ file \in [Paths -> {Absent, Other}]
  /\ at = "idle" /\ input = NoInput /\ force = FALSE
  /\ exit = "never" /\ failures = 0

Start(forced) ==
  /\ at = "idle"
  /\ at' = "system" /\ input' = NoInput /\ force' = forced /\ exit' = "running"
  /\ UNCHANGED <<file, failures>>

Ended(how) == at' = "idle" /\ exit' = how

\* The one record of the system, checked as it is read.
ReadSystem(line) ==
  /\ at = "system"
  /\ IF line \in Record /\ line.node = SystemNode /\ line.valid
     THEN /\ at' = "area" /\ input' = [input EXCEPT !.system = <<line>>]
          /\ UNCHANGED exit
     ELSE Ended("failed") /\ UNCHANGED input
  /\ UNCHANGED <<file, force, failures>>

\* The records of a section, up to a line of "{}"; they are checked afterwards.
ReadSection(section, next, line) ==
  /\ at = section
  /\ line \in Record => Len(input[section]) < MaxRecords
  /\ \/ /\ line \in Record
        /\ input' = [input EXCEPT ![section] = Append(@, line)]
        /\ UNCHANGED <<at, exit>>
     \/ /\ line = End /\ input[section] # <<>>
        /\ at' = next
        /\ UNCHANGED <<input, exit>>
     \/ /\ line = Bad \/ (line = End /\ input[section] = <<>>)
        /\ Ended("failed")
        /\ UNCHANGED input
  /\ UNCHANGED <<file, force, failures>>

OfSystem(records) ==
  \A i \in DOMAIN records : /\ records[i].system_code = input.system[1].system_code
                            /\ records[i].valid

\* Faulty: the service records are taken as they come.
Derive_areas ==
  /\ at = "derive"
  /\ IF OfSystem(input.area) THEN at' = "check" /\ UNCHANGED exit ELSE Ended("failed")
  /\ UNCHANGED <<file, input, force, failures>>

Derive ==
  /\ at = "derive"
  /\ IF OfSystem(input.area) /\ OfSystem(input.service)
     THEN at' = "check" /\ UNCHANGED exit
     ELSE Ended("failed")
  /\ UNCHANGED <<file, input, force, failures>>

\* Faulty: only OUT itself is looked at.
Check_out ==
  /\ at = "check"
  /\ IF file["json"] # Absent /\ ~force THEN Ended("failed")
     ELSE at' = "ask" /\ UNCHANGED exit
  /\ UNCHANGED <<file, input, force, failures>>

\* Both paths are looked at before anything is asked.
Check ==
  /\ at = "check"
  /\ IF (\E p \in Paths : file[p] # Absent) /\ ~force THEN Ended("failed")
     ELSE at' = "ask" /\ UNCHANGED exit
  /\ UNCHANGED <<file, input, force, failures>>

Ask(yes) ==
  /\ at = "ask"
  /\ IF yes THEN at' = "open json" /\ UNCHANGED exit ELSE Ended("failed")
  /\ UNCHANGED <<file, input, force, failures>>

Open(f) ==
  /\ at = IF f = "json" THEN "open json" ELSE "open jsonl"
  /\ file' = [file EXCEPT ![Path(f)] = Torn]
  /\ at' = IF f = "json" THEN "fill json" ELSE "fill jsonl"
  /\ UNCHANGED <<input, force, exit, failures>>

\* Faulty: the second file leaves the areas out.
Fill_areas(f) ==
  /\ at = IF f = "json" THEN "fill json" ELSE "fill jsonl"
  /\ file' = [file EXCEPT ![Path(f)] =
       [is |-> f, of |-> IF f = "json" THEN input ELSE [input EXCEPT !.area = <<>>]]]
  /\ IF f = "json" THEN at' = "open jsonl" /\ UNCHANGED exit ELSE Ended("ok")
  /\ UNCHANGED <<input, force, failures>>

Fill(f) ==
  /\ at = IF f = "json" THEN "fill json" ELSE "fill jsonl"
  /\ file' = [file EXCEPT ![Path(f)] = [is |-> f, of |-> input]]
  /\ IF f = "json" THEN at' = "open jsonl" /\ UNCHANGED exit ELSE Ended("ok")
  /\ UNCHANGED <<input, force, failures>>

\* Killed, or an error of the terminal or of the file system.
Fail ==
  /\ at # "idle" /\ failures < MaxFailures
  /\ failures' = failures + 1
  /\ Ended("failed")
  /\ UNCHANGED <<file, input, force>>

Next ==
  \/ \E forced \in BOOLEAN : Start(forced)
  \/ \E line \in Record \cup {End, Bad} :
       \/ ReadSystem(line)
       \/ ReadSection("area", "service", line)
       \/ ReadSection("service", "derive", line)
  \/ Derive
  \/ Check
  \/ \E yes \in BOOLEAN : Ask(yes)
  \/ \E f \in {"json", "jsonl"} : Open(f) \/ Fill(f)
  \/ Fail

Spec == Init /\ [][Next]_vars

-----------------------------------------------------------------------------
Whole(p) == file[p] \notin {Absent, Torn}

\* What is written is one system: its record is that of node FFFF, there are areas
\* and services, all of their codes are its own and all of their keys parse
\* (felica-keys.rs run).
WrittenIsOneSystem ==
  \A p \in Paths : file[p].is \in {"json", "jsonl"} =>
    LET of == file[p].of
        codes == {r.system_code : r \in {of.system[1]}
                    \cup {of.area[i] : i \in DOMAIN of.area}
                    \cup {of.service[i] : i \in DOMAIN of.service}}
    IN /\ of.system[1].node = SystemNode
       /\ of.area # <<>> /\ of.service # <<>>
       /\ codes = {of.system[1].system_code}
       /\ \A i \in DOMAIN of.area : of.area[i].valid
       /\ \A i \in DOMAIN of.service : of.service[i].valid

\* A run that succeeds leaves the derived keys and the records they were derived
\* from, whatever runs before it left (felica-keys.rs "wrote {} and {}").
BothWritten ==
  exit = "ok" =>
    /\ file[Path("json")] = [is |-> "json", of |-> input]
    /\ file[Path("jsonl")] = [is |-> "jsonl", of |-> input]

\* What is whole stays unless a run was started with --force (felica-keys.rs
\* "exists (pass --force to overwrite)").
OnlyForceReplaces ==
  [][\A p \in Paths : Whole(p) /\ ~force => file'[p] = file[p]]_vars
=============================================================================
