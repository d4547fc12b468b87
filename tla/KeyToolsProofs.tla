--------------------------- MODULE KeyToolsProofs ---------------------------
(***************************************************************************)
(* What the files of the two key tools hold, however runs of them were     *)
(* interrupted: first felica-setup, then felica-keys.                      *)
(***************************************************************************)
EXTENDS KeyTools, Sequences, TLAPS

(* felica-setup: a run that is to write the second file holds the keys that the
   first file holds, and one that is to fill a file has torn it itself. *)

\* What the step a run is at says of the files.
Running ==
  /\ at # "idle" <=> exit = "running"
  /\ exit = "ok" => Matched
  /\ which = "vk" /\ at \in {"check", "open", "fill"} => file["pk"] = drawn
  /\ at = "draw" => which = "pk"
  /\ at = "open" /\ ~force => file[which] = Absent
  /\ at = "fill" => file[which] = Torn

\* The inductive invariant.
IInv == TypeOK /\ Running

\* The invariant of felica-setup holds at first.
LEMMA InvInit == ASSUME Init PROVE IInv
<1>1. TypeOK
  <2>1. file \in [Files -> Ceremony \cup {Absent, Torn}]
    BY DEF Init
  <2>2. force \in BOOLEAN
    BY Zenon DEF Init
  <2>3. failures \in 0 .. MaxFailures
    BY FailuresType DEF Init
  <2>4. /\ at \in {"idle", "draw", "check", "open", "fill"} /\ which \in Files
        /\ drawn \in Ceremony /\ exit \in {"never", "running", "ok", "failed"}
    BY DEF Init, Files
  <2> QED BY <2>1, <2>2, <2>3, <2>4 DEF TypeOK
<1>2. Running
  BY DEF Init, Running
<1> QED BY <1>1, <1>2 DEF IInv

\* Every step of felica-setup keeps its invariant.
LEMMA InvNext == ASSUME IInv, [Next]_vars PROVE IInv'
<1> USE DEF IInv, TypeOK, Running, Matched, Files
<1>1. ASSUME NEW forced \in BOOLEAN, Start(forced) PROVE IInv'
  BY <1>1 DEF Start
<1>2. ASSUME Draw PROVE IInv'
  BY <1>2 DEF Draw
<1>3. ASSUME Check PROVE IInv'
  BY <1>3 DEF Check, Refused, Ended
<1>4. ASSUME Open PROVE IInv'
  <2>1. which = "vk" => file'["pk"] = file["pk"]
    BY <1>4 DEF Open
  <2>2. file'[which] = Torn
    BY <1>4 DEF Open
  <2>3. file' \in [Files -> Ceremony \cup {Absent, Torn}]
    BY <1>4 DEF Open
  <2> QED BY <1>4, <2>1, <2>2, <2>3 DEF Open
<1>5. ASSUME Fill PROVE IInv'
  <2>1. file'[which] = drawn /\ (which = "vk" => file'["pk"] = file["pk"])
    BY <1>5 DEF Fill
  <2>2. file' \in [Files -> Ceremony \cup {Absent, Torn}]
    BY <1>5 DEF Fill
  <2>3. CASE which = "pk"
    BY <1>5, <2>1, <2>2, <2>3 DEF Fill
  <2>4. CASE which = "vk"
    BY <1>5, <2>1, <2>2, <2>4 DEF Fill, Ended
  <2> QED BY <2>3, <2>4
<1>6. ASSUME Fail PROVE IInv'
  BY <1>6, FailuresType DEF Fail, Ended
<1>7. ASSUME UNCHANGED vars PROVE IInv'
  BY <1>7 DEF vars
<1> QED BY <1>1, <1>2, <1>3, <1>4, <1>5, <1>6, <1>7 DEF Next, Step

\* What felica-setup is about to do fits the files it finds, however earlier runs ended
\* (bin/felica-setup.rs write_outputs).
THEOREM Invariance == Spec => []IInv
<1>1. Init => IInv
  BY InvInit
<1>2. IInv /\ [Next]_vars => IInv'
  BY InvNext
<1> QED BY <1>1, <1>2, PTL DEF Spec

\* The state variables keep their types, whatever ceremonies there are.
THEOREM TypeCorrect == Spec => []TypeOK
<1>1. IInv => TypeOK
  BY DEF IInv
<1> QED BY <1>1, Invariance, PTL

\* A run that reports the files it wrote leaves two that belong together, for any
\* number of runs and failures before it.
THEOREM ReportedPairsMatch == Spec => []ReportedPairMatches
<1>1. IInv => ReportedPairMatches
  BY DEF IInv, Running, ReportedPairMatches
<1> QED BY <1>1, Invariance, PTL

\* A run without --force leaves every whole key as it is.
THEOREM KeysAreKept == Spec => OnlyForceReplaces
<1> DEFINE Kept == \A f \in Files : file[f] \in Ceremony /\ ~force => file'[f] = file[f]
<1>1. IInv /\ [Next]_vars => [Kept]_vars
  <2> SUFFICES ASSUME IInv, Next PROVE Kept
    OBVIOUS
  <2>1. CASE Open
    BY <2>1, CeremonyType DEF Open, IInv, TypeOK, Running
  <2>2. CASE Fill
    BY <2>2, CeremonyType DEF Fill, IInv, TypeOK, Running
  <2>3. CASE UNCHANGED file
    BY <2>3
  <2> QED BY <2>1, <2>2, <2>3 DEF Next, Step, Start, Draw, Check, Fail
<1> QED BY <1>1, Invariance, PTL DEF Spec, OnlyForceReplaces

-----------------------------------------------------------------------------
(* felica-keys: what is read, and what is written of it. *)

\* The steps at which a section is read, and those at which the files are written.
Reading == {"area", "service", "derive"}
Writing == {"check", "ask", "open json", "fill json", "open jsonl", "fill jsonl"}

\* What a run of felica-keys has read so far, and what it may write of it.
Inputs == [system : Seq(Record), area : Seq(Record), service : Seq(Record)]

\* All sections are there, of one system, and every key in them was checked.
OneSystem(of) ==
  /\ of.system[1].node = SystemNode
  /\ of.area # <<>> /\ of.service # <<>>
  /\ \A i \in DOMAIN of.area :
       of.area[i].system_code = of.system[1].system_code /\ of.area[i].valid
  /\ \A i \in DOMAIN of.service :
       of.service[i].system_code = of.system[1].system_code /\ of.service[i].valid

\* The sections are whole one after the other, and of one system once they are derived
\* from.
SectionsRead ==
  /\ input \in Inputs
  /\ wiz_at \in {"idle", "system"} \cup Reading \cup Writing
  /\ wiz_at \in Reading \cup Writing => input.system[1].node = SystemNode
  /\ wiz_at \in {"service", "derive"} => input.area # <<>>
  /\ wiz_at = "derive" => input.service # <<>>
  /\ wiz_at \in Writing => OneSystem(input)

\* What either file may hold.
Contents ==
  {Wizard!Absent, Wizard!Torn, Wizard!Other}
    \cup [is : {"json", "jsonl"}, of : {x \in Inputs : OneSystem(x)}]

\* The inductive invariant.
WInv == SectionsRead /\ wiz_file \in [Wizard!Paths -> Contents]

\* The input with a section exchanged.
LEMMA InputChanged ==
  /\ Wizard!NoInput \in Inputs
  /\ \A x \in Inputs, s \in Seq(Record) :
       /\ [x EXCEPT !.system = s] \in Inputs /\ [x EXCEPT !.system = s].system = s
       /\ [x EXCEPT !.area = s] \in Inputs /\ [x EXCEPT !.area = s].system = x.system
       /\ [x EXCEPT !.service = s] \in Inputs /\ [x EXCEPT !.service = s].system = x.system
       /\ [x EXCEPT !.service = s].area = x.area
<1>1. <<>> \in Seq(Record)
  OBVIOUS
<1> QED BY <1>1 DEF Inputs, Wizard!NoInput

\* A section with a record more.
LEMMA InputSections ==
  ASSUME NEW x \in Inputs, NEW r \in Record
  PROVE  /\ <<r>> \in Seq(Record) /\ <<r>>[1] = r
         /\ Append(x.area, r) \in Seq(Record)
         /\ Append(x.service, r) \in Seq(Record)
<1>1. x.area \in Seq(Record) /\ x.service \in Seq(Record)
  BY DEF Inputs
<1> QED BY <1>1

\* The invariant of felica-keys holds at first.
LEMMA WizardInit == ASSUME Wizard!Init PROVE WInv
<1>1. wiz_file \in [Wizard!Paths -> Contents]
  BY DEF Wizard!Init, Contents
<1>2. input \in Inputs
  BY InputChanged DEF Wizard!Init
<1>3. SectionsRead
  BY <1>2 DEF Wizard!Init, SectionsRead, Reading, Writing
<1> QED BY <1>1, <1>3 DEF WInv

\* Reading a line of any section keeps it.
LEMMA WizardReads ==
  ASSUME WInv, NEW line \in Record \cup {Wizard!End, Wizard!Bad},
         \/ Wizard!ReadSystem(line)
         \/ Wizard!ReadSection("area", "service", line)
         \/ Wizard!ReadSection("service", "derive", line)
  PROVE  WInv'
<1> USE DEF WInv, SectionsRead, Reading, Writing, Wizard!Ended
<1>1. CASE Wizard!ReadSystem(line)
  <2>1. CASE line \in Record /\ line.node = SystemNode /\ line.valid
    <3>1. /\ wiz_at' = "area" /\ input' = [input EXCEPT !.system = <<line>>]
          /\ wiz_file' = wiz_file
      BY <1>1, <2>1 DEF Wizard!ReadSystem
    <3>2. <<line>> \in Seq(Record) /\ <<line>>[1] = line
      BY <2>1, InputSections
    <3>3. input' \in Inputs /\ input'.system[1].node = SystemNode
      BY <2>1, <3>1, <3>2, InputChanged
    <3> QED BY <3>1, <3>3
  <2>2. CASE ~(line \in Record /\ line.node = SystemNode /\ line.valid)
    BY <1>1, <2>2 DEF Wizard!ReadSystem
  <2> QED BY <2>1, <2>2
<1>2. CASE Wizard!ReadSection("area", "service", line)
  <2>1. CASE line \in Record /\ input' = [input EXCEPT !.area = Append(@, line)]
             /\ UNCHANGED wiz_at
    <3>1. Append(input.area, line) \in Seq(Record)
      BY <2>1, InputSections
    <3>2. input' \in Inputs /\ input'.system = input.system
      BY <2>1, <3>1, InputChanged
    <3> QED BY <1>2, <2>1, <3>2 DEF Wizard!ReadSection
  <2>2. CASE input.area # <<>> /\ wiz_at' = "service" /\ UNCHANGED input
    BY <1>2, <2>2 DEF Wizard!ReadSection
  <2>3. CASE Wizard!Ended("failed") /\ UNCHANGED input
    BY <1>2, <2>3 DEF Wizard!ReadSection
  <2> QED BY <1>2, <2>1, <2>2, <2>3 DEF Wizard!ReadSection
<1>3. CASE Wizard!ReadSection("service", "derive", line)
  <2>1. CASE line \in Record /\ input' = [input EXCEPT !.service = Append(@, line)]
             /\ UNCHANGED wiz_at
    <3>1. Append(input.service, line) \in Seq(Record)
      BY <2>1, InputSections
    <3>2. input' \in Inputs /\ input'.system = input.system /\ input'.area = input.area
      BY <2>1, <3>1, InputChanged
    <3> QED BY <1>3, <2>1, <3>2 DEF Wizard!ReadSection
  <2>2. CASE input.service # <<>> /\ wiz_at' = "derive" /\ UNCHANGED input
    BY <1>3, <2>2 DEF Wizard!ReadSection
  <2>3. CASE Wizard!Ended("failed") /\ UNCHANGED input
    BY <1>3, <2>3 DEF Wizard!ReadSection
  <2> QED BY <1>3, <2>1, <2>2, <2>3 DEF Wizard!ReadSection
<1> QED BY <1>1, <1>2, <1>3

\* Every other step of felica-keys keeps it too.
LEMMA WizardNext == ASSUME WInv, [Wizard!Next]_wizardVars PROVE WInv'
<1> USE DEF WInv, SectionsRead, Reading, Writing, Wizard!Ended
<1>1. ASSUME NEW forced \in BOOLEAN, Wizard!Start(forced) PROVE WInv'
  <2>1. input' \in Inputs
    BY <1>1, InputChanged DEF Wizard!Start
  <2> QED BY <1>1, <2>1 DEF Wizard!Start
<1>2. ASSUME NEW line \in Record \cup {Wizard!End, Wizard!Bad},
             \/ Wizard!ReadSystem(line)
             \/ Wizard!ReadSection("area", "service", line)
             \/ Wizard!ReadSection("service", "derive", line)
      PROVE  WInv'
  BY <1>2, WizardReads
<1>3. ASSUME Wizard!Derive PROVE WInv'
  <2>1. CASE Wizard!OfSystem(input.area) /\ Wizard!OfSystem(input.service)
    <3>1. OneSystem(input)
      BY <1>3, <2>1 DEF Wizard!Derive, Wizard!OfSystem, OneSystem
    <3> QED BY <1>3, <2>1, <3>1 DEF Wizard!Derive, OneSystem
  <2>2. CASE ~(Wizard!OfSystem(input.area) /\ Wizard!OfSystem(input.service))
    BY <1>3, <2>2 DEF Wizard!Derive
  <2> QED BY <2>1, <2>2
<1>4. ASSUME Wizard!Check PROVE WInv'
  BY <1>4 DEF Wizard!Check, OneSystem
<1>5. ASSUME NEW yes \in BOOLEAN, Wizard!Ask(yes) PROVE WInv'
  BY <1>5 DEF Wizard!Ask, OneSystem
<1>6. ASSUME NEW f \in {"json", "jsonl"}, Wizard!Open(f) PROVE WInv'
  <2>1. wiz_file' \in [Wizard!Paths -> Contents]
    BY <1>6 DEF Wizard!Open, Contents
  <2> QED BY <1>6, <2>1 DEF Wizard!Open, OneSystem
<1>7. ASSUME NEW f \in {"json", "jsonl"}, Wizard!Fill(f) PROVE WInv'
  <2>1. [is |-> f, of |-> input] \in Contents
    BY <1>7 DEF Wizard!Fill, Contents
  <2>2. wiz_file' \in [Wizard!Paths -> Contents]
    BY <1>7, <2>1 DEF Wizard!Fill
  <2> QED BY <1>7, <2>2 DEF Wizard!Fill, OneSystem
<1>8. ASSUME Wizard!Fail PROVE WInv'
  BY <1>8 DEF Wizard!Fail
<1>9. ASSUME UNCHANGED wizardVars PROVE WInv'
  BY <1>9 DEF wizardVars, OneSystem
<1> QED BY <1>1, <1>2, <1>3, <1>4, <1>5, <1>6, <1>7, <1>8, <1>9 DEF Wizard!Next

\* Of a step of the two tools the wizard sees one of its own, or none.
LEMMA ToolsStep ==
  ASSUME [RunSetup \/ RunWizard]_<<tool, vars, wizardVars>>
  PROVE  [Wizard!Next]_wizardVars
  BY DEF RunSetup, RunWizard

\* What felica-keys has read is checked section by section, whatever is typed, and every file
\* was written of checked input, however runs end (bin/felica-keys.rs).
THEOREM WizardInvariance == ToolsSpec => []WInv
<1>1. ToolsInit => WInv
  BY WizardInit DEF ToolsInit
<1>2. WInv /\ [RunSetup \/ RunWizard]_<<tool, vars, wizardVars>> => WInv'
  BY WizardNext, ToolsStep
<1> QED BY <1>1, <1>2, PTL DEF ToolsSpec

\* Whatever is read and however runs end, what felica-keys writes is one system's: its
\* record is of node FFFF, no section is empty, and every code and key was checked.
THEOREM WizardWritesOneSystem == ToolsSpec => []WrittenIsOneSystem
<1>1. WInv => WrittenIsOneSystem
  <2> SUFFICES ASSUME WInv, NEW p \in Wizard!Paths, wiz_file[p].is \in {"json", "jsonl"}
               PROVE  LET of == wiz_file[p].of
                          codes == {r.system_code : r \in {of.system[1]}
                                      \cup {of.area[i] : i \in DOMAIN of.area}
                                      \cup {of.service[i] : i \in DOMAIN of.service}}
                      IN /\ of.system[1].node = SystemNode
                         /\ of.area # <<>> /\ of.service # <<>>
                         /\ codes = {of.system[1].system_code}
                         /\ \A i \in DOMAIN of.area : of.area[i].valid
                         /\ \A i \in DOMAIN of.service : of.service[i].valid
    BY DEF WrittenIsOneSystem, Wizard!WrittenIsOneSystem
  <2> DEFINE of == wiz_file[p].of
  <2>1. wiz_file[p] \in Contents
    BY DEF WInv
  <2>2. OneSystem(of)
    BY <2>1 DEF Contents, Wizard!Absent, Wizard!Torn, Wizard!Other
  <2> DEFINE records == {of.system[1]} \cup {of.area[i] : i \in DOMAIN of.area}
                          \cup {of.service[i] : i \in DOMAIN of.service}
  <2> HIDE DEF of
  <2>3. /\ \A r \in records : r.system_code = of.system[1].system_code
        /\ of.system[1] \in records
    BY <2>2 DEF OneSystem
  <2> HIDE DEF records
  <2>4. {r.system_code : r \in records} = {of.system[1].system_code}
    BY <2>3
  <2> QED BY <2>2, <2>4 DEF OneSystem, of, records
<1> QED BY <1>1, WizardInvariance, PTL

-----------------------------------------------------------------------------
(* The two paths are two files unless OUT ends in .jsonl. *)

\* While a run without --force writes, what it is to write was not there.
FilesFollow ==
  /\ wiz_exit = "running" <=> wiz_at # "idle"
  /\ wiz_at \in {"open jsonl", "fill jsonl"} =>
       wiz_file["json"] = [is |-> "json", of |-> input]
  /\ wiz_exit = "ok" => /\ wiz_file["json"] = [is |-> "json", of |-> input]
                        /\ wiz_file["jsonl"] = [is |-> "jsonl", of |-> input]
  /\ ~wiz_force =>
       /\ wiz_at \in {"ask", "open json"} => wiz_file["json"] = Wizard!Absent
       /\ wiz_at = "fill json" => wiz_file["json"] = Wizard!Torn
       /\ wiz_at \in {"ask", "open json", "fill json", "open jsonl"} =>
            wiz_file["jsonl"] = Wizard!Absent
       /\ wiz_at = "fill jsonl" => wiz_file["jsonl"] = Wizard!Torn

\* Then each file has a path of its own.
LEMMA TwoPaths ==
  ASSUME SamePath = FALSE
  PROVE  /\ Wizard!Paths = {"json", "jsonl"}
         /\ \A f : Wizard!Path(f) = f
  BY DEF Wizard!Paths, Wizard!Path

\* Every step keeps the two files in step.
LEMMA FilesFollowNext ==
  ASSUME SamePath = FALSE, WInv, FilesFollow, [Wizard!Next]_wizardVars
  PROVE  FilesFollow'
<1> USE DEF FilesFollow, Wizard!Ended
<1>1. ASSUME NEW forced \in BOOLEAN, Wizard!Start(forced) PROVE FilesFollow'
  BY <1>1 DEF Wizard!Start
<1>2. ASSUME NEW line \in Record \cup {Wizard!End, Wizard!Bad}, Wizard!ReadSystem(line)
      PROVE  FilesFollow'
  BY <1>2 DEF Wizard!ReadSystem
<1>3. ASSUME NEW line \in Record \cup {Wizard!End, Wizard!Bad},
             \/ Wizard!ReadSection("area", "service", line)
             \/ Wizard!ReadSection("service", "derive", line)
      PROVE  FilesFollow'
  BY <1>3 DEF Wizard!ReadSection
<1>4. ASSUME Wizard!Derive PROVE FilesFollow'
  BY <1>4 DEF Wizard!Derive
<1>5. ASSUME Wizard!Check PROVE FilesFollow'
  <2>1. "json" \in Wizard!Paths /\ "jsonl" \in Wizard!Paths
    BY TwoPaths
  <2> QED BY <1>5, <2>1 DEF Wizard!Check
<1>6. ASSUME NEW yes \in BOOLEAN, Wizard!Ask(yes) PROVE FilesFollow'
  BY <1>6 DEF Wizard!Ask
<1>7. DOMAIN wiz_file = {"json", "jsonl"}
  BY TwoPaths DEF WInv
<1>8. ASSUME Wizard!Open("json") \/ Wizard!Open("jsonl") PROVE FilesFollow'
  BY <1>7, <1>8, TwoPaths DEF Wizard!Open
<1>9. ASSUME Wizard!Fill("json") \/ Wizard!Fill("jsonl") PROVE FilesFollow'
  BY <1>7, <1>9, TwoPaths DEF Wizard!Fill
<1>10. ASSUME Wizard!Fail PROVE FilesFollow'
  BY <1>10 DEF Wizard!Fail
<1>11. ASSUME UNCHANGED wizardVars PROVE FilesFollow'
  BY <1>11 DEF wizardVars
<1> QED BY <1>1, <1>2, <1>3, <1>4, <1>5, <1>6, <1>8, <1>9, <1>10, <1>11 DEF Wizard!Next

\* With two paths, what a run of felica-keys has to write and what it has written fit the two
\* files, however runs end (bin/felica-keys.rs run).
THEOREM FilesInvariance ==
  ASSUME SamePath = FALSE PROVE ToolsSpec => [](WInv /\ FilesFollow)
<1>1. ToolsInit => FilesFollow
  BY DEF ToolsInit, Wizard!Init, FilesFollow
<1>2. WInv /\ FilesFollow /\ [RunSetup \/ RunWizard]_<<tool, vars, wizardVars>>
        => FilesFollow'
  BY FilesFollowNext, ToolsStep
<1> QED BY <1>1, <1>2, WizardInvariance, PTL DEF ToolsSpec

\* With an OUT of any extension but .jsonl, a run of felica-keys that succeeds leaves
\* the derived keys and their records, whatever runs before it left.
THEOREM WizardWritesBoth ==
  ASSUME SamePath = FALSE PROVE ToolsSpec => []BothWritten
<1>1. FilesFollow => BothWritten
  BY TwoPaths DEF FilesFollow, BothWritten, Wizard!BothWritten
<1> QED BY <1>1, FilesInvariance, PTL

\* With such an OUT, a run of felica-keys that was not given --force changes no whole
\* file, its own of the same run included.
THEOREM WizardKeepsFiles ==
  ASSUME SamePath = FALSE PROVE ToolsSpec => WizardAsksForForce
<1> DEFINE Kept == \A p \in Wizard!Paths :
                     Wizard!Whole(p) /\ ~wiz_force => wiz_file'[p] = wiz_file[p]
<1>1. WInv /\ FilesFollow /\ [Wizard!Next]_wizardVars => [Kept]_wizardVars
  <2> SUFFICES ASSUME WInv, FilesFollow, Wizard!Next PROVE Kept
    OBVIOUS
  <2>1. DOMAIN wiz_file = {"json", "jsonl"}
    BY TwoPaths DEF WInv
  <2>2. CASE Wizard!Open("json") \/ Wizard!Open("jsonl")
    BY <2>1, <2>2, TwoPaths DEF Wizard!Open, Wizard!Whole, FilesFollow
  <2>3. CASE Wizard!Fill("json") \/ Wizard!Fill("jsonl")
    BY <2>1, <2>3, TwoPaths DEF Wizard!Fill, Wizard!Whole, FilesFollow
  <2>4. CASE UNCHANGED wiz_file
    BY <2>4
  <2> QED BY <2>2, <2>3, <2>4 DEF Wizard!Next, Wizard!Start, Wizard!ReadSystem,
             Wizard!ReadSection, Wizard!Derive, Wizard!Check, Wizard!Ask, Wizard!Fail
<1>2. [RunSetup \/ RunWizard]_<<tool, vars, wizardVars>> => [Wizard!Next]_wizardVars
  BY ToolsStep
<1>3. UNCHANGED wizardVars => UNCHANGED Wizard!vars
  BY DEF wizardVars, Wizard!vars
<1>4. WInv /\ FilesFollow /\ [RunSetup \/ RunWizard]_<<tool, vars, wizardVars>>
        => [Kept]_(Wizard!vars)
  <2> HIDE DEF Kept
  <2> QED BY <1>1, <1>2, <1>3, Zenon
<1> QED BY <1>4, FilesInvariance, PTL DEF ToolsSpec, WizardAsksForForce, Wizard!OnlyForceReplaces
=============================================================================
