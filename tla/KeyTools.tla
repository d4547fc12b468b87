------------------------------ MODULE KeyTools ------------------------------
(***************************************************************************)
(* The two key tools, felica-setup and felica-keys, in one instance.  They *)
(* have nothing in common but the operator: a behaviour is one of          *)
(* KeyCeremony or one of KeyProvisioning, and the variables of the other   *)
(* stay where they are.                                                    *)
(***************************************************************************)
EXTENDS KeyCeremony

CONSTANTS Record, SystemNode, SamePath, MaxRecords, MaxWizardFailures

VARIABLES tool, wiz_file, wiz_at, input, wiz_force, wiz_exit, wiz_failures

wizardVars == <<wiz_file, wiz_at, input, wiz_force, wiz_exit, wiz_failures>>

Wizard == INSTANCE KeyProvisioning WITH
  MaxFailures <- MaxWizardFailures,
  file <- wiz_file, at <- wiz_at, force <- wiz_force, exit <- wiz_exit,
  failures <- wiz_failures

ToolsInit ==
  \/ /\ tool = "felica-setup" /\ Init
     /\ Wizard!Init /\ wiz_file = [p \in Wizard!Paths |-> Wizard!Absent]
  \/ /\ tool = "felica-keys" /\ Wizard!Init
     /\ Init /\ drawn = (CHOOSE c \in Ceremony : TRUE) /\ file = [f \in Files |-> drawn]

RunSetup == tool = "felica-setup" /\ Next /\ UNCHANGED <<tool, wizardVars>>
RunWizard == tool = "felica-keys" /\ Wizard!Next /\ UNCHANGED <<tool, vars>>

\* The fairness is KeyCeremony's.
ToolsSpec ==
  /\ ToolsInit /\ [][RunSetup \/ RunWizard]_<<tool, vars, wizardVars>>
  /\ WF_vars(tool = "felica-setup" /\ Step)
  /\ SF_vars(tool = "felica-setup" /\ Start(TRUE))

-----------------------------------------------------------------------------
\* What felica-keys writes is one system's (felica-keys.rs run).
WrittenIsOneSystem == Wizard!WrittenIsOneSystem

\* When felica-keys succeeds both of its files are there (felica-keys.rs "wrote {} and
\* {}").
BothWritten == Wizard!BothWritten

\* felica-keys replaces nothing whole unless it is told to (felica-keys.rs "exists
\* (pass --force to overwrite)").
WizardAsksForForce == Wizard!OnlyForceReplaces
=============================================================================
