------------------------------- MODULE MCParts -------------------------------
(* Finite instances of twelve components that share no state.  A behaviour is   *)
(* one of one of them: interleaving steps that touch nothing in common would *)
(* add states and no behaviour of any component.  The parts that do not run  *)
(* stay as they start.                                                       *)
EXTENDS TaskGraph, FileLeases, Accounts, ManagedLink, DesktopWorker, CliProcess,
        Rooms, OwnedWorktree, NodeSupervisor, TLC

VARIABLE part        \* the component this behaviour is of

PartsInit ==
  /\ part \in {"graph", "leases", "access", "link", "desktop", "cli",
               "timeline", "composer", "git", "work", "supervisor", "login"}
  /\ GraphInit /\ LeaseInit /\ AccessInit /\ LinkInit /\ DesktopInit /\ CliInit
  /\ TimelineInit /\ ComposerInit /\ GitInit /\ WorkInit /\ SupInit /\ LoginInit
  /\ part # "cli" => owned
  /\ part # "timeline" => kind = "web"
  /\ part # "composer" => client = "phone"
  /\ part # "work" => container = 0
  /\ part # "login" => \A s \in Subjects : identity[s] = 0

GraphRuns ==
  /\ part = "graph" /\ GraphNext
  /\ UNCHANGED <<part, leaseVars, accessVars, linkVars, deskVars, cliVars,
                 timelineVars, composerVars, gitVars, workVars, supVars, loginVars>>
LeasesRun ==
  /\ part = "leases" /\ LeaseNext
  /\ UNCHANGED <<part, graphVars, accessVars, linkVars, deskVars, cliVars,
                 timelineVars, composerVars, gitVars, workVars, supVars, loginVars>>
AccessRuns ==
  /\ part = "access" /\ AccessNext
  /\ UNCHANGED <<part, graphVars, leaseVars, linkVars, deskVars, cliVars,
                 timelineVars, composerVars, gitVars, workVars, supVars, loginVars>>
LinkRuns ==
  /\ part = "link" /\ LinkNext
  /\ UNCHANGED <<part, graphVars, leaseVars, accessVars, deskVars, cliVars,
                 timelineVars, composerVars, gitVars, workVars, supVars, loginVars>>
DesktopRuns ==
  /\ part = "desktop" /\ DesktopNext
  /\ UNCHANGED <<part, graphVars, leaseVars, accessVars, linkVars, cliVars,
                 timelineVars, composerVars, gitVars, workVars, supVars, loginVars>>
CliRuns ==
  /\ part = "cli" /\ CliNext
  /\ UNCHANGED <<part, graphVars, leaseVars, accessVars, linkVars, deskVars,
                 timelineVars, composerVars, gitVars, workVars, supVars, loginVars>>
TimelineRuns ==
  /\ part = "timeline" /\ TimelineNext
  /\ UNCHANGED <<part, graphVars, leaseVars, accessVars, linkVars, deskVars,
                 cliVars, composerVars, gitVars, workVars, supVars, loginVars>>
ComposerRuns ==
  /\ part = "composer" /\ ComposerNext
  /\ UNCHANGED <<part, graphVars, leaseVars, accessVars, linkVars, deskVars,
                 cliVars, timelineVars, gitVars, workVars, supVars, loginVars>>
GitRuns ==
  /\ part = "git" /\ GitNext
  /\ UNCHANGED <<part, graphVars, leaseVars, accessVars, linkVars, deskVars,
                 cliVars, timelineVars, composerVars, workVars, supVars, loginVars>>
WorkRuns ==
  /\ part = "work" /\ WorkNext
  /\ UNCHANGED <<part, graphVars, leaseVars, accessVars, linkVars, deskVars,
                 cliVars, timelineVars, composerVars, gitVars, supVars, loginVars>>

SupervisorRuns ==
  /\ part = "supervisor" /\ SupNext
  /\ UNCHANGED <<part, graphVars, leaseVars, accessVars, linkVars, deskVars, cliVars,
                 timelineVars, composerVars, gitVars, workVars, loginVars>>
LoginRuns ==
  /\ part = "login" /\ LoginNext
  /\ UNCHANGED <<part, graphVars, leaseVars, accessVars, linkVars, deskVars, cliVars,
                 timelineVars, composerVars, gitVars, workVars, supVars>>

PartsNext ==
  \/ GraphRuns \/ LeasesRun \/ AccessRuns \/ LinkRuns \/ DesktopRuns \/ CliRuns
  \/ TimelineRuns \/ ComposerRuns \/ GitRuns \/ WorkRuns \/ SupervisorRuns
  \/ LoginRuns
PartsSpec ==
  PartsInit
    /\ [][PartsNext]_<<part, graphVars, leaseVars, accessVars, linkVars, deskVars,
                        cliVars, timelineVars, composerVars, gitVars, workVars,
                        supVars, loginVars>>

-----------------------------------------------------------------------------
(* Values *)

OneProject == [t \in Tasks |-> 1]

\* run1 and hand1 are leases of run r1, run2 of r2, task of no run.
HolderRunVal ==
  [o \in Owners \cup {"run1"} |->
     CASE o = "task" -> NoRun [] o \in {"run1", "hand1"} -> "r1" [] o = "run2" -> "r2"]
RunOwnerVal == [r \in LeaseRuns |-> IF r = "r1" THEN "run1" ELSE "run2"]
\* r1 declares one file twice, spelled differently; r2 the directory over it.
WritePathsVal ==
  [r \in LeaseRuns |-> IF r = "r1" THEN {<<"src", "a">>, <<"SRC", ".", "a">>} ELSE {<<"src">>}]
RawPathsVal == {<<"SRC", "a">>, <<"src", "..", "doc">>, <<"a", "..", "..">>, <<".">>}
WorkFilesVal == {<<"src", "a">>, <<"src", "b">>, <<"doc">>}
LastMessageVal == [web |-> 4, ios |-> 3]
\* Both subjects have signed in before, or nobody has.
OldUserVal == [s \in Subjects |-> IF s = "s1" THEN 11 ELSE 12]
OldMailVal == [u \in {11, 12} |-> IF u = 11 THEN "m1" ELSE "m2"]
LowerCaseVal == [s \in {"src", "SRC", "a", "doc"} |-> IF s = "SRC" THEN "src" ELSE s]
=============================================================================
