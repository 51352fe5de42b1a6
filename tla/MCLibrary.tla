---------------------------- MODULE MCLibrary ----------------------------
(***************************************************************************)
(* The library and the plans of its books, for TLC: what is kept, brought  *)
(* in, planned, remembered and handed out.  The components meet in the     *)
(* project's record and each has its variables of its own here, so one run *)
(* examines them side by side: a behaviour is a behaviour of one of them.  *)
(***************************************************************************)
EXTENDS ProjectStore, ImportJob, ManuscriptSplit, GithubBackup, ExportCleanup,
        DatabaseBackup, RouteGate, PlanningRun, RollingReplan, PlanningDesk,
        MemoryLedger, HookLedger

VARIABLE part   \* the component this behaviour is of; the others stay as they begin

CONSTANTS b1, b2
MCFirstOrder == <<"c1", "c2", "c3">>
MCStories == {[place |-> "court", item |-> "lost", fact |-> "alive", thread |-> "open", bond |-> "-"],
              [place |-> "port", item |-> "back", fact |-> "dead", thread |-> "closed", bond |-> "rift"],
              [place |-> "-", item |-> "found", fact |-> "-", thread |-> "-", bond |-> "trust"]}
MCLapses == {{}, {"characters", "facts", "threads"}}

\* a title of each style; marks between and around letters; names inside names
MCTitle(style, digits) == [style |-> style, digits |-> digits]
MCShort(chars, n) == UNION {[1..k -> chars] : k \in 0..n}
MCMarks == {"straight", "lcurly", "rcurly", "dot", "stop", "dash", "sp"}
MCLines == MCShort({"w", "a", "rcorner"} \cup MCMarks, 2)
           \cup {<<"w">> \o m \o <<"w">> : m \in MCShort(MCMarks, 2)}
           \cup {<<"a", "dash", "a", "w">>}
MCCast == <<<<"w", "x", "y">>, <<"w", "x">>>>
MCRenamings == {<<>>, <<[from |-> <<"w", "x">>, to |-> <<"y", "x">>]>>,
                <<[from |-> <<"x", "y">>, to |-> <<"w", "x">>], [from |-> <<"y", "y">>, to |-> <<"x", "y">>]>>}
MCSelection(marks, numbers, maps, unlock) ==
  [marks |-> marks, numbers |-> numbers, maps |-> maps, unlock |-> unlock, scope |-> {1, 2}]
MCSelections ==
  {MCSelection(TRUE, FALSE, <<>>, FALSE), MCSelection(FALSE, TRUE, <<>>, TRUE),
   [MCSelection(TRUE, TRUE, <<>>, TRUE) EXCEPT !.scope = {2}]}
  \cup {MCSelection(FALSE, FALSE, m, FALSE) : m \in MCRenamings \ {<<>>}}
MCPages(title, lines) ==
  <<[title |-> title, lines |-> lines, locked |-> FALSE],
    [title |-> MCTitle("arabic", <<"2">>), lines |-> <<<<"lcorner", "w", "rcorner">>, <<>>, <<>>, <<"x">>>>, locked |-> TRUE]>>
MCNumbers == {0, 1, 10, 11, 20, 101, 110, 1001, 1010}
MCFirstBooks ==
  {MCPages(MCTitle("", <<>>), <<ln>>) : ln \in MCLines}
  \cup {MCPages(MCTitle("cn", Written(v)), <<<<"w">>>>) : v \in MCNumbers \ {0}}
  \cup {[MCPages(MCTitle("arabic", Decimal(v)), <<<<"w">>>>) EXCEPT ![2].title = MCTitle("cn", <<"2">>)] : v \in MCNumbers}
  \cup {MCPages(MCTitle("", <<>>), <<ln>>) : ln \in MCShort({"w", "x", "y"}, 3)}

AnyPages == MCPages(MCTitle("", <<>>), << <<>> >>)
AnyCopies == <<OldFile, {}>>
AnyPlace == <<[position |-> 0, size |-> Min(VolumeSizes), turns |-> Min(TurnCounts)],
              [seeded |-> FALSE, legacy |-> FALSE, reserved |-> FALSE]>>
AnyStory == [n \in Pages |-> CHOOSE s \in Stories : TRUE]
NothingPlanned == [c \in Leaves |-> NoPromise]

Components == {"store", "import", "split", "github", "export", "backup", "gate", "planning", "replan", "desk", "ledger", "hooks"}
allVars == <<part, storeVars, importVars, splitVars, githubVars, cleanVars, backupVars, gateVars, planVars, replanVars, deskVars, ledgerVars, hookVars>>

\* a component that begins in one of several states begins in one of them where it is not the part
LibraryInit ==
  /\ part \in Components
  /\ StoreInit
  /\ ImportInit
  /\ SplitInit /\ (part = "split" \/ splitMode = "auto")
  /\ GithubInit
  /\ CleanInit /\ (part = "export" \/ pages = AnyPages)
  /\ BackupInit /\ (part = "backup" \/ <<library, copies[location]>> = AnyCopies)
  /\ GateInit /\ (part = "gate" \/ <<place, rules>> = AnyPlace)
  /\ PlanInit /\ (part = "planning" \/ asked = 1)
  /\ ReplanInit
  /\ DeskInit
  /\ LedgerInit /\ (part = "ledger" \/ story = AnyStory)
  /\ HookInit /\ (part = "hooks" \/ planned = NothingPlanned)

ProjectStorePart ==
  /\ part = "store" /\ StoreNext
  /\ UNCHANGED <<part, importVars, splitVars, githubVars, cleanVars, backupVars, gateVars, planVars,
                 replanVars, deskVars, ledgerVars, hookVars>>
ImportJobPart ==
  /\ part = "import" /\ ImportNext
  /\ UNCHANGED <<part, storeVars, splitVars, githubVars, cleanVars, backupVars, gateVars, planVars,
                 replanVars, deskVars, ledgerVars, hookVars>>
ManuscriptSplitPart ==
  /\ part = "split" /\ SplitNext
  /\ UNCHANGED <<part, storeVars, importVars, githubVars, cleanVars, backupVars, gateVars, planVars,
                 replanVars, deskVars, ledgerVars, hookVars>>
GithubBackupPart ==
  /\ part = "github" /\ GithubNext
  /\ UNCHANGED <<part, storeVars, importVars, splitVars, cleanVars, backupVars, gateVars, planVars,
                 replanVars, deskVars, ledgerVars, hookVars>>
ExportCleanupPart ==
  /\ part = "export" /\ CleanNext
  /\ UNCHANGED <<part, storeVars, importVars, splitVars, githubVars, backupVars, gateVars, planVars,
                 replanVars, deskVars, ledgerVars, hookVars>>
DatabaseBackupPart ==
  /\ part = "backup" /\ BackupNext
  /\ UNCHANGED <<part, storeVars, importVars, splitVars, githubVars, cleanVars, gateVars, planVars,
                 replanVars, deskVars, ledgerVars, hookVars>>
RouteGatePart ==
  /\ part = "gate" /\ GateNext
  /\ UNCHANGED <<part, storeVars, importVars, splitVars, githubVars, cleanVars, backupVars, planVars,
                 replanVars, deskVars, ledgerVars, hookVars>>
PlanningRunPart ==
  /\ part = "planning" /\ PlanNext
  /\ UNCHANGED <<part, storeVars, importVars, splitVars, githubVars, cleanVars, backupVars, gateVars,
                 replanVars, deskVars, ledgerVars, hookVars>>
RollingReplanPart ==
  /\ part = "replan" /\ ReplanNext
  /\ UNCHANGED <<part, storeVars, importVars, splitVars, githubVars, cleanVars, backupVars, gateVars,
                 planVars, deskVars, ledgerVars, hookVars>>
PlanningDeskPart ==
  /\ part = "desk" /\ DeskNext
  /\ UNCHANGED <<part, storeVars, importVars, splitVars, githubVars, cleanVars, backupVars, gateVars,
                 planVars, replanVars, ledgerVars, hookVars>>
MemoryLedgerPart ==
  /\ part = "ledger" /\ LedgerNext
  /\ UNCHANGED <<part, storeVars, importVars, splitVars, githubVars, cleanVars, backupVars, gateVars,
                 planVars, replanVars, deskVars, hookVars>>
HookLedgerPart ==
  /\ part = "hooks" /\ HookNext
  /\ UNCHANGED <<part, storeVars, importVars, splitVars, githubVars, cleanVars, backupVars, gateVars,
                 planVars, replanVars, deskVars, ledgerVars>>

LibraryNext ==
  \/ ProjectStorePart \/ ImportJobPart \/ ManuscriptSplitPart \/ GithubBackupPart \/ ExportCleanupPart
  \/ DatabaseBackupPart \/ RouteGatePart \/ PlanningRunPart \/ RollingReplanPart \/ PlanningDeskPart
  \/ MemoryLedgerPart \/ HookLedgerPart

LibrarySpec == LibraryInit /\ [][LibraryNext]_allVars
=============================================================================
