------------------------------- MODULE Upgrade -------------------------------
(***************************************************************************)
(* The commands that change the index from outside the server: backup,     *)
(* restore and upgrade (src/cli/kibi/).  They are run one at a time, in    *)
(* any order; each may fail or be killed at any step and be run again.     *)
(* No server writes to the index meanwhile.                                *)
(***************************************************************************)
EXTENDS Integers, Sequences

CONSTANTS Documents,    \* the documents of the index
          Stages,       \* number of migrations: a document is at a stage from 0 to Stages
          Folders,      \* folders for dumps
          Acl,          \* TRUE: the index of the access control is dumped as well
          Retries,      \* waitForGreenStatus is called with it
          Faults,       \* TRUE: steps may fail, and commands be killed
          MaxCommands   \* bound: commands that are run

ASSUME UpgradeAssumption ==
    /\ Stages \in Nat \ {0} /\ Retries \in Nat \ {0} /\ MaxCommands \in Nat \ {0}
    /\ Acl \in BOOLEAN /\ Faults \in BOOLEAN /\ "none" \notin Folders

None == "none"
Parts == {"data", "mapping"} \cup (IF Acl THEN {"acl data", "acl mapping"} ELSE {})
DumpOrder == IF Acl THEN <<"data", "mapping", "acl data", "acl mapping">> ELSE <<"data", "mapping">>
LoadOrder == IF Acl THEN <<"mapping", "data", "acl mapping", "acl data">> ELSE <<"mapping", "data">>
Contents == [Documents -> 0..Stages]

VARIABLES docs,       \* the index: by document, its stage
          folders,    \* by folder: is it there, the parts written to the end and not, the documents
          command, folder, dontBackup, keepBackup, allPlugins,   \* the command that runs, its
                      \* options: allPlugins is FALSE if a plugin of its directories requires one
                      \* that is not there
          at,         \* where it is: "idle" when no command runs
          todo,       \* dumps or loads still to do
          retries, stage,
          exit,       \* how the last command ended: a code of process.exit, "killed", or "ended"
                      \* for the natural end of the process, whose code is 0
          refused,    \* documents that Elasticsearch refused to write, which nobody looks at
          before,     \* the index when the command began
          declined,   \* the restore was declined
          commands

options == <<command, folder, dontBackup, keepBackup, allPlugins>>
vars == <<docs, folders, options, at, todo, retries, stage, exit, refused, before, declined, commands>>

Initial == [d \in Documents |-> 0]
Dump == [there : BOOLEAN, whole : SUBSET Parts, torn : SUBSET Parts, docs : Contents]
Missing == [there |-> FALSE, whole |-> {}, torn |-> {}, docs |-> Initial]
Empty == [there |-> TRUE, whole |-> {}, torn |-> {}, docs |-> docs]
TypeOK ==
    /\ docs \in Contents /\ before \in Contents /\ refused \subseteq Documents
    /\ folders \in [Folders -> Dump]
    /\ command \in {"backup", "restore", "upgrade", None} /\ folder \in Folders \cup {None}
    /\ dontBackup \in BOOLEAN /\ keepBackup \in BOOLEAN /\ allPlugins \in BOOLEAN /\ declined \in BOOLEAN
    /\ at \in {"idle", "dump", "load", "ready", "green", "migrate", "close", "caught", "prompt",
               "succeeded", "failed"}
    /\ todo \in Seq(Parts) /\ retries \in 0..Retries /\ stage \in 0..Stages
    /\ exit \in {None, "0", "1", "-1", "ended", "killed"}
    /\ commands \in 0..MaxCommands

Exists(d) == d # None /\ folders[d].there
Complete(d) == Exists(d) /\ folders[d].whole = Parts

Init ==
    /\ docs = Initial /\ before = docs /\ refused = {}
    /\ folders = [d \in Folders |-> Missing]
    /\ command = None /\ folder = None /\ dontBackup = FALSE /\ keepBackup = FALSE /\ allPlugins = TRUE
    /\ at = "idle" /\ todo = << >> /\ retries = 0 /\ stage = 0 /\ exit = None
    /\ declined = FALSE /\ commands = 0

-----------------------------------------------------------------------------
\* The command ends, and how.
Exits(code) == at' = "idle" /\ exit' = code
GoesTo(place) == at' = place /\ UNCHANGED exit

Begins(name, d) ==
    /\ at = "idle" /\ commands < MaxCommands /\ commands' = commands + 1
    /\ command' = name /\ folder' = d /\ before' = docs /\ declined' = FALSE /\ refused' = {}
    /\ UNCHANGED <<docs, retries, stage>>

\* backup of BackupKibi: the folder must not exist.
Dumps(d) ==
    IF Exists(d) THEN Exits("1") /\ UNCHANGED <<folders, todo>>
    ELSE /\ GoesTo("dump") /\ todo' = DumpOrder
         /\ folders' = [folders EXCEPT ![d] = Empty]

Backup(d) ==
    /\ Begins("backup", d) /\ Dumps(d)
    /\ dontBackup' = FALSE /\ keepBackup' = TRUE /\ allPlugins' = TRUE

\* By default restore only takes the plugins of src/core_plugins: timelion requires one of
\* src/kibi_plugins.
Restore(d) ==
    /\ Begins("restore", d)
    /\ dontBackup' = FALSE /\ keepBackup' = TRUE /\ allPlugins' \in BOOLEAN
    /\ IF Exists(d) THEN GoesTo("load") /\ todo' = LoadOrder
       ELSE Exits("1") /\ UNCHANGED todo
    /\ UNCHANGED folders

\* The folder of an upgrade is named after the time.
UpgradeCommand(d) ==
    /\ Begins("upgrade", d) /\ ~Exists(d)
    /\ dontBackup' \in BOOLEAN /\ keepBackup' \in BOOLEAN /\ allPlugins' = TRUE
    /\ IF dontBackup' THEN GoesTo("ready") /\ UNCHANGED <<folders, todo>> ELSE Dumps(d)

-----------------------------------------------------------------------------
\* A rejection: the commands, or what runs their actions, exit with 1. Nobody catches that of
\* the callback of the question, and there is nothing left to do.
InCallback == command = "upgrade" /\ at \in {"load", "failed"}
Rejected == Exits(IF InCallback THEN "ended" ELSE "1")

\* One file of the dump.  The mutant writes what it can, and goes on.
DumpPartTorn ==
    /\ at = "dump" /\ todo # << >> /\ todo' = Tail(todo) /\ GoesTo("dump")
    /\ folders' = [folders EXCEPT ![folder].torn = @ \cup {Head(todo)}]
    /\ UNCHANGED <<docs, options, retries, stage, refused, before, declined, commands>>
DumpPart ==
    /\ at = "dump" /\ todo # << >>
    /\ \/ /\ todo' = Tail(todo) /\ GoesTo("dump")
          /\ folders' = [folders EXCEPT ![folder].whole = @ \cup {Head(todo)}]
       \/ /\ Faults /\ Rejected /\ UNCHANGED todo
          /\ folders' = [folders EXCEPT ![folder].torn = @ \cup {Head(todo)}]
    /\ UNCHANGED <<docs, options, retries, stage, refused, before, declined, commands>>

Dumped ==
    /\ at = "dump" /\ todo = << >>
    /\ IF command = "backup" THEN Exits("0") ELSE GoesTo("ready")
    /\ UNCHANGED <<docs, folders, options, todo, retries, stage, refused, before, declined, commands>>

\* One file of the dump is written to the index: all of it, or what its end or an error
\* lets through.  A file that was not written, or not to the end, may fail.
LoadPart ==
    LET part == Head(todo)
        saved == folders[folder]
    IN  /\ at = "load" /\ todo # << >>
        /\ \E S \in IF part = "data" THEN SUBSET Documents ELSE {{}} :
             /\ docs' = [d \in Documents |-> IF d \in S THEN saved.docs[d] ELSE docs[d]]
             /\ \/ /\ part \in saved.whole /\ (part = "data" => S = Documents)
                   /\ todo' = Tail(todo) /\ GoesTo("load")
                \/ /\ part \in saved.torn \ saved.whole /\ todo' = Tail(todo) /\ GoesTo("load")
                \/ /\ Faults \/ part \notin saved.whole
                   /\ part \notin saved.whole \cup saved.torn => S = {}
                   /\ Rejected /\ UNCHANGED todo
        /\ UNCHANGED <<folders, options, retries, stage, refused, before, declined, commands>>

\* restore goes on with an upgrade; an upgrade that was reverted removes its backup.
Loaded ==
    /\ at = "load" /\ todo = << >>
    /\ GoesTo(IF command = "restore" THEN "ready" ELSE "failed")
    /\ UNCHANGED <<docs, folders, options, todo, retries, stage, refused, before, declined, commands>>

-----------------------------------------------------------------------------
\* kbnServer.ready, which upgrade calls outside its try: it is rejected if a plugin is
\* required that is not there (plugin_init.js:16).
Ready ==
    /\ at = "ready"
    /\ \/ allPlugins /\ GoesTo("green") /\ retries' = Retries
       \/ /\ Faults \/ ~allPlugins
          /\ IF command = "upgrade" THEN Rejected ELSE GoesTo("caught")
          /\ UNCHANGED retries
    /\ UNCHANGED <<docs, folders, options, todo, stage, refused, before, declined, commands>>

\* The migrations plugin, which upgrade disables, is red if documents are out of date.
MayBeGreen == command = "restore" => \A d \in Documents : docs[d] = Stages

\* waitForGreenStatus.  The mutants pass retries-- and look for a negative number.
LeftPostfix(n) == n
Left(n) == n - 1
NoneLeftNegative(n) == n < 0
NoneLeft(n) == n = 0
WaitForGreenStatus ==
    /\ at = "green"
    /\ \/ NoneLeft(retries) /\ GoesTo("caught") /\ UNCHANGED <<retries, stage>>
       \/ /\ ~NoneLeft(retries) /\ (Faults \/ ~MayBeGreen)
          /\ retries' = Left(retries) /\ GoesTo("green") /\ UNCHANGED stage
       \/ /\ ~NoneLeft(retries) /\ MayBeGreen
          /\ GoesTo("migrate") /\ stage' = 0 /\ UNCHANGED retries
    /\ UNCHANGED <<docs, folders, options, todo, refused, before, declined, commands>>

\* One migration writes the documents of its stage in bulk: the answer that some were
\* refused is not looked at, and an error may come when some are written.
Migrate ==
    LET outdated == {d \in Documents : docs[d] = stage}
    IN  /\ at = "migrate" /\ stage < Stages
        /\ \E S \in IF Faults THEN SUBSET outdated ELSE {outdated} :
             /\ docs' = [d \in Documents |-> IF d \in S THEN stage + 1 ELSE docs[d]]
             /\ \/ /\ GoesTo("migrate") /\ stage' = stage + 1
                   /\ refused' = refused \cup (outdated \ S)
                \/ Faults /\ GoesTo("caught") /\ UNCHANGED <<stage, refused>>
        /\ UNCHANGED <<folders, options, todo, retries, before, declined, commands>>

Migrated ==
    /\ at = "migrate" /\ stage = Stages /\ GoesTo("close")
    /\ UNCHANGED <<docs, folders, options, todo, retries, stage, refused, before, declined, commands>>

\* kbnServer.close after a success: upgrade calls it in the try, restore in the finally.
Close ==
    /\ at = "close"
    /\ \/ IF command = "upgrade" THEN GoesTo("succeeded") ELSE Exits("0")
       \/ Faults /\ IF command = "upgrade" THEN GoesTo("caught") ELSE Rejected
    /\ UNCHANGED <<docs, folders, options, todo, retries, stage, refused, before, declined, commands>>

\* kbnServer.close after a failure.  The mutant forgets to return false.
FailedTrue == "succeeded"
Failed == IF dontBackup THEN "failed" ELSE "prompt"
Caught ==
    /\ at = "caught"
    /\ \/ IF command = "upgrade" THEN GoesTo(Failed) ELSE Exits("1")
       \/ Faults /\ Rejected
    /\ UNCHANGED <<docs, folders, options, todo, retries, stage, refused, before, declined, commands>>

\* "Do you want to restore from backup files [N/y]"
Answer ==
    /\ at = "prompt"
    /\ \/ GoesTo("load") /\ todo' = LoadOrder /\ UNCHANGED declined
       \/ GoesTo("failed") /\ declined' = TRUE /\ UNCHANGED todo
    /\ UNCHANGED <<docs, folders, options, retries, stage, refused, before, commands>>

\* The input ends before the answer: the callback is not called.
InputEnds ==
    /\ at = "prompt" /\ Exits("ended")
    /\ UNCHANGED <<docs, folders, options, todo, retries, stage, refused, before, declined, commands>>

\* The backup is removed, file after file, unless it is to be kept; then the command exits.
Removes == ~dontBackup /\ ~keepBackup /\ Exists(folder)
RemovePart ==
    /\ at \in {"succeeded", "failed"} /\ Removes
    /\ \/ \E p \in folders[folder].whole : folders' = [folders EXCEPT ![folder].whole = @ \ {p}]
       \/ folders[folder].whole = {} /\ folders' = [folders EXCEPT ![folder] = Missing]
    /\ UNCHANGED <<docs, options, at, todo, retries, stage, exit, refused, before, declined, commands>>

RemoveFails ==
    /\ at \in {"succeeded", "failed"} /\ Removes /\ Faults /\ Rejected
    /\ UNCHANGED <<docs, folders, options, todo, retries, stage, refused, before, declined, commands>>

Exit ==
    /\ at \in {"succeeded", "failed"} /\ ~Removes
    /\ Exits(IF at = "succeeded" THEN "0" ELSE "-1")
    /\ UNCHANGED <<docs, folders, options, todo, retries, stage, refused, before, declined, commands>>

\* The process is killed; the file that it writes is not complete.
Killed ==
    /\ Faults /\ at # "idle" /\ Exits("killed")
    /\ IF at = "dump" /\ todo # << >>
       THEN folders' = [folders EXCEPT ![folder].torn = @ \cup {Head(todo)}]
       ELSE UNCHANGED folders
    /\ UNCHANGED <<docs, options, todo, retries, stage, refused, before, declined, commands>>

Next ==
    \/ \E d \in Folders : Backup(d) \/ Restore(d) \/ UpgradeCommand(d)
    \/ DumpPart \/ Dumped \/ LoadPart \/ Loaded
    \/ Ready \/ WaitForGreenStatus \/ Migrate \/ Migrated \/ Close \/ Caught
    \/ Answer \/ InputEnds \/ RemovePart \/ RemoveFails \/ Exit \/ Killed

Spec == Init /\ [][Next]_vars

\* A command goes on by itself, but for the answer of the user.
Goes ==
    \/ DumpPart \/ Dumped \/ LoadPart \/ Loaded \/ Ready \/ WaitForGreenStatus \/ Migrate
    \/ Migrated \/ Close \/ Caught \/ RemovePart \/ RemoveFails \/ Exit
FairSpec == Spec /\ WF_vars(Goes)

-----------------------------------------------------------------------------
Upgraded == \A d \in Documents \ refused : docs[d] = Stages
BackupHolds == Complete(folder) /\ folders[folder].docs = before

\* From the start of an upgrade with a backup until the next command, and wherever it fails
\* or is killed: the index is as it was, or is upgraded, or can be restored from a complete
\* backup, unless the user declined that.
Recoverable ==
    command = "upgrade" /\ ~dontBackup /\ ~declined => docs = before \/ Upgraded \/ BackupHolds

\* What the codes of process.exit say of the index and of the folder.  A command that ends
\* without one says nothing: after a revert that failed, or a question without an answer, the
\* code is 0 whatever the index holds (upgrade.js:190).
ExitTells ==
    at = "idle" =>
        /\ exit = "0" =>
              CASE command = "backup"  -> BackupHolds /\ docs = before
                [] command = "restore" -> Complete(folder) => docs = folders[folder].docs
                [] command = "upgrade" -> Upgraded
        /\ exit = "-1" /\ ~dontBackup /\ ~declined => docs = before
        /\ exit \in {"0", "-1"} /\ command = "upgrade" =>
              IF keepBackup /\ ~dontBackup THEN BackupHolds ELSE ~Exists(folder)

\* A restore of a complete backup is followed by an upgrade, if nothing fails.
RestoreUpgrades == at = "idle" /\ command = "restore" /\ Complete(folder) => Upgraded

\* A command ends, or waits for the answer of the user.
CommandEnds == at # "idle" ~> at \in {"idle", "prompt"}
=============================================================================
