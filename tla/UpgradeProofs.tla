---------------------------- MODULE UpgradeProofs ----------------------------
(***************************************************************************)
(* Proofs about the commands, for any documents, migrations and folders.   *)
(* The inductive invariant says, step by step, what the index and the      *)
(* folder of the command hold.                                             *)
(***************************************************************************)
EXTENDS Upgrade, TLAPS

IsUpgrade == command = "upgrade"
Working == {"ready", "green", "migrate", "close", "caught", "prompt", "load"}

\* Which command is where.
Placed ==
    /\ at # "idle" => folder \in Folders /\ command # None
    /\ command = "backup" => at \in {"idle", "dump"}
    /\ command = "restore" => at \in {"idle", "caught", "load", "ready", "green", "migrate", "close"}
    /\ at \in {"dump", "load", "prompt"} /\ IsUpgrade => ~dontBackup
    /\ IsUpgrade => allPlugins

\* A dump that goes on will be complete; the index does not change meanwhile.
Dumping ==
    at = "dump" =>
        /\ docs = before /\ folders[folder].there /\ folders[folder].docs = before
        /\ \A p \in Parts : p \in folders[folder].whole \/ \E i \in DOMAIN todo : todo[i] = p

\* An upgrade has its backup until it removes it, or has none and needs none.
Backed ==
    /\ IsUpgrade /\ ~dontBackup /\ at \in Working => BackupHolds
    /\ IsUpgrade /\ ~dontBackup /\ keepBackup /\ at \in {"succeeded", "failed"} => BackupHolds
    /\ IsUpgrade /\ dontBackup => ~Exists(folder)

\* What the index holds.
Loading ==
    at = "load" /\ Complete(folder) /\ (\A i \in DOMAIN todo : todo[i] # "data")
        => docs = folders[folder].docs
Restored ==
    command = "restore" /\ at \in {"ready", "green", "migrate", "close"} /\ Complete(folder)
        => docs = folders[folder].docs
Unchanged ==
    /\ IsUpgrade /\ at \in {"ready", "green"} => docs = before
    /\ at = "failed" /\ ~dontBackup /\ ~declined => docs = before
Staged ==
    /\ IsUpgrade /\ at = "migrate" => \A d \in Documents \ refused : docs[d] >= stage
    /\ IsUpgrade /\ at \in {"close", "succeeded"} => Upgraded
    /\ command = "restore" /\ at = "migrate" => \A d \in Documents : docs[d] = Stages

Inv ==
    /\ TypeOK /\ Placed /\ Dumping /\ Backed /\ Loading /\ Restored /\ Unchanged /\ Staged
    /\ Recoverable /\ ExitTells

USE DEF IsUpgrade, Working, BackupHolds, Complete, Exists, Upgraded, GoesTo, Exits, options,
        Rejected, InCallback

\* The orders of dumps and loads have every part, and the data.
LEMMA Orders ==
    /\ DumpOrder \in Seq(Parts) /\ LoadOrder \in Seq(Parts)
    /\ \A p \in Parts : \E i \in DOMAIN DumpOrder : DumpOrder[i] = p
    /\ \E i \in DOMAIN LoadOrder : LoadOrder[i] = "data"
<1>1. CASE Acl
  <2>1. /\ Parts = {"data", "mapping", "acl data", "acl mapping"}
        /\ DumpOrder = <<"data", "mapping", "acl data", "acl mapping">>
        /\ LoadOrder = <<"mapping", "data", "acl mapping", "acl data">>
    BY <1>1 DEF Parts, DumpOrder, LoadOrder
  <2>2. DumpOrder \in Seq(Parts) /\ LoadOrder \in Seq(Parts)
    <3>1. \A a, b, c, d \in Parts : <<a, b, c, d>> \in Seq(Parts)
      OBVIOUS
    <3> QED
      BY <2>1, <3>1
  <2>4. DOMAIN DumpOrder = 1..4 /\ DOMAIN LoadOrder = 1..4
    <3>1. \A a, b, c, d : DOMAIN <<a, b, c, d>> = 1..4
      OBVIOUS
    <3> QED
      BY <2>1, <3>1
  <2>5. 1 \in 1..4 /\ 2 \in 1..4 /\ 3 \in 1..4 /\ 4 \in 1..4
    OBVIOUS
  <2>3. DumpOrder[1] = "data" /\ DumpOrder[2] = "mapping" /\ DumpOrder[3] = "acl data"
        /\ DumpOrder[4] = "acl mapping" /\ LoadOrder[2] = "data"
    BY <2>1
  <2> QED
    BY <2>1, <2>2, <2>3, <2>4, <2>5
<1>2. CASE ~Acl
  <2>1. Parts = {"data", "mapping"} /\ DumpOrder = <<"data", "mapping">> /\ LoadOrder = <<"mapping", "data">>
    BY <1>2 DEF Parts, DumpOrder, LoadOrder
  <2>2. DumpOrder \in Seq(Parts) /\ LoadOrder \in Seq(Parts)
    BY <2>1
  <2>4. DOMAIN DumpOrder = 1..2 /\ DOMAIN LoadOrder = 1..2
    BY <2>1
  <2>5. 1 \in 1..2 /\ 2 \in 1..2
    OBVIOUS
  <2>3. DumpOrder[1] = "data" /\ DumpOrder[2] = "mapping" /\ LoadOrder[2] = "data"
    BY <2>1
  <2> QED
    BY <2>1, <2>2, <2>3, <2>4, <2>5
<1> QED
  BY <1>1, <1>2

\* The parts of a sequence are its first one and those of the rest.
LEMMA FirstAndRest ==
    ASSUME NEW S, NEW s \in Seq(S), s # << >>
    PROVE  /\ Head(s) \in S /\ Tail(s) \in Seq(S)
           /\ \A p : (\E i \in DOMAIN s : s[i] = p) <=> (p = Head(s) \/ \E i \in DOMAIN Tail(s) : Tail(s)[i] = p)
<1>1. Head(s) = s[1] /\ Head(s) \in S /\ Tail(s) \in Seq(S) /\ 1 \in DOMAIN s
  OBVIOUS
<1>2. DOMAIN s = 1..Len(s) /\ DOMAIN Tail(s) = 1..(Len(s) - 1) /\ Len(s) \in Nat
      /\ \A i \in 1..(Len(s) - 1) : Tail(s)[i] = s[i + 1]
  OBVIOUS
<1>3. ASSUME NEW p, NEW i \in DOMAIN s, s[i] = p
      PROVE  p = Head(s) \/ \E j \in DOMAIN Tail(s) : Tail(s)[j] = p
  <2>1. CASE i = 1
    BY <1>1, <1>3, <2>1
  <2>2. CASE i # 1
    <3>1. i - 1 \in DOMAIN Tail(s) /\ Tail(s)[i - 1] = p
      BY <1>2, <1>3, <2>2
    <3> QED
      BY <3>1
  <2> QED
    BY <2>1, <2>2
<1>4. ASSUME NEW p, NEW j \in DOMAIN Tail(s), Tail(s)[j] = p
      PROVE  \E i \in DOMAIN s : s[i] = p
  <2>1. j + 1 \in DOMAIN s /\ s[j + 1] = p
    BY <1>2, <1>4
  <2> QED
    BY <2>1
<1> QED
  BY <1>1, <1>3, <1>4

\* Nothing has been run.
LEMMA InitInv == Init => Inv
<1> SUFFICES ASSUME Init PROVE Inv
  OBVIOUS
<1>1. TypeOK
  <2>1. << >> \in Seq(Parts)
    OBVIOUS
  <2>2. Initial \in Contents
    BY UpgradeAssumption DEF Contents, Initial
  <2>3. Missing \in Dump
    BY <2>2 DEF Missing, Dump
  <2>4. retries \in 0..Retries /\ stage \in 0..Stages /\ commands \in 0..MaxCommands
    BY UpgradeAssumption DEF Init
  <2> QED
    BY <2>1, <2>2, <2>3, <2>4 DEF Init, TypeOK, None
<1>2. /\ Placed /\ Dumping /\ Backed /\ Loading /\ Restored /\ Unchanged /\ Staged
      /\ Recoverable /\ ExitTells
  BY DEF Init, Placed, Dumping, Backed, Loading, Restored, Unchanged, Staged, Recoverable, ExitTells,
     IsUpgrade, None
<1> QED
  BY <1>1, <1>2 DEF Inv

\* A file of the dump: the ones written and the ones to do are all of them.
LEMMA DumpPartInv == Inv /\ DumpPart => Inv'
<1> SUFFICES ASSUME Inv, DumpPart PROVE Inv'
  OBVIOUS
<1> USE DEF Inv, DumpPart
<1>1. TypeOK'
  <2>1. Head(todo) \in Parts /\ Tail(todo) \in Seq(Parts)
    BY FirstAndRest DEF TypeOK
  <2>2. folders[folder] \in Dump /\ folder \in Folders
    BY DEF TypeOK, Placed
  <2>3. folders' \in [Folders -> Dump]
    <3>1. CASE folders' = [folders EXCEPT ![folder].whole = @ \cup {Head(todo)}]
      BY <2>1, <2>2, <3>1 DEF TypeOK, Dump
    <3>2. CASE folders' = [folders EXCEPT ![folder].torn = @ \cup {Head(todo)}]
      BY <2>1, <2>2, <3>2 DEF TypeOK, Dump
    <3> QED
      BY <3>1, <3>2
  <2>4. todo' \in Seq(Parts) /\ UNCHANGED <<docs, options, retries, stage, refused, before, declined, commands>>
    BY <2>1 DEF TypeOK
  <2>5. at' \in {"dump", "idle"} /\ exit' \in {exit, "1", "ended"}
    BY DEF TypeOK
  <2> QED
    BY <2>3, <2>4, <2>5 DEF TypeOK
<1>2. Placed'
  BY DEF Placed, TypeOK
<1>3. Dumping'
  <2> SUFFICES ASSUME at' = "dump" PROVE Dumping'
    BY DEF Dumping
  <2>1. /\ todo \in Seq(Parts) /\ todo # << >> /\ todo' = Tail(todo) /\ folder \in Folders
        /\ folders' = [folders EXCEPT ![folder].whole = @ \cup {Head(todo)}]
    BY DEF TypeOK, Placed
  <2>2. /\ folders'[folder].whole = folders[folder].whole \cup {Head(todo)}
        /\ folders'[folder].there = folders[folder].there
        /\ folders'[folder].docs = folders[folder].docs
    BY <2>1 DEF TypeOK, Dump
  <2>3. \A p : (\E i \in DOMAIN todo : todo[i] = p)
                 <=> (p = Head(todo) \/ \E i \in DOMAIN Tail(todo) : Tail(todo)[i] = p)
    <3>1. todo \in Seq(Parts) /\ todo # << >>
      BY <2>1
    <3> QED
      BY ONLY <3>1, FirstAndRest
  <2>4. \A p \in Parts : p \in folders'[folder].whole \/ \E i \in DOMAIN todo' : todo'[i] = p
    BY <2>1, <2>2, <2>3 DEF Dumping
  <2> QED
    BY <2>2, <2>4 DEF Dumping
<1>4. Backed'
  BY DEF Backed, TypeOK, Placed
<1>5. Loading'
  BY DEF Loading, TypeOK, Placed
<1>6. Restored'
  BY DEF Restored, TypeOK, Placed
<1>7. Unchanged'
  BY DEF Unchanged, Placed
<1>8. Staged'
  BY DEF Staged, Placed
<1>9. Recoverable'
  BY DEF Recoverable, Placed, Backed, Unchanged, Staged, Dumping
<1>10. ExitTells'
  BY DEF ExitTells, Placed, Backed, Unchanged, Staged, Restored
<1> QED
  BY <1>1, <1>2, <1>3, <1>4, <1>5, <1>6, <1>7, <1>8, <1>9, <1>10

\* Nothing is left to do: the backup is complete.
LEMMA DumpedInv == Inv /\ Dumped => Inv'
<1> SUFFICES ASSUME Inv, Dumped PROVE Inv'
  OBVIOUS
<1> USE DEF Inv, Dumped
<1>1. TypeOK'
  BY DEF TypeOK, Placed
<1>2. Placed'
  BY DEF Placed, TypeOK
<1>3. Dumping'
  BY DEF Dumping, TypeOK, Placed, Dump
<1>4. Backed'
  <2>1. folders[folder].whole = Parts /\ folder \in Folders
    <3>1. \A i \in DOMAIN todo : FALSE
      OBVIOUS
    <3> QED
      BY <3>1 DEF Dumping, TypeOK, Placed, Dump
  <2> QED
    BY <2>1, UpgradeAssumption DEF Backed, Dumping, Placed, None
<1>5. Loading'
  BY DEF Loading, TypeOK, Placed
<1>6. Restored'
  BY DEF Restored, TypeOK, Placed
<1>7. Unchanged'
  BY DEF Unchanged, Placed, Dumping
<1>8. Staged'
  BY DEF Staged, Placed
<1>9. Recoverable'
  BY DEF Recoverable, Placed, Backed, Unchanged, Staged
<1>10. ExitTells'
  <2>1. command = "backup" /\ at' = "idle" => BackupHolds /\ docs = before
    <3>1. \A i \in DOMAIN todo : FALSE
      OBVIOUS
    <3> QED
      BY <3>1, UpgradeAssumption DEF Dumping, TypeOK, Placed, Dump, None
  <2> QED
    BY <2>1 DEF ExitTells
<1> QED
  BY <1>1, <1>2, <1>3, <1>4, <1>5, <1>6, <1>7, <1>8, <1>9, <1>10

\* A file is loaded: once that is the data, the index is as saved.
LEMMA LoadPartInv == Inv /\ LoadPart => Inv'
<1> SUFFICES ASSUME Inv, LoadPart PROVE Inv'
  OBVIOUS
<1> USE DEF Inv, LoadPart
<1>1. TypeOK'
  <2>1. Tail(todo) \in Seq(Parts) /\ folders[folder].docs \in Contents
    BY FirstAndRest DEF TypeOK, Placed, Dump
  <2>2. docs' \in Contents
    BY <2>1 DEF TypeOK, Contents
  <2>3. /\ todo' \in Seq(Parts) /\ at' \in {"load", "idle"} /\ exit' \in {exit, "1", "ended"}
        /\ UNCHANGED <<folders, options, retries, stage, refused, before, declined, commands>>
    BY <2>1 DEF TypeOK
  <2> QED
    BY <2>2, <2>3 DEF TypeOK
<1>2. Placed'
  BY DEF Placed, TypeOK
<1>3. Dumping'
  BY DEF Dumping, TypeOK, Placed, Dump
<1>4. Backed'
  BY DEF Backed, TypeOK, Placed
<1>5. Loading'
  <2> SUFFICES ASSUME at' = "load", Complete(folder), \A i \in DOMAIN todo' : todo'[i] # "data"
               PROVE  docs' = folders[folder].docs
    BY DEF Loading
  <2>1. /\ todo \in Seq(Parts) /\ todo # << >> /\ todo' = Tail(todo)
        /\ docs \in Contents /\ folders[folder].docs \in Contents
    BY DEF TypeOK, Placed, Dump
  <2>2. PICK S \in IF Head(todo) = "data" THEN SUBSET Documents ELSE {{}} :
          docs' = [d \in Documents |-> IF d \in S THEN folders[folder].docs[d] ELSE docs[d]]
    OBVIOUS
  <2>3. CASE Head(todo) = "data"
    <3>1. Head(todo) \in folders[folder].whole
      BY <2>1, FirstAndRest
    <3>2. docs' = [d \in Documents |-> folders[folder].docs[d]]
      BY <2>3, <3>1
    <3> QED
      BY <2>1, <3>2 DEF Contents
  <2>4. CASE Head(todo) # "data"
    <3>1. docs' = docs
      BY <2>1, <2>2, <2>4 DEF Contents
    <3>2. \A p : (\E i \in DOMAIN todo : todo[i] = p)
                   <=> (p = Head(todo) \/ \E i \in DOMAIN Tail(todo) : Tail(todo)[i] = p)
      <4>1. todo \in Seq(Parts) /\ todo # << >>
        BY <2>1
      <4> QED
        BY ONLY <4>1, FirstAndRest
    <3>3. \A i \in DOMAIN todo : todo[i] # "data"
      BY <2>1, <2>4, <3>2
    <3> QED
      BY <3>1, <3>3 DEF Loading
  <2> QED
    BY <2>3, <2>4
<1>6. Restored'
  BY DEF Restored, TypeOK, Placed
<1>7. Unchanged'
  BY DEF Unchanged, Placed
<1>8. Staged'
  BY DEF Staged, Placed
<1>9. Recoverable'
  BY DEF Recoverable, Placed, Backed, Unchanged, Staged
<1>10. ExitTells'
  BY DEF ExitTells, Placed, Backed, Unchanged, Staged, Restored
<1> QED
  BY <1>1, <1>2, <1>3, <1>4, <1>5, <1>6, <1>7, <1>8, <1>9, <1>10

\* All is loaded: the index is as saved.
LEMMA LoadedInv == Inv /\ Loaded => Inv'
<1> SUFFICES ASSUME Inv, Loaded PROVE Inv'
  OBVIOUS
<1> USE DEF Inv, Loaded
<1>1. TypeOK'
  BY DEF TypeOK, Placed
<1>2. Placed'
  BY DEF Placed, TypeOK
<1>3. Dumping'
  BY DEF Dumping, TypeOK, Placed, Dump
<1>4. Backed'
  BY DEF Backed, TypeOK, Placed
<1>5. Loading'
  BY DEF Loading, TypeOK, Placed
<1>6. Restored'
  BY DEF Restored, TypeOK, Placed, Loading
<1>7. Unchanged'
  BY DEF Unchanged, Placed, Loading, Backed, TypeOK
<1>8. Staged'
  BY DEF Staged, Placed
<1>9. Recoverable'
  BY DEF Recoverable, Placed, Backed, Unchanged, Staged
<1>10. ExitTells'
  BY DEF ExitTells, Placed, Backed, Unchanged, Staged, Restored
<1> QED
  BY <1>1, <1>2, <1>3, <1>4, <1>5, <1>6, <1>7, <1>8, <1>9, <1>10

\* The server is ready, or not.
LEMMA ReadyInv == Inv /\ Ready => Inv'
<1> SUFFICES ASSUME Inv, Ready PROVE Inv'
  OBVIOUS
<1> USE DEF Inv, Ready
<1>1. TypeOK'
  BY UpgradeAssumption DEF TypeOK, Placed
<1>2. Placed'
  BY DEF Placed, TypeOK
<1>3. Dumping'
  BY DEF Dumping, TypeOK, Placed, Dump
<1>4. Backed'
  BY DEF Backed, TypeOK, Placed
<1>5. Loading'
  BY DEF Loading, TypeOK, Placed
<1>6. Restored'
  BY DEF Restored, TypeOK, Placed
<1>7. Unchanged'
  BY DEF Unchanged, Placed
<1>8. Staged'
  BY DEF Staged, Placed
<1>9. Recoverable'
  BY DEF Recoverable, Placed, Backed, Unchanged, Staged
<1>10. ExitTells'
  BY DEF ExitTells, Placed, Backed, Unchanged, Staged, Restored
<1> QED
  BY <1>1, <1>2, <1>3, <1>4, <1>5, <1>6, <1>7, <1>8, <1>9, <1>10

\* Nothing is changed before the status is green.
LEMMA WaitForGreenStatusInv == Inv /\ WaitForGreenStatus => Inv'
<1> SUFFICES ASSUME Inv, WaitForGreenStatus PROVE Inv'
  OBVIOUS
<1> USE DEF Inv, WaitForGreenStatus, NoneLeft, Left
<1>1. TypeOK'
  BY UpgradeAssumption DEF TypeOK, Placed
<1>2. Placed'
  BY DEF Placed, TypeOK
<1>3. Dumping'
  BY DEF Dumping, TypeOK, Placed, Dump
<1>4. Backed'
  BY DEF Backed, TypeOK, Placed
<1>5. Loading'
  BY DEF Loading, TypeOK, Placed
<1>6. Restored'
  BY DEF Restored, TypeOK, Placed
<1>7. Unchanged'
  BY DEF Unchanged, Placed
<1>8. Staged'
  BY DEF Staged, Placed, MayBeGreen, Contents, TypeOK
<1>9. Recoverable'
  BY DEF Recoverable, Placed, Backed, Unchanged, Staged
<1>10. ExitTells'
  BY DEF ExitTells, Placed, Backed, Unchanged, Staged, Restored
<1> QED
  BY <1>1, <1>2, <1>3, <1>4, <1>5, <1>6, <1>7, <1>8, <1>9, <1>10

\* After a migration the documents are at the next stage at least, or were refused.
LEMMA MigrateInv == Inv /\ Migrate => Inv'
<1> SUFFICES ASSUME Inv, Migrate PROVE Inv'
  OBVIOUS
<1> USE DEF Inv, Migrate
<1>1. TypeOK'
  <2>1. stage \in 0..Stages /\ stage < Stages /\ Stages \in Nat /\ stage + 1 \in 0..Stages
    BY UpgradeAssumption DEF TypeOK
  <2>2. docs' \in Contents
    BY <2>1 DEF TypeOK, Contents
  <2>3. /\ refused' \subseteq Documents /\ stage' \in {stage, stage + 1} /\ at' \in {"migrate", "caught"}
        /\ UNCHANGED <<folders, options, todo, retries, before, declined, commands, exit>>
    BY DEF TypeOK
  <2> QED
    BY <2>1, <2>2, <2>3 DEF TypeOK
<1>2. Placed'
  BY DEF Placed, TypeOK
<1>3. Dumping'
  BY DEF Dumping, TypeOK, Placed, Dump
<1>4. Backed'
  BY DEF Backed, TypeOK, Placed
<1>5. Loading'
  BY DEF Loading, TypeOK, Placed
<1>6. Restored'
  BY DEF Restored, TypeOK, Placed, Staged, Contents
<1>7. Unchanged'
  BY DEF Unchanged, Placed
<1>8. Staged'
  BY DEF Staged, Placed, Contents, TypeOK
<1>9. Recoverable'
  BY DEF Recoverable, Placed, Backed, Unchanged, Staged
<1>10. ExitTells'
  BY DEF ExitTells, Placed, Backed, Unchanged, Staged, Restored
<1> QED
  BY <1>1, <1>2, <1>3, <1>4, <1>5, <1>6, <1>7, <1>8, <1>9, <1>10

\* After the last migration the documents are upgraded.
LEMMA MigratedInv == Inv /\ Migrated => Inv'
<1> SUFFICES ASSUME Inv, Migrated PROVE Inv'
  OBVIOUS
<1> USE DEF Inv, Migrated
<1>1. TypeOK'
  BY DEF TypeOK, Placed
<1>2. Placed'
  BY DEF Placed, TypeOK
<1>3. Dumping'
  BY DEF Dumping, TypeOK, Placed, Dump
<1>4. Backed'
  BY DEF Backed, TypeOK, Placed
<1>5. Loading'
  BY DEF Loading, TypeOK, Placed
<1>6. Restored'
  BY DEF Restored, TypeOK, Placed
<1>7. Unchanged'
  BY DEF Unchanged, Placed
<1>8. Staged'
  BY DEF Staged, Placed, TypeOK, Contents
<1>9. Recoverable'
  BY DEF Recoverable, Placed, Backed, Unchanged, Staged
<1>10. ExitTells'
  BY DEF ExitTells, Placed, Backed, Unchanged, Staged, Restored
<1> QED
  BY <1>1, <1>2, <1>3, <1>4, <1>5, <1>6, <1>7, <1>8, <1>9, <1>10

\* The server is closed after a success.
LEMMA CloseInv == Inv /\ Close => Inv'
<1> SUFFICES ASSUME Inv, Close PROVE Inv'
  OBVIOUS
<1> USE DEF Inv, Close
<1>1. TypeOK'
  BY DEF TypeOK, Placed
<1>2. Placed'
  BY DEF Placed, TypeOK
<1>3. Dumping'
  BY DEF Dumping, TypeOK, Placed, Dump
<1>4. Backed'
  BY DEF Backed, TypeOK, Placed
<1>5. Loading'
  BY DEF Loading, TypeOK, Placed
<1>6. Restored'
  BY DEF Restored, TypeOK, Placed
<1>7. Unchanged'
  BY DEF Unchanged, Placed
<1>8. Staged'
  BY DEF Staged, Placed
<1>9. Recoverable'
  BY DEF Recoverable, Placed, Backed, Unchanged, Staged
<1>10. ExitTells'
  BY DEF ExitTells, Placed, Backed, Unchanged, Staged, Restored, TypeOK
<1> QED
  BY <1>1, <1>2, <1>3, <1>4, <1>5, <1>6, <1>7, <1>8, <1>9, <1>10

\* The server is closed after a failure: the backup is there for the prompt.
LEMMA CaughtInv == Inv /\ Caught => Inv'
<1> SUFFICES ASSUME Inv, Caught PROVE Inv'
  OBVIOUS
<1> USE DEF Inv, Caught, Failed
<1>1. TypeOK'
  BY DEF TypeOK, Placed
<1>2. Placed'
  BY DEF Placed, TypeOK
<1>3. Dumping'
  BY DEF Dumping, TypeOK, Placed, Dump
<1>4. Backed'
  BY DEF Backed, TypeOK, Placed
<1>5. Loading'
  BY DEF Loading, TypeOK, Placed
<1>6. Restored'
  BY DEF Restored, TypeOK, Placed
<1>7. Unchanged'
  BY DEF Unchanged, Placed
<1>8. Staged'
  BY DEF Staged, Placed
<1>9. Recoverable'
  BY DEF Recoverable, Placed, Backed, Unchanged, Staged
<1>10. ExitTells'
  BY DEF ExitTells, Placed, Backed, Unchanged, Staged, Restored
<1> QED
  BY <1>1, <1>2, <1>3, <1>4, <1>5, <1>6, <1>7, <1>8, <1>9, <1>10

\* A restore loads the data; who declines is exempt.
LEMMA AnswerInv == Inv /\ Answer => Inv'
<1> SUFFICES ASSUME Inv, Answer PROVE Inv'
  OBVIOUS
<1> USE DEF Inv, Answer
<1>1. TypeOK'
  BY Orders DEF TypeOK, Placed
<1>2. Placed'
  BY DEF Placed, TypeOK
<1>3. Dumping'
  BY DEF Dumping, TypeOK, Placed, Dump
<1>4. Backed'
  BY DEF Backed, TypeOK, Placed
<1>5. Loading'
  <2>1. \E i \in DOMAIN LoadOrder : LoadOrder[i] = "data"
    BY Orders
  <2> QED
    BY <2>1 DEF Loading
<1>6. Restored'
  BY DEF Restored, TypeOK, Placed
<1>7. Unchanged'
  BY DEF Unchanged, Placed
<1>8. Staged'
  BY DEF Staged, Placed
<1>9. Recoverable'
  BY DEF Recoverable, Placed, Backed, Unchanged, Staged
<1>10. ExitTells'
  BY DEF ExitTells, Placed, Backed, Unchanged, Staged, Restored
<1> QED
  BY <1>1, <1>2, <1>3, <1>4, <1>5, <1>6, <1>7, <1>8, <1>9, <1>10

\* Without an answer the backup stays.
LEMMA InputEndsInv == Inv /\ InputEnds => Inv'
<1> SUFFICES ASSUME Inv, InputEnds PROVE Inv'
  OBVIOUS
<1> USE DEF Inv, InputEnds
<1>1. TypeOK'
  BY DEF TypeOK, Placed
<1>2. Placed'
  BY DEF Placed, TypeOK
<1>3. Dumping'
  BY DEF Dumping, TypeOK, Placed, Dump
<1>4. Backed'
  BY DEF Backed, TypeOK, Placed
<1>5. Loading'
  BY DEF Loading, TypeOK, Placed
<1>6. Restored'
  BY DEF Restored, TypeOK, Placed
<1>7. Unchanged'
  BY DEF Unchanged, Placed
<1>8. Staged'
  BY DEF Staged, Placed
<1>9. Recoverable'
  BY DEF Recoverable, Placed, Backed, Unchanged, Staged
<1>10. ExitTells'
  BY DEF ExitTells, Placed, Backed, Unchanged, Staged, Restored, TypeOK
<1> QED
  BY <1>1, <1>2, <1>3, <1>4, <1>5, <1>6, <1>7, <1>8, <1>9, <1>10

\* What was removed of the backup before the removal fails is not needed.
LEMMA RemoveFailsInv == Inv /\ RemoveFails => Inv'
<1> SUFFICES ASSUME Inv, RemoveFails PROVE Inv'
  OBVIOUS
<1> USE DEF Inv, RemoveFails, Removes
<1>1. TypeOK'
  BY DEF TypeOK, Placed
<1>2. Placed'
  BY DEF Placed, TypeOK
<1>3. Dumping'
  BY DEF Dumping, TypeOK, Placed, Dump
<1>4. Backed'
  BY DEF Backed, TypeOK, Placed
<1>5. Loading'
  BY DEF Loading, TypeOK, Placed
<1>6. Restored'
  BY DEF Restored, TypeOK, Placed
<1>7. Unchanged'
  BY DEF Unchanged, Placed
<1>8. Staged'
  BY DEF Staged, Placed
<1>9. Recoverable'
  BY DEF Recoverable, Placed, Backed, Unchanged, Staged
<1>10. ExitTells'
  BY DEF ExitTells, Placed, Backed, Unchanged, Staged, Restored, TypeOK
<1> QED
  BY <1>1, <1>2, <1>3, <1>4, <1>5, <1>6, <1>7, <1>8, <1>9, <1>10

\* The backup is only removed when the index is upgraded, or as it was.
LEMMA RemovePartInv == Inv /\ RemovePart => Inv'
<1> SUFFICES ASSUME Inv, RemovePart PROVE Inv'
  OBVIOUS
<1> USE DEF Inv, RemovePart, Removes
<1>1. TypeOK'
  <2>1. folders[folder] \in Dump /\ folder \in Folders /\ Missing \in Dump
    BY UpgradeAssumption DEF TypeOK, Placed, Dump, Missing, Initial, Contents
  <2>2. folders' \in [Folders -> Dump]
    BY <2>1 DEF TypeOK, Dump
  <2> QED
    BY <2>2 DEF TypeOK
<1>2. Placed'
  BY DEF Placed, TypeOK
<1>3. Dumping'
  BY DEF Dumping, TypeOK, Placed, Dump
<1>4. Backed'
  BY DEF Backed, TypeOK, Placed
<1>5. Loading'
  BY DEF Loading, TypeOK, Placed
<1>6. Restored'
  BY DEF Restored, TypeOK, Placed
<1>7. Unchanged'
  BY DEF Unchanged, Placed
<1>8. Staged'
  BY DEF Staged, Placed
<1>9. Recoverable'
  BY DEF Recoverable, Placed, Backed, Unchanged, Staged
<1>10. ExitTells'
  BY DEF ExitTells, Placed, Backed, Unchanged, Staged, Restored
<1> QED
  BY <1>1, <1>2, <1>3, <1>4, <1>5, <1>6, <1>7, <1>8, <1>9, <1>10

\* The exit codes.
LEMMA ExitInv == Inv /\ Exit => Inv'
<1> SUFFICES ASSUME Inv, Exit PROVE Inv'
  OBVIOUS
<1> USE DEF Inv, Exit, Removes
<1>1. TypeOK'
  BY DEF TypeOK, Placed
<1>2. Placed'
  BY DEF Placed, TypeOK
<1>3. Dumping'
  BY DEF Dumping, TypeOK, Placed, Dump
<1>4. Backed'
  BY DEF Backed, TypeOK, Placed
<1>5. Loading'
  BY DEF Loading, TypeOK, Placed
<1>6. Restored'
  BY DEF Restored, TypeOK, Placed
<1>7. Unchanged'
  BY DEF Unchanged, Placed
<1>8. Staged'
  BY DEF Staged, Placed
<1>9. Recoverable'
  BY DEF Recoverable, Placed, Backed, Unchanged, Staged
<1>10. ExitTells'
  BY DEF ExitTells, Placed, Backed, Unchanged, Staged, Restored, TypeOK
<1> QED
  BY <1>1, <1>2, <1>3, <1>4, <1>5, <1>6, <1>7, <1>8, <1>9, <1>10

\* A kill changes no more than the file being written.
LEMMA KilledInv == Inv /\ Killed => Inv'
<1> SUFFICES ASSUME Inv, Killed PROVE Inv'
  OBVIOUS
<1> USE DEF Inv, Killed
<1>1. TypeOK'
  <2>1. todo # << >> => Head(todo) \in Parts
    BY FirstAndRest DEF TypeOK
  <2>2. folders[folder] \in Dump /\ folder \in Folders
    BY DEF TypeOK, Placed
  <2>3. folders' \in [Folders -> Dump]
    BY <2>1, <2>2 DEF TypeOK, Dump
  <2> QED
    BY <2>3 DEF TypeOK
<1>2. Placed'
  BY DEF Placed, TypeOK
<1>3. Dumping'
  BY DEF Dumping, TypeOK, Placed, Dump
<1>4. Backed'
  BY DEF Backed, TypeOK, Placed
<1>5. Loading'
  BY DEF Loading, TypeOK, Placed
<1>6. Restored'
  BY DEF Restored, TypeOK, Placed
<1>7. Unchanged'
  BY DEF Unchanged, Placed
<1>8. Staged'
  BY DEF Staged, Placed
<1>9. Recoverable'
  BY DEF Recoverable, Placed, Backed, Unchanged, Staged, Dumping
<1>10. ExitTells'
  BY DEF ExitTells, Placed, Backed, Unchanged, Staged, Restored
<1> QED
  BY <1>1, <1>2, <1>3, <1>4, <1>5, <1>6, <1>7, <1>8, <1>9, <1>10

-----------------------------------------------------------------------------
\* The beginning of a command.
LEMMA BeginsInv ==
    ASSUME Inv, NEW d \in Folders, Backup(d) \/ Restore(d) \/ UpgradeCommand(d)
    PROVE  Inv'
<1> USE DEF Inv
<1>1. /\ at = "idle" /\ docs' = docs /\ before' = docs /\ folder' = d /\ refused' = {} /\ declined' = FALSE
      /\ commands < MaxCommands /\ commands' = commands + 1 /\ UNCHANGED <<retries, stage>>
      /\ dontBackup' \in BOOLEAN /\ keepBackup' \in BOOLEAN /\ allPlugins' \in BOOLEAN
  BY DEF Begins, Backup, Restore, UpgradeCommand
<1>2. \/ /\ command' \in {"backup", "upgrade"} /\ at' = "dump" /\ todo' = DumpOrder /\ ~Exists(d)
         /\ folders' = [folders EXCEPT ![d] = Empty] /\ exit' = exit
         /\ command' = "upgrade" => ~dontBackup' /\ allPlugins'
      \/ /\ command' \in {"backup", "restore"} /\ at' = "idle" /\ exit' = "1" /\ UNCHANGED <<folders, todo>>
      \/ command' = "restore" /\ at' = "load" /\ todo' = LoadOrder /\ UNCHANGED <<folders, exit>>
      \/ /\ command' = "upgrade" /\ dontBackup' /\ allPlugins' /\ at' = "ready" /\ ~Exists(d)
         /\ UNCHANGED <<folders, todo, exit>>
  BY DEF Begins, Backup, Restore, UpgradeCommand, Dumps
<1>3. d # None /\ None \notin Folders
  BY UpgradeAssumption DEF None
<1>4. TypeOK'
  <2>1. Empty \in Dump
    BY DEF Empty, Dump, TypeOK
  <2>2. folders' \in [Folders -> Dump] /\ todo' \in Seq(Parts)
    BY <1>2, <2>1, Orders DEF TypeOK
  <2>3. commands' \in 0..MaxCommands
    BY <1>1, UpgradeAssumption DEF TypeOK
  <2>4. /\ command' \in {"backup", "restore", "upgrade", None} /\ at' \in {"dump", "idle", "load", "ready"}
        /\ exit' \in {exit, "1"}
    BY <1>2
  <2> QED
    BY <1>1, <2>2, <2>3, <2>4 DEF TypeOK
<1>5. Placed'
  BY <1>1, <1>2 DEF Placed, None
<1>6. Dumping'
  <2> SUFFICES ASSUME at' = "dump" PROVE Dumping'
    BY DEF Dumping
  <2>1. folders'[d] = Empty /\ todo' = DumpOrder
    BY <1>2 DEF TypeOK
  <2> QED
    BY <1>1, <2>1, Orders DEF Dumping, Empty
<1>7. Backed'
  BY <1>1, <1>2, <1>3 DEF Backed
<1>8. Loading'
  BY <1>1, <1>2, Orders DEF Loading
<1>9. Restored'
  BY <1>1, <1>2, <1>3 DEF Restored
<1>10. Unchanged'
  BY <1>1, <1>2, <1>3 DEF Unchanged
<1>11. Staged'
  BY <1>1, <1>2, <1>3 DEF Staged
<1>12. Recoverable'
  BY <1>1, <1>2, <1>3 DEF Recoverable
<1>13. ExitTells'
  BY <1>1, <1>2, <1>3 DEF ExitTells
<1> QED
  BY <1>4, <1>5, <1>6, <1>7, <1>8, <1>9, <1>10, <1>11, <1>12, <1>13

\* Every step of a command keeps the invariant.
LEMMA NextInv == Inv /\ [Next]_vars => Inv'
<1> SUFFICES ASSUME Inv, [Next]_vars PROVE Inv'
  OBVIOUS
<1>1. CASE UNCHANGED vars
  <2> USE <1>1 DEF vars, Inv
  <2>1. TypeOK' /\ Placed' /\ Dumping'
    BY DEF TypeOK, Placed, Dumping
  <2>2. Backed' /\ Loading' /\ Restored' /\ Unchanged' /\ Staged'
    BY DEF Backed, Loading, Restored, Unchanged, Staged
  <2>3. Recoverable'
    BY DEF Recoverable
  <2>4. ExitTells'
    BY DEF ExitTells
  <2> QED
    BY <2>1, <2>2, <2>3, <2>4
<1>2. CASE \E d \in Folders : Backup(d) \/ Restore(d) \/ UpgradeCommand(d)
  BY <1>2, BeginsInv
<1>3. CASE DumpPart \/ Dumped \/ LoadPart \/ Loaded \/ Ready \/ WaitForGreenStatus \/ Migrate
  BY <1>3, DumpPartInv, DumpedInv, LoadPartInv, LoadedInv, ReadyInv, WaitForGreenStatusInv, MigrateInv
<1>4. CASE Migrated \/ Close \/ Caught \/ Answer \/ InputEnds \/ RemovePart \/ RemoveFails \/ Exit \/ Killed
  BY <1>4, MigratedInv, CloseInv, CaughtInv, AnswerInv, InputEndsInv, RemovePartInv, RemoveFailsInv, ExitInv,
     KilledInv
<1> QED
  BY <1>1, <1>2, <1>3, <1>4 DEF Next

\* What the index and the folder hold at each step of each command.
THEOREM Invariance == Spec => []Inv
BY InitInv, NextInv, PTL DEF Spec

\* An upgrade that fails or is killed anywhere leaves the old index, the new one, or a
\* complete backup of the old one, unless the user declined to restore it.
THEOREM RecoverableHolds == Spec => []Recoverable
BY Invariance, PTL DEF Inv

\* The codes that the commands pass to process.exit agree with the index and the folder.
THEOREM ExitTellsHolds == Spec => []ExitTells
BY Invariance, PTL DEF Inv

\* Every variable keeps its type: the retries are never negative.
THEOREM TypeCorrect == Spec => []TypeOK
BY Invariance, PTL DEF Inv
=============================================================================
