---------------------------- MODULE Backup_proofs ----------------------------
(***************************************************************************)
(* Proofs about Backup: what a package, a safety copy and a restore hold   *)
(* at each step, when logo changes, exports and restores do not overlap.   *)
(***************************************************************************)
EXTENDS Backup, FiniteSetTheorems, TLAPS

(* One of the three at a time; the logo on disk.                           *)
LogoInv ==
  /\ logo.at # "idle" => ~Restoring /\ export.at = "idle"
  /\ export.at # "idle" => ~Restoring
  /\ logo.at = "picked" => logo.new \in assets \cup {NoFile}
  /\ logo.at = "saved" => db.logo = logo.new
  /\ LogoOnDisk

(* The documents asked for are in the database, then in the main file,     *)
(* then in the snapshot, and the logo is that of the database.             *)
ExportInv ==
  /\ export.at # "idle" => export.asked \subseteq db.rows
  /\ export.at = "copy" => export.asked \subseteq main.rows /\ main.logo = db.logo
  /\ export.at = "pack" => export.asked \subseteq export.snap.rows /\ export.snap.logo = db.logo
  /\ ~torn => \A p \in packages : p.db.logo \in p.assets \cup {NoFile}

(* A content that has what the restore found, and maybe documents since.   *)
Keeps(content) ==
  /\ restore.origin.rows \subseteq content.rows
  /\ content.closed = restore.origin.closed /\ content.logo = restore.origin.logo

(* What the database, the files and the copies are at each step.           *)
RestoreInv ==
  /\ Restoring => restore.package \in packages
  /\ Restoring /\ ~torn => restore.origin.logo \in restore.files \cup {NoFile}
  /\ Restoring /\ restore.at # "verify" => Keeps(db)
  /\ restore.at \in {"checkpoint", "copy", "keep", "clear"} => assets = restore.files
  /\ restore.at = "copy" => Keeps(main)
  /\ restore.at \in {"keep", "clear", "fill", "contents", "verify"} => Keeps(restore.safe)
  /\ restore.at \in {"clear", "fill", "contents", "verify"} => restore.safeAssets = restore.files
  /\ restore.at = "fill" => assets = {}
  /\ restore.at \in {"contents", "verify"} => assets = restore.package.assets
  /\ restore.at = "verify" =>
       /\ restore.package.db.rows \subseteq db.rows
       /\ db.closed = restore.package.db.closed /\ db.logo = restore.package.db.logo

IInv == TypeOK /\ LogoInv /\ ExportInv /\ RestoreInv
-----------------------------------------------------------------------------
LEMMA Losses == /\ Cardinality({}) = 0 /\ Cardinality({"putback"}) = 1
                /\ \A lost \in Lost : Cardinality(lost) \in Nat
<1>1. Cardinality({}) = 0
  BY FS_EmptySet
<1>2. Cardinality({"putback"}) = 1
  BY FS_Singleton
<1>3. ASSUME NEW lost \in Lost PROVE Cardinality(lost) \in Nat
  BY <1>1, <1>2 DEF Lost
<1> QED
  BY <1>1, <1>2, <1>3

(* Each step leaves variables of their types behind.                       *)
LEMMA TypeInductive == TypeOK /\ [Next]_vars => TypeOK'
<1> SUFFICES ASSUME TypeOK, [Next]_vars PROVE TypeOK'
  OBVIOUS
<1> USE BackupAssumption
<1> USE DEF TypeOK, Content, Package, RestoreSteps, Results
<1>1. ASSUME NEW r \in Rows, Write(r) PROVE TypeOK'
  BY <1>1 DEF Write, limitVars
<1>2. ASSUME NEW y \in Years, StartYear(y) PROVE TypeOK'
  BY <1>2 DEF StartYear, limitVars
<1>3. ASSUME NEW y \in Years, CloseYear(y) PROVE TypeOK'
  BY <1>3 DEF CloseYear, limitVars
<1>4. CASE Checkpoint
  BY <1>4 DEF Checkpoint, limitVars
<1>5. ASSUME NEW f \in Files \cup {NoFile}, PickLogo(f) PROVE TypeOK'
  BY <1>5 DEF PickLogo, limitVars
<1>6. CASE SaveLogo
  BY <1>6 DEF SaveLogo, limitVars
<1>7. CASE RemoveOldLogo
  BY <1>7 DEF RemoveOldLogo, NoLogo, limitVars
<1>8. CASE StartExport
  <2>1. export' = [at |-> "checkpoint", asked |-> db.rows, snap |-> Empty]
    BY <1>8 DEF StartExport, NoExport
  <2> QED  BY <1>8, <2>1 DEF StartExport, Empty, limitVars
<1>9. CASE ExportCheckpoint \/ ExportCopy
  <2>1. export' \in [at : {"copy", "pack"}, asked : SUBSET Rows, snap : Content]
    <3>1. CASE ExportCheckpoint  BY <3>1 DEF ExportCheckpoint
    <3>2. CASE ExportCopy        BY <3>2 DEF ExportCopy
    <3> QED  BY <1>9, <3>1, <3>2
  <2>2. main' \in Content
    BY <1>9 DEF ExportCheckpoint, ExportCopy
  <2> QED  BY <1>9, <2>1, <2>2 DEF ExportCheckpoint, ExportCopy, limitVars
<1>10. CASE Pack
  BY <1>10 DEF Pack, NoExport, Empty, limitVars
<1>11. ASSUME NEW p \in packages, StartRestore(p) PROVE TypeOK'
  <2>1. restore' = [at |-> "checkpoint", package |-> p, safe |-> Empty, safeAssets |-> {},
                    origin |-> db, files |-> assets, broken |-> {}]
    BY <1>11 DEF StartRestore, NoRestore
  <2>2. Empty \in Content
    BY DEF Empty
  <2>3. restore' \in [at : {"checkpoint"}, package : Package, safe : Content,
                     safeAssets : SUBSET Files, origin : Content, files : SUBSET Files,
                     broken : SUBSET Breaks]
    BY <2>1, <2>2
  <2>4. restores' \in Nat
    BY <1>11 DEF StartRestore
  <2> QED  BY <1>11, <2>3, <2>4 DEF StartRestore
<1>12. CASE RestoreCheckpoint \/ RestoreCopy \/ KeepAssets
  <2>1. restore' \in [at : {"copy", "keep", "clear"}, package : Package, safe : Content,
                     safeAssets : SUBSET Files, origin : Content, files : SUBSET Files,
                     broken : SUBSET Breaks]
    <3>1. CASE RestoreCheckpoint  BY <3>1 DEF RestoreCheckpoint, Step
    <3>2. CASE RestoreCopy        BY <3>2 DEF RestoreCopy
    <3>3. CASE KeepAssets         BY <3>3 DEF KeepAssets
    <3> QED  BY <1>12, <3>1, <3>2, <3>3
  <2>2. main' \in Content
    BY <1>12 DEF RestoreCheckpoint, RestoreCopy, KeepAssets
  <2> QED  BY <1>12, <2>1, <2>2 DEF RestoreCheckpoint, RestoreCopy, KeepAssets, limitVars
<1>13. CASE ClearAssets \/ FillAssets \/ RestoreContents
  BY <1>13 DEF ClearAssets, FillAssets, RestoreContents, Step, limitVars
<1>14. NoRestore \in [at : {"idle"}, package : Package, safe : Content, safeAssets : SUBSET Files,
                      origin : Content, files : SUBSET Files, broken : SUBSET Breaks]
  BY DEF NoRestore, Empty
<1>15. CASE Verify
  <2>1. restore' \in [at : Results, package : Package, safe : Content, safeAssets : SUBSET Files,
                     origin : Content, files : SUBSET Files, broken : SUBSET Breaks]
    BY <1>14, <1>15 DEF Verify, End
  <2> QED  BY <1>15, <2>1 DEF Verify, limitVars
<1>16. CASE FailEarly \/ FailClear \/ FailFill \/ FailContents \/ FailDetach \/ FailVerify
  <2>1. PICK result \in Results, broken \in SUBSET Breaks : Fail(result, broken)
    BY <1>16 DEF FailEarly, FailClear, FailFill, FailContents, FailDetach, FailVerify, Lost, Breaks
  <2>2. restore' \in [at : Results, package : Package, safe : Content, safeAssets : SUBSET Files,
                     origin : Content, files : SUBSET Files, broken : SUBSET Breaks]
    BY <1>14, <2>1 DEF Fail
  <2>3. torn' \in BOOLEAN
    BY <2>1 DEF Fail
  <2>4. assets' \subseteq Files
    <3>1. ASSUME NEW lost \in Lost, PutBack(lost) PROVE assets' \subseteq Files
      <4>1. restore.safeAssets \subseteq Files /\ restore.package.assets \subseteq Files
        OBVIOUS
      <4> QED  BY <3>1, <4>1 DEF PutBack
    <3>2. assets' \subseteq assets \/ \E lost \in Lost : PutBack(lost)
      BY <1>16 DEF FailEarly, FailClear, FailFill, FailContents, FailDetach, FailVerify
    <3> QED  BY <3>1, <3>2
  <2>5. faults' \in Nat
    <3>1. ASSUME NEW n \in Nat, Fault(n) PROVE faults' \in Nat
      BY <3>1 DEF Fault
    <3>2. ASSUME NEW lost \in Lost, NEW n \in {0, 1, 2}, Fault(n + Cardinality(lost)) PROVE faults' \in Nat
      <4>1. n + Cardinality(lost) \in Nat
        BY Losses
      <4> QED  BY <3>1, <3>2, <4>1
    <3>3. CASE FailEarly \/ FailClear
      BY <3>1, <3>3 DEF FailEarly, FailClear
    <3>4. CASE FailFill \/ FailDetach
      BY <3>2, <3>4 DEF FailFill, FailDetach
    <3>5. CASE FailContents
      BY <3>2, <3>5 DEF FailContents
    <3>6. CASE FailVerify
      BY <3>2, <3>6 DEF FailVerify
    <3> QED  BY <1>16, <3>3, <3>4, <3>5, <3>6
  <2>6. db' \in Content
    BY <1>16 DEF FailEarly, FailClear, FailFill, FailContents, FailDetach, FailVerify
  <2>7. UNCHANGED <<main, packages, logo, export, crashes, restores>>
    BY <1>16 DEF FailEarly, FailClear, FailFill, FailContents, FailDetach, FailVerify
  <2> QED  BY <2>2, <2>3, <2>4, <2>5, <2>6, <2>7
<1>17. CASE Crash
  <2>1. assets' \subseteq Files
    BY <1>17 DEF Crash
  <2>2. torn' \in BOOLEAN /\ crashes' \in Nat /\ restore' = NoRestore
    BY <1>17 DEF Crash
  <2> QED  BY <1>14, <1>17, <2>1, <2>2 DEF Crash, NoLogo, NoExport, Empty
<1>18. CASE UNCHANGED vars
  BY <1>18 DEF vars, limitVars
<1> QED
  BY <1>1, <1>2, <1>3, <1>4, <1>5, <1>6, <1>7, <1>8, <1>9, <1>10, <1>11, <1>12, <1>13,
     <1>15, <1>16, <1>17, <1>18 DEF Next, Work, Export, Restore, Failure
-----------------------------------------------------------------------------
(* What each step does to the invariant, when nothing overlaps.            *)

LEMMA WorkKeeps == Overlap = FALSE /\ IInv /\ Work => LogoInv' /\ ExportInv' /\ RestoreInv'
<1> SUFFICES ASSUME Overlap = FALSE, IInv, Work PROVE LogoInv' /\ ExportInv' /\ RestoreInv'
  OBVIOUS
<1> USE BackupAssumption DEF IInv, Restoring, Results
<1>1. ASSUME NEW r \in Rows, Write(r) PROVE LogoInv' /\ ExportInv' /\ RestoreInv'
  <2>1. db'.rows = db.rows \cup {r} /\ db'.closed = db.closed /\ db'.logo = db.logo
    BY <1>1 DEF Write, TypeOK, Content
  <2>2. UNCHANGED <<main, assets, packages, logo, export, restore, torn>>
    BY <1>1 DEF Write, limitVars
  <2>3. LogoInv'
    BY <2>1, <2>2 DEF LogoInv, LogoOnDisk
  <2>4. ExportInv'
    BY <2>1, <2>2 DEF ExportInv
  <2>5. RestoreInv'
    BY <2>1, <2>2 DEF RestoreInv, Keeps
  <2> QED  BY <2>3, <2>4, <2>5
<1>2. ASSUME NEW y \in Years, StartYear(y) PROVE LogoInv' /\ ExportInv' /\ RestoreInv'
  <2>1. db'.rows = db.rows /\ db'.closed = db.closed /\ db'.logo = db.logo
    BY <1>2 DEF StartYear, TypeOK, Content
  <2>2. UNCHANGED <<main, assets, packages, logo, export, restore, torn>>
    BY <1>2 DEF StartYear, limitVars
  <2>3. LogoInv'
    BY <2>1, <2>2 DEF LogoInv, LogoOnDisk
  <2>4. ExportInv'
    BY <2>1, <2>2 DEF ExportInv
  <2>5. RestoreInv'
    BY <2>1, <2>2 DEF RestoreInv, Keeps
  <2> QED  BY <2>3, <2>4, <2>5
<1>3. ASSUME NEW y \in Years, CloseYear(y) PROVE LogoInv' /\ ExportInv' /\ RestoreInv'
  <2>1. db'.rows = db.rows /\ db'.logo = db.logo /\ ~Restoring /\ export.at = "idle"
    BY <1>3 DEF CloseYear, Quiet, TypeOK, Content
  <2>2. UNCHANGED <<main, assets, packages, logo, export, restore, torn>>
    BY <1>3 DEF CloseYear, limitVars
  <2>3. LogoInv'
    BY <2>1, <2>2 DEF LogoInv, LogoOnDisk
  <2>4. ExportInv'
    BY <2>1, <2>2 DEF ExportInv
  <2>5. RestoreInv'
    BY <2>1, <2>2 DEF RestoreInv, Keeps
  <2> QED  BY <2>3, <2>4, <2>5
<1>4. CASE Checkpoint
  <2>1. main' = db /\ UNCHANGED <<db, assets, packages, logo, export, restore, torn>>
    BY <1>4 DEF Checkpoint, limitVars
  <2>2. LogoInv'
    BY <2>1 DEF LogoInv, LogoOnDisk
  <2>3. ExportInv'
    BY <2>1 DEF ExportInv
  <2>4. RestoreInv'
    BY <2>1 DEF RestoreInv, Keeps
  <2> QED  BY <2>2, <2>3, <2>4
<1>5. ASSUME NEW f \in Files \cup {NoFile}, PickLogo(f) PROVE LogoInv' /\ ExportInv' /\ RestoreInv'
  <2>1. /\ ~Restoring /\ export.at = "idle" /\ assets \subseteq assets' /\ f \in assets' \cup {NoFile}
        /\ logo' = [at |-> "picked", new |-> f, old |-> db.logo]
    BY <1>5 DEF PickLogo, Quiet
  <2>2. UNCHANGED <<db, main, packages, export, restore, torn>>
    BY <1>5 DEF PickLogo, limitVars
  <2>3. LogoInv'
    BY <2>1, <2>2 DEF LogoInv, LogoOnDisk
  <2>4. ExportInv'
    BY <2>1, <2>2 DEF ExportInv
  <2>5. RestoreInv'
    BY <2>1, <2>2 DEF RestoreInv, Keeps
  <2> QED  BY <2>3, <2>4, <2>5
<1>6. CASE SaveLogo
  <2>1. /\ db'.rows = db.rows /\ db'.closed = db.closed /\ db'.logo = logo.new
        /\ logo.at = "picked" /\ logo'.at = "saved" /\ logo'.new = logo.new
    BY <1>6 DEF SaveLogo, TypeOK, Content
  <2>2. UNCHANGED <<main, assets, packages, export, restore, torn>>
    BY <1>6 DEF SaveLogo, limitVars
  <2>3. ~Restoring /\ export.at = "idle" /\ logo.new \in assets \cup {NoFile}
    BY <2>1 DEF LogoInv
  <2>4. LogoInv'
    BY <2>1, <2>2, <2>3 DEF LogoInv, LogoOnDisk
  <2>5. ExportInv'
    BY <2>1, <2>2, <2>3 DEF ExportInv
  <2>6. RestoreInv'
    BY <2>1, <2>2, <2>3 DEF RestoreInv, Keeps
  <2> QED  BY <2>4, <2>5, <2>6
<1>7. CASE RemoveOldLogo
  <2>1. /\ ~Restoring /\ export.at = "idle" /\ db.logo = logo.new /\ logo'.at = "idle"
        /\ assets' = IF logo.old = logo.new THEN assets ELSE assets \ {logo.old}
    BY <1>7 DEF RemoveOldLogo, LogoInv, NoLogo
  <2>2. UNCHANGED <<db, main, packages, export, restore, torn>>
    BY <1>7 DEF RemoveOldLogo, limitVars
  <2>3. LogoInv'
    BY <2>1, <2>2 DEF LogoInv, LogoOnDisk
  <2>4. ExportInv'
    BY <2>1, <2>2 DEF ExportInv
  <2>5. RestoreInv'
    BY <2>1, <2>2 DEF RestoreInv, Keeps
  <2> QED  BY <2>3, <2>4, <2>5
<1> QED
  BY <1>1, <1>2, <1>3, <1>4, <1>5, <1>6, <1>7 DEF Work

LEMMA ExportKeeps == Overlap = FALSE /\ IInv /\ Export => LogoInv' /\ ExportInv' /\ RestoreInv'
<1> SUFFICES ASSUME Overlap = FALSE, IInv, Export PROVE LogoInv' /\ ExportInv' /\ RestoreInv'
  OBVIOUS
<1> USE BackupAssumption DEF IInv, Restoring, Results
<1>1. CASE StartExport
  <2>1. /\ ~Restoring /\ logo.at = "idle"
        /\ export'.at = "checkpoint" /\ export'.asked = db.rows
    BY <1>1 DEF StartExport, Quiet, NoExport
  <2>2. UNCHANGED <<db, main, assets, packages, logo, restore, torn>>
    BY <1>1 DEF StartExport, limitVars
  <2>3. LogoInv'
    BY <2>1, <2>2 DEF LogoInv, LogoOnDisk
  <2>4. ExportInv'
    BY <2>1, <2>2 DEF ExportInv
  <2>5. RestoreInv'
    BY <2>1, <2>2 DEF RestoreInv, Keeps
  <2> QED  BY <2>3, <2>4, <2>5
<1>2. CASE ExportCheckpoint
  <2>1. /\ export.at = "checkpoint" /\ main' = db
        /\ export'.at = "copy" /\ export'.asked = export.asked
    BY <1>2 DEF ExportCheckpoint, TypeOK
  <2>2. UNCHANGED <<db, assets, packages, logo, restore, torn>>
    BY <1>2 DEF ExportCheckpoint, limitVars
  <2>3. LogoInv'
    BY <2>1, <2>2 DEF LogoInv, LogoOnDisk
  <2>4. ExportInv'
    BY <2>1, <2>2 DEF ExportInv
  <2>5. RestoreInv'
    BY <2>1, <2>2 DEF RestoreInv, LogoInv, Keeps
  <2> QED  BY <2>3, <2>4, <2>5
<1>3. CASE ExportCopy
  <2>1. /\ export.at = "copy" /\ export'.at = "pack"
        /\ export'.asked = export.asked /\ export'.snap = main
    BY <1>3 DEF ExportCopy, TypeOK
  <2>2. UNCHANGED <<db, main, assets, packages, logo, restore, torn>>
    BY <1>3 DEF ExportCopy, limitVars
  <2>3. LogoInv'
    BY <2>1, <2>2 DEF LogoInv, LogoOnDisk
  <2>4. ExportInv'
    BY <2>1, <2>2 DEF ExportInv
  <2>5. RestoreInv'
    BY <2>1, <2>2 DEF RestoreInv, Keeps
  <2> QED  BY <2>3, <2>4, <2>5
<1>4. CASE Pack
  <2>1. /\ export.at = "pack" /\ export'.at = "idle"
        /\ packages' = packages \cup {[db |-> export.snap, assets |-> assets]}
    BY <1>4 DEF Pack, NoExport
  <2>2. UNCHANGED <<db, main, assets, logo, restore, torn>>
    BY <1>4 DEF Pack, limitVars
  <2>3. ~Restoring
    BY <2>1 DEF LogoInv
  <2>4. ~torn => export.snap.logo \in assets \cup {NoFile}
    BY <2>1, <2>3 DEF LogoInv, LogoOnDisk, ExportInv
  <2>5. LogoInv'
    BY <2>1, <2>2 DEF LogoInv, LogoOnDisk
  <2>6. ExportInv'
    BY <2>1, <2>2, <2>4 DEF ExportInv
  <2>7. RestoreInv'
    BY <2>1, <2>2, <2>3 DEF RestoreInv, Keeps
  <2> QED  BY <2>5, <2>6, <2>7
<1> QED
  BY <1>1, <1>2, <1>3, <1>4 DEF Export
LEMMA RestoreKeeps == Overlap = FALSE /\ IInv /\ Restore => LogoInv' /\ ExportInv' /\ RestoreInv'
<1> SUFFICES ASSUME Overlap = FALSE, IInv, Restore PROVE LogoInv' /\ ExportInv' /\ RestoreInv'
  OBVIOUS
<1> USE BackupAssumption DEF IInv, Restoring, Results
<1>1. ASSUME NEW p \in packages, StartRestore(p) PROVE LogoInv' /\ ExportInv' /\ RestoreInv'
  <2>1. /\ ~Restoring /\ logo.at = "idle" /\ export.at = "idle"
        /\ restore'.at = "checkpoint" /\ restore'.package = p
        /\ restore'.origin = db /\ restore'.files = assets
    BY <1>1 DEF StartRestore, Quiet, NoRestore
  <2>2. UNCHANGED <<db, main, assets, packages, logo, export, torn>>
    BY <1>1 DEF StartRestore
  <2>3. LogoInv'
    BY <2>1, <2>2 DEF LogoInv, LogoOnDisk
  <2>4. ExportInv'
    BY <2>1, <2>2 DEF ExportInv
  <2>5. RestoreInv'
    BY <2>1, <2>2 DEF RestoreInv, LogoInv, LogoOnDisk, Keeps
  <2> QED  BY <2>3, <2>4, <2>5
<1>2. CASE RestoreCheckpoint
  <2>1. /\ restore.at = "checkpoint" /\ restore'.at = "copy"
        /\ restore'.package = restore.package /\ restore'.origin = restore.origin /\ restore'.files = restore.files
        /\ main' = db
    BY <1>2 DEF RestoreCheckpoint, Step, TypeOK
  <2>2. UNCHANGED <<db, assets, packages, logo, export, torn>>
    BY <1>2 DEF RestoreCheckpoint, limitVars
  <2>3. logo.at = "idle" /\ export.at = "idle"
    BY <2>1 DEF LogoInv
  <2>4. LogoInv'
    BY <2>1, <2>2, <2>3 DEF LogoInv, LogoOnDisk
  <2>5. ExportInv'
    BY <2>1, <2>2, <2>3 DEF ExportInv
  <2>6. RestoreInv'
    BY <2>1, <2>2, <2>3 DEF RestoreInv, Keeps
  <2> QED  BY <2>4, <2>5, <2>6
<1>3. CASE RestoreCopy
  <2>1. /\ restore.at = "copy" /\ restore'.at = "keep"
        /\ restore'.package = restore.package /\ restore'.origin = restore.origin /\ restore'.files = restore.files
        /\ restore'.safe = main
    BY <1>3 DEF RestoreCopy, Step, TypeOK
  <2>2. UNCHANGED <<db, main, assets, packages, logo, export, torn>>
    BY <1>3 DEF RestoreCopy, limitVars
  <2>3. logo.at = "idle" /\ export.at = "idle"
    BY <2>1 DEF LogoInv
  <2>4. LogoInv'
    BY <2>1, <2>2, <2>3 DEF LogoInv, LogoOnDisk
  <2>5. ExportInv'
    BY <2>1, <2>2, <2>3 DEF ExportInv
  <2>6. RestoreInv'
    BY <2>1, <2>2, <2>3 DEF RestoreInv, Keeps
  <2> QED  BY <2>4, <2>5, <2>6
<1>4. CASE KeepAssets
  <2>1. /\ restore.at = "keep" /\ restore'.at = "clear"
        /\ restore'.package = restore.package /\ restore'.origin = restore.origin /\ restore'.files = restore.files
        /\ restore'.safe = restore.safe /\ restore'.safeAssets = assets
    BY <1>4 DEF KeepAssets, Step, TypeOK
  <2>2. UNCHANGED <<db, main, assets, packages, logo, export, torn>>
    BY <1>4 DEF KeepAssets, limitVars
  <2>3. logo.at = "idle" /\ export.at = "idle"
    BY <2>1 DEF LogoInv
  <2>4. LogoInv'
    BY <2>1, <2>2, <2>3 DEF LogoInv, LogoOnDisk
  <2>5. ExportInv'
    BY <2>1, <2>2, <2>3 DEF ExportInv
  <2>6. RestoreInv'
    BY <2>1, <2>2, <2>3 DEF RestoreInv, Keeps
  <2> QED  BY <2>4, <2>5, <2>6
<1>5. CASE ClearAssets
  <2>1. /\ restore.at = "clear" /\ restore'.at = "fill"
        /\ restore'.package = restore.package /\ restore'.origin = restore.origin /\ restore'.files = restore.files
        /\ restore'.safe = restore.safe /\ restore'.safeAssets = restore.safeAssets /\ assets' = {}
    BY <1>5 DEF ClearAssets, Step, TypeOK
  <2>2. UNCHANGED <<db, main, packages, logo, export, torn>>
    BY <1>5 DEF ClearAssets, limitVars
  <2>3. logo.at = "idle" /\ export.at = "idle"
    BY <2>1 DEF LogoInv
  <2>4. LogoInv'
    BY <2>1, <2>2, <2>3 DEF LogoInv, LogoOnDisk
  <2>5. ExportInv'
    BY <2>1, <2>2, <2>3 DEF ExportInv
  <2>6. RestoreInv'
    BY <2>1, <2>2, <2>3 DEF RestoreInv, Keeps
  <2> QED  BY <2>4, <2>5, <2>6
<1>6. CASE FillAssets
  <2>1. /\ restore.at = "fill" /\ restore'.at = "contents"
        /\ restore'.package = restore.package /\ restore'.origin = restore.origin /\ restore'.files = restore.files
        /\ restore'.safe = restore.safe /\ restore'.safeAssets = restore.safeAssets
        /\ assets' = assets \cup restore.package.assets
    BY <1>6 DEF FillAssets, Step, TypeOK
  <2>2. UNCHANGED <<db, main, packages, logo, export, torn>>
    BY <1>6 DEF FillAssets, limitVars
  <2>3. logo.at = "idle" /\ export.at = "idle"
    BY <2>1 DEF LogoInv
  <2>4. LogoInv'
    BY <2>1, <2>2, <2>3 DEF LogoInv, LogoOnDisk
  <2>5. ExportInv'
    BY <2>1, <2>2, <2>3 DEF ExportInv
  <2>6. RestoreInv'
    BY <2>1, <2>2, <2>3 DEF RestoreInv, Keeps
  <2> QED  BY <2>4, <2>5, <2>6
<1>7. CASE RestoreContents
  <2>1. /\ restore.at = "contents" /\ restore'.at = "verify"
        /\ restore'.package = restore.package /\ restore'.origin = restore.origin /\ restore'.files = restore.files
        /\ restore'.safe = restore.safe /\ restore'.safeAssets = restore.safeAssets /\ db' = restore.package.db
    BY <1>7 DEF RestoreContents, Step, TypeOK
  <2>2. UNCHANGED <<main, assets, packages, logo, export, torn>>
    BY <1>7 DEF RestoreContents, limitVars
  <2>3. logo.at = "idle" /\ export.at = "idle"
    BY <2>1 DEF LogoInv
  <2>4. LogoInv'
    BY <2>1, <2>2, <2>3 DEF LogoInv, LogoOnDisk
  <2>5. ExportInv'
    BY <2>1, <2>2, <2>3 DEF ExportInv
  <2>6. RestoreInv'
    BY <2>1, <2>2, <2>3 DEF RestoreInv, Keeps
  <2> QED  BY <2>4, <2>5, <2>6
<1>8. CASE Verify
  <2>1. restore.at = "verify" /\ restore'.at = "restored"
    BY <1>8 DEF Verify, End
  <2>2. UNCHANGED <<db, main, assets, packages, logo, export, torn>>
    BY <1>8 DEF Verify, limitVars
  <2>3. logo.at = "idle" /\ export.at = "idle"
    BY <2>1 DEF LogoInv
  <2>4. ~torn => db.logo \in assets \cup {NoFile}
    BY <2>1 DEF RestoreInv, ExportInv
  <2>5. LogoInv'
    BY <2>1, <2>2, <2>3, <2>4 DEF LogoInv, LogoOnDisk
  <2>6. ExportInv'
    BY <2>1, <2>2, <2>3, <2>4 DEF ExportInv
  <2>7. RestoreInv'
    BY <2>1, <2>2, <2>3, <2>4 DEF RestoreInv, Keeps
  <2> QED  BY <2>5, <2>6, <2>7
<1> QED
  BY <1>1, <1>2, <1>3, <1>4, <1>5, <1>6, <1>7, <1>8 DEF Restore

LEMMA FailureKeeps == Overlap = FALSE /\ IInv /\ Failure => LogoInv' /\ ExportInv' /\ RestoreInv'
<1> SUFFICES ASSUME Overlap = FALSE, IInv, Failure PROVE LogoInv' /\ ExportInv' /\ RestoreInv'
  OBVIOUS
<1> USE BackupAssumption DEF IInv, Restoring, Results
<1>1. CASE FailEarly
  <2>1. restore.at \in {"checkpoint", "copy", "keep"} /\ restore'.at = "failed" /\ torn' = torn
    BY <1>1 DEF FailEarly, Fail, NoRestore, TypeOK
  <2>2. UNCHANGED <<db, main, assets, packages, logo, export>>
    BY <1>1 DEF FailEarly
  <2>3. logo.at = "idle" /\ export.at = "idle"
    BY <2>1 DEF LogoInv
  <2>4. ~torn => db.logo \in assets \cup {NoFile}
    BY <2>1 DEF RestoreInv, Keeps
  <2>5. LogoInv'
    BY <2>1, <2>2, <2>3, <2>4 DEF LogoInv, LogoOnDisk
  <2>6. ExportInv'
    BY <2>1, <2>2, <2>3, <2>4 DEF ExportInv
  <2>7. RestoreInv'
    BY <2>1, <2>2, <2>3, <2>4 DEF RestoreInv, Keeps
  <2> QED  BY <2>5, <2>6, <2>7
<1>2. CASE FailClear \/ FailFill \/ FailContents \/ FailDetach \/ FailVerify
  <2>1. /\ restore.at \in {"clear", "fill", "contents", "verify"} /\ restore'.at \in {"failed", "stuck"}
        /\ UNCHANGED <<main, packages, logo, export>>
    BY <1>2 DEF FailClear, FailFill, FailContents, FailDetach, FailVerify, Fail, NoRestore
  <2>2. logo.at = "idle" /\ export.at = "idle"
    BY <2>1 DEF LogoInv
  <2>3. ~torn' => ~torn /\ assets' = restore.safeAssets /\ Keeps(db') /\ restore.at # "clear"
    <3>1. CASE FailClear
      BY <3>1 DEF FailClear, Fail
    <3>2. CASE FailFill \/ FailContents
      BY <3>2 DEF FailFill, FailContents, Fail, PutBack, RestoreInv, Keeps
    <3>3. CASE FailDetach
      BY <3>3 DEF FailDetach, Fail
    <3>4. CASE FailVerify
      BY <3>4 DEF FailVerify, Fail, PutBack, RestoreInv
    <3> QED  BY <1>2, <3>1, <3>2, <3>3, <3>4
  <2>4. ~torn' => db'.logo \in assets' \cup {NoFile}
    BY <2>1, <2>3 DEF RestoreInv, Keeps
  <2>5. LogoInv'
    BY <2>1, <2>2, <2>4 DEF LogoInv, LogoOnDisk
  <2>6. ExportInv'
    BY <2>1, <2>2, <2>3 DEF ExportInv
  <2>7. RestoreInv'
    BY <2>1, <2>2 DEF RestoreInv, Keeps
  <2> QED  BY <2>5, <2>6, <2>7
<1>3. CASE Crash
  <2>1. /\ logo'.at = "idle" /\ export'.at = "idle" /\ restore'.at = "idle"
        /\ torn' = (torn \/ restore.at \in {"fill", "contents"} \/ assets' # assets)
    BY <1>3 DEF Crash, NoLogo, NoExport, NoRestore
  <2>2. UNCHANGED <<db, main, packages>>
    BY <1>3 DEF Crash
  <2>3. ~torn' => ~torn /\ assets' = assets /\ db.logo \in assets \cup {NoFile}
    BY <2>1 DEF LogoInv, LogoOnDisk, RestoreInv, ExportInv, Keeps, TypeOK, RestoreSteps
  <2>4. LogoInv'
    BY <2>1, <2>2, <2>3 DEF LogoInv, LogoOnDisk
  <2>5. ExportInv'
    BY <2>1, <2>2, <2>3 DEF ExportInv
  <2>6. RestoreInv'
    BY <2>1, <2>2, <2>3 DEF RestoreInv, Keeps
  <2> QED  BY <2>4, <2>5, <2>6
<1> QED
  BY <1>1, <1>2, <1>3 DEF Failure

LEMMA StutterKeeps == IInv /\ UNCHANGED vars => LogoInv' /\ ExportInv' /\ RestoreInv'
<1> SUFFICES ASSUME IInv, UNCHANGED vars PROVE LogoInv' /\ ExportInv' /\ RestoreInv'
  OBVIOUS
<1> USE DEF IInv, Restoring, vars, limitVars
<1>1. LogoInv'
  BY DEF LogoInv, LogoOnDisk
<1>2. ExportInv'
  BY DEF ExportInv
<1>3. RestoreInv'
  BY DEF RestoreInv, Keeps
<1> QED
  BY <1>1, <1>2, <1>3

LEMMA InitiallyInv == Init => IInv
<1> SUFFICES ASSUME Init PROVE IInv
  OBVIOUS
<1>1. TypeOK
  BY BackupAssumption
     DEF Init, TypeOK, Content, Package, Empty, NoLogo, NoExport, NoRestore, RestoreSteps
<1>2. LogoInv /\ ExportInv
  BY DEF Init, LogoInv, LogoOnDisk, ExportInv, Restoring, Empty, NoLogo, NoExport
<1>3. RestoreInv
  BY DEF Init, RestoreInv, Restoring, NoRestore
<1> QED
  BY <1>1, <1>2, <1>3 DEF IInv

(* IInv is an inductive invariant of operations that do not overlap.       *)
THEOREM Inductive == Overlap = FALSE /\ Spec => []IInv
<1> SUFFICES ASSUME Overlap = FALSE PROVE Spec => []IInv
  OBVIOUS
<1>1. IInv /\ [Next]_vars => IInv'
  BY TypeInductive, WorkKeeps, ExportKeeps, RestoreKeeps, FailureKeeps, StutterKeeps DEF IInv, Next
<1> QED
  BY <1>1, InitiallyInv, PTL DEF Spec
-----------------------------------------------------------------------------
(* Every variable keeps its type, whether operations overlap or not        *)
(* (desktop_export_backup, desktop_restore_backup, uploadLogo).            *)
THEOREM TypeCorrect == Spec => []TypeOK
<1>1. Init => TypeOK
  BY InitiallyInv DEF IInv
<1> QED
  BY <1>1, TypeInductive, PTL DEF Spec

(* However documents are written meanwhile, whatever fails or stops: a     *)
(* package has the documents of its request and the logo it names, and a   *)
(* restore touches nothing before its two copies are complete.             *)
THEOREM SnapshotsCompleteAlways == Overlap = FALSE /\ Spec => []SnapshotsComplete
<1>1. IInv => SnapshotsComplete
  BY DEF IInv, SnapshotsComplete, ExportInv, RestoreInv, Keeps
<1> QED
  BY <1>1, Inductive, PTL

(* The logo that the database names is on disk.                            *)
THEOREM LogoOnDiskAlways == Overlap = FALSE /\ Spec => []LogoOnDisk
<1>1. IInv => LogoOnDisk
  BY DEF IInv, LogoInv
<1> QED
  BY <1>1, Inductive, PTL

(* A restore that fails plainly, whichever of its steps it was that        *)
(* failed, has kept or put back the documents, the years and the files it  *)
(* found, but for the three failures the code does not undo: a DETACH      *)
(* after the commit, and then the database is the package's; a half-done   *)
(* removal, and then no file is new; and a put-back that fails             *)
(* (desktop_restore_backup, lib.rs:3554-3590).                             *)
THEOREM FailureKeepsAllAlways == Overlap = FALSE /\ Spec => FailureKeepsAll
<1> DEFINE Kept == restore'.at = "failed" /\ restore.at # "failed" =>
       /\ \/ /\ restore.origin.rows \subseteq db'.rows
             /\ restore.origin.closed = db'.closed /\ restore.origin.logo = db'.logo
          \/ "detach" \in restore'.broken /\ db' = restore.package.db
       /\ \/ restore.files = assets'
          \/ "clear" \in restore'.broken /\ assets' \subseteq restore.files
          \/ "putback" \in restore'.broken
<1>1. IInv /\ [Next]_vars => [Kept]_vars
  <2> SUFFICES ASSUME IInv, Next, restore'.at = "failed", restore.at # "failed" PROVE Kept
    OBVIOUS
  <2> USE DEF IInv, RestoreInv, Restoring, Results, Keeps
  <2>1. restore' # restore
    OBVIOUS
  <2>2. ~Work /\ ~Export
    BY <2>1 DEF Work, Export, Write, StartYear, CloseYear, Checkpoint, PickLogo, SaveLogo,
                RemoveOldLogo, StartExport, ExportCheckpoint, ExportCopy, Pack
  <2>3. ~Restore
    BY DEF Restore, StartRestore, RestoreCheckpoint, RestoreCopy, KeepAssets, ClearAssets,
           FillAssets, RestoreContents, Verify, Step, End, NoRestore, TypeOK
  <2>4. CASE FailEarly
    BY <2>4 DEF FailEarly
  <2>5. CASE FailClear
    <3>1. "clear" \in restore'.broken /\ assets' \subseteq restore.files /\ db' = db /\ restore.at = "clear"
      BY <2>5 DEF FailClear, Fail, NoRestore
    <3> QED  BY <3>1
  <2>6. ASSUME NEW lost \in Lost, PutBack(lost), NEW b, Fail("failed", lost \cup b),
               restore.at \in {"fill", "contents", "verify"}
        PROVE  restore.files = assets' \/ "putback" \in restore'.broken
    <3>1. restore'.broken = lost \cup b
      BY <2>6 DEF Fail, NoRestore
    <3>2. lost = {} \/ "putback" \in lost
      BY <2>6 DEF Lost
    <3> QED  BY <2>6, <3>1, <3>2 DEF PutBack
  <2>7. CASE FailFill \/ FailContents
    <3>1. PICK lost \in Lost : PutBack(lost) /\ Fail("failed", lost)
      BY <2>7 DEF FailFill, FailContents
    <3>2. Fail("failed", lost \cup {}) /\ db' = db /\ restore.at \in {"fill", "contents"}
      <4>1. lost \cup {} = lost
        OBVIOUS
      <4> QED  BY <2>7, <3>1, <4>1 DEF FailFill, FailContents
    <3> QED  BY <2>6, <3>1, <3>2
  <2>8. CASE FailDetach
    <3>1. PICK lost \in Lost : PutBack(lost) /\ Fail("failed", lost \cup {"detach"})
      BY <2>8 DEF FailDetach
    <3>2. db' = restore.package.db /\ restore.at = "contents" /\ "detach" \in restore'.broken
      BY <2>8, <3>1 DEF FailDetach, Fail, NoRestore
    <3> QED  BY <2>6, <3>1, <3>2
  <2>9. CASE FailVerify
    <3>1. PICK lost \in Lost : PutBack(lost) /\ db' = restore.safe /\ Fail("failed", lost)
      BY <2>9 DEF FailVerify, Fail, NoRestore
    <3>2. Fail("failed", lost \cup {}) /\ restore.at = "verify"
      <4>1. lost \cup {} = lost
        OBVIOUS
      <4> QED  BY <2>9, <3>1, <4>1 DEF FailVerify
    <3> QED  BY <2>6, <3>1, <3>2
  <2>10. ~Crash
    BY DEF Crash, NoRestore
  <2> QED
    BY <2>2, <2>3, <2>4, <2>5, <2>7, <2>8, <2>9, <2>10 DEF Next, Failure
<1> QED
  BY <1>1, Inductive, PTL DEF Spec, FailureKeepsAll

(* A restore that reports success has brought back the package.            *)
THEOREM SuccessIsExactAlways == Overlap = FALSE /\ Spec => SuccessIsExact
<1> DEFINE Exact == restore'.at = "restored" /\ restore.at # "restored" =>
                      /\ assets' = restore.package.assets
                      /\ restore.package.db.rows \subseteq db'.rows
                      /\ restore.package.db.closed = db'.closed
<1>1. IInv /\ [Next]_vars => [Exact]_vars
  <2> SUFFICES ASSUME IInv, Next, restore'.at = "restored", restore.at # "restored" PROVE Exact
    OBVIOUS
  <2> USE DEF IInv, RestoreInv, Restoring, Results
  <2>1. restore' # restore
    OBVIOUS
  <2>2. ~Work /\ ~Export
    BY <2>1 DEF Work, Export, Write, StartYear, CloseYear, Checkpoint, PickLogo, SaveLogo,
                RemoveOldLogo, StartExport, ExportCheckpoint, ExportCopy, Pack
  <2>3. ~Failure
    <3>1. ~Crash
      BY DEF Crash, NoRestore
    <3>2. ASSUME NEW result \in {"failed", "stuck"}, NEW broken, Fail(result, broken) PROVE FALSE
      BY <3>2 DEF Fail, NoRestore
    <3> QED  BY <3>1, <3>2 DEF Failure, FailEarly, FailClear, FailFill, FailContents, FailDetach, FailVerify
  <2>4. CASE Restore
    <3>1. Verify
      BY <2>4 DEF Restore, StartRestore, RestoreCheckpoint, RestoreCopy, KeepAssets, ClearAssets,
                  FillAssets, RestoreContents, Step, NoRestore, TypeOK
    <3> QED
      BY <3>1 DEF Verify
  <2> QED
    BY <2>2, <2>3, <2>4 DEF Next
<1> QED
  BY <1>1, Inductive, PTL DEF Spec, SuccessIsExact
=============================================================================
