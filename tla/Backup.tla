------------------------------- MODULE Backup -------------------------------
(***************************************************************************)
(* Backup packages, safety copies and restores of the desktop application  *)
(* (desktop_export_backup, desktop_restore_backup and their helpers in     *)
(* src-tauri/src/lib.rs), next to the writes of the business, the closing  *)
(* of its years, and the change of its logo, a file that the database      *)
(* names (app/dashboard/settings/page.tsx).                                *)
(*                                                                         *)
(* The database is in WAL mode: a commit reaches the readers at once and   *)
(* the main file, which a snapshot copies, with the next checkpoint.       *)
(***************************************************************************)
EXTENDS Naturals, FiniteSets

CONSTANTS
  Rows,        \* documents the business may write
  Years,       \* its financial years
  Year,        \* Year[r]: the year of document r
  Files,       \* paths under business-assets a logo may have
  NoFile,      \* no logo
  MaxFaults,   \* bound: file or database operations that fail
  MaxCrashes,  \* bound: crashes of the application
  MaxRestores, \* bound: restores that are started
  MaxPackages, \* bound: packages that are saved
  Overlap      \* may a logo change, an export and a restore overlap?

ASSUME BackupAssumption ==
  /\ Year \in [Rows -> Years] /\ NoFile \notin Files
  /\ MaxFaults \in Nat /\ MaxCrashes \in Nat /\ MaxRestores \in Nat
  /\ MaxPackages \in Nat
  /\ Overlap \in BOOLEAN

(* The content of a database: its documents, the years it has and those    *)
(* that are closed, and the path of the logo.                              *)
Content == [rows : SUBSET Rows, years : SUBSET Years, closed : SUBSET Years,
            logo : Files \cup {NoFile}]
Package == [db : Content, assets : SUBSET Files]

VARIABLES
  db,        \* what a reader of the database sees
  main,      \* what is in the main file
  assets,    \* the files under business-assets
  packages,  \* the backup packages that were saved
  logo,      \* the logo change under way: its step, the new and the old path
  export,    \* the export under way: its step, its request's rows, its snapshot
  restore,   \* the restore under way: its step, package, safety copies, origin
  torn,      \* history: a restore ended with its assets and its database apart
  faults, crashes, restores

limitVars == <<torn, faults, crashes, restores>>
vars == <<db, main, assets, packages, logo, export, restore, limitVars>>

Empty   == [rows |-> {}, years |-> {}, closed |-> {}, logo |-> NoFile]
NoLogo   == [at |-> "idle", new |-> NoFile, old |-> NoFile]
NoExport == [at |-> "idle", asked |-> {}, snap |-> Empty]
NoRestore == [at |-> "idle", package |-> [db |-> Empty, assets |-> {}],
              safe |-> Empty, safeAssets |-> {}, origin |-> Empty, files |-> {},
              broken |-> {}]

RestoreSteps == {"idle", "checkpoint", "copy", "keep", "clear", "fill", "contents", "verify"}
Results == {"restored", "failed", "stuck"}

(* What goes wrong in a restore that nothing undoes: the assets are partly *)
(* removed, the backup is committed but not detached, the assets are not   *)
(* put back as they were, the database is not.                             *)
Breaks == {"clear", "detach", "putback", "rollback"}

TypeOK ==
  /\ db \in Content /\ main \in Content /\ assets \subseteq Files
  /\ packages \subseteq Package
  /\ logo \in [at : {"idle", "picked", "saved"}, new : Files \cup {NoFile}, old : Files \cup {NoFile}]
  /\ export \in [at : {"idle", "checkpoint", "copy", "pack"}, asked : SUBSET Rows, snap : Content]
  /\ restore \in [at : RestoreSteps \cup Results, package : Package,
                  safe : Content, safeAssets : SUBSET Files,
                  origin : Content, files : SUBSET Files, broken : SUBSET Breaks]
  /\ torn \in BOOLEAN
  /\ faults \in Nat /\ crashes \in Nat /\ restores \in Nat

Init ==
  /\ db = Empty /\ main = Empty /\ assets = {} /\ packages = {}
  /\ logo = NoLogo /\ export = NoExport /\ restore = NoRestore
  /\ torn = FALSE /\ faults = 0 /\ crashes = 0 /\ restores = 0

Restoring == restore.at \notin {"idle"} \cup Results
Quiet(busy) == Overlap \/ ~busy
-----------------------------------------------------------------------------
(* The business at work.  The triggers of schema.ts refuse a document      *)
(* outside an open year.                                                   *)

Write(r) ==
  /\ r \notin db.rows /\ Year[r] \in db.years \ db.closed
  /\ db' = [db EXCEPT !.rows = @ \cup {r}]
  /\ UNCHANGED <<main, assets, packages, logo, export, restore, limitVars>>

StartYear(y) ==
  /\ y \notin db.years
  /\ db' = [db EXCEPT !.years = @ \cup {y}]
  /\ UNCHANGED <<main, assets, packages, logo, export, restore, limitVars>>

CloseYear(y) ==
  /\ y \in db.years \ db.closed /\ Quiet(Restoring \/ export.at # "idle")
  /\ db' = [db EXCEPT !.closed = @ \cup {y}]
  /\ UNCHANGED <<main, assets, packages, logo, export, restore, limitVars>>

(* A connection that closes, or a long WAL, brings the main file up to     *)
(* date; modelled while a snapshot is about to read that file.             *)
Checkpoint ==
  /\ main # db /\ "copy" \in {export.at, restore.at}
  /\ main' = db
  /\ UNCHANGED <<db, assets, packages, logo, export, restore, limitVars>>

(* uploadLogo: the file first, then its path in the database, then the old *)
(* file away unless the new one replaced it; clearLogo: the path, then the *)
(* file.                                                                   *)
PickLogo(f) ==
  /\ logo.at = "idle" /\ {f, db.logo} # {NoFile} /\ Quiet(Restoring \/ export.at # "idle")
  /\ logo' = [at |-> "picked", new |-> f, old |-> db.logo]
  /\ assets' = IF f = NoFile THEN assets ELSE assets \cup {f}
  /\ UNCHANGED <<db, main, packages, export, restore, limitVars>>

SaveLogo ==
  /\ logo.at = "picked"
  /\ db' = [db EXCEPT !.logo = logo.new]
  /\ logo' = [logo EXCEPT !.at = "saved"]
  /\ UNCHANGED <<main, assets, packages, export, restore, limitVars>>

RemoveOldLogo_SamePath ==
  /\ logo.at = "saved"
  /\ assets' = assets \ {logo.old}
  /\ logo' = NoLogo
  /\ UNCHANGED <<db, main, packages, export, restore, limitVars>>
RemoveOldLogo ==
  /\ logo.at = "saved"
  /\ assets' = IF logo.old = logo.new THEN assets ELSE assets \ {logo.old}
  /\ logo' = NoLogo
  /\ UNCHANGED <<db, main, packages, export, restore, limitVars>>
-----------------------------------------------------------------------------
(* desktop_export_backup.                                                  *)

StartExport ==
  /\ export.at = "idle" /\ Quiet(Restoring \/ logo.at # "idle") /\ Cardinality(packages) < MaxPackages
  /\ export' = [NoExport EXCEPT !.at = "checkpoint", !.asked = db.rows]
  /\ UNCHANGED <<db, main, assets, packages, logo, restore, limitVars>>

(* create_consistent_database_snapshot: a full checkpoint ...              *)
ExportCheckpoint ==
  /\ export.at = "checkpoint"
  /\ main' = db
  /\ export' = [export EXCEPT !.at = "copy"]
  /\ UNCHANGED <<db, assets, packages, logo, restore, limitVars>>

(* ... and a copy of the main file under the write lock.                   *)
ExportCopy ==
  /\ export.at = "copy"
  /\ export' = [export EXCEPT !.at = "pack", !.snap = main]
  /\ UNCHANGED <<db, main, assets, packages, logo, restore, limitVars>>

(* The files of business-assets are collected and packed with it.          *)
Pack ==
  /\ export.at = "pack"
  /\ packages' = packages \cup {[db |-> export.snap, assets |-> assets]}
  /\ export' = NoExport
  /\ UNCHANGED <<db, main, assets, logo, restore, limitVars>>
-----------------------------------------------------------------------------
(* desktop_restore_backup, from the verified package on.                   *)

StartRestore(p) ==
  /\ ~Restoring /\ restores < MaxRestores
  /\ Quiet(logo.at # "idle" \/ export.at # "idle")
  /\ restore' = [NoRestore EXCEPT !.at = "checkpoint", !.package = p,
                                  !.origin = db, !.files = assets]
  /\ restores' = restores + 1
  /\ UNCHANGED <<db, main, assets, packages, logo, export, torn, faults, crashes>>

Step(next) == restore' = [restore EXCEPT !.at = next]
End(result) == restore' = [NoRestore EXCEPT !.at = result]

RestoreCheckpoint_Skipped ==
  /\ restore.at = "checkpoint"
  /\ Step("copy")
  /\ UNCHANGED <<db, main, assets, packages, logo, export, limitVars>>
RestoreCheckpoint ==
  /\ restore.at = "checkpoint"
  /\ main' = db
  /\ Step("copy")
  /\ UNCHANGED <<db, assets, packages, logo, export, limitVars>>

RestoreCopy ==
  /\ restore.at = "copy"
  /\ restore' = [restore EXCEPT !.at = "keep", !.safe = main]
  /\ UNCHANGED <<db, main, assets, packages, logo, export, limitVars>>

KeepAssets ==
  /\ restore.at = "keep"
  /\ restore' = [restore EXCEPT !.at = "clear", !.safeAssets = assets]
  /\ UNCHANGED <<db, main, assets, packages, logo, export, limitVars>>

ClearAssets_Skipped ==
  /\ restore.at = "clear"
  /\ Step("fill")
  /\ UNCHANGED <<db, main, assets, packages, logo, export, limitVars>>
ClearAssets ==
  /\ restore.at = "clear"
  /\ assets' = {}
  /\ Step("fill")
  /\ UNCHANGED <<db, main, packages, logo, export, limitVars>>

FillAssets ==
  /\ restore.at = "fill"
  /\ assets' = assets \cup restore.package.assets
  /\ Step("contents")
  /\ UNCHANGED <<db, main, packages, logo, export, limitVars>>

(* restore_database_contents empties and refills every table in one        *)
(* transaction, the documents before the years: the triggers see the years *)
(* that are there now.                                                     *)
Replaceable(now, new) ==
  /\ \A r \in now.rows : Year[r] \notin now.closed
  /\ \A r \in new.rows : Year[r] \in now.years \ now.closed

RestoreContents ==
  /\ restore.at = "contents" /\ Replaceable(db, restore.package.db)
  /\ db' = restore.package.db
  /\ Step("verify")
  /\ UNCHANGED <<main, assets, packages, logo, export, limitVars>>

Verify ==
  /\ restore.at = "verify"
  /\ End("restored")
  /\ UNCHANGED <<db, main, assets, packages, logo, export, limitVars>>
-----------------------------------------------------------------------------
(* Failures.  A step that fails early just ends the restore; a later one   *)
(* puts the assets back first.                                             *)

Fault(n) == faults + n <= MaxFaults /\ faults' = faults + n
Fail(result, broken) ==
  /\ restore' = [NoRestore EXCEPT !.at = result, !.broken = broken]
  /\ torn' = (torn \/ broken # {})

(* remove_dir_all and copy_directory of the safety copy, whose results     *)
(* nobody looks at: what is there after one of them failed is lost.        *)
PutBack(lost) ==
  assets' \in IF lost = {} THEN {restore.safeAssets}
             ELSE SUBSET (restore.safeAssets \cup restore.package.assets)
Lost == {{}, {"putback"}}

(* Nothing has been touched yet.                                           *)
FailEarly ==
  /\ restore.at \in {"checkpoint", "copy", "keep"} /\ Fault(1)
  /\ Fail("failed", {})
  /\ UNCHANGED <<db, main, assets, packages, logo, export, crashes, restores>>

(* remove_dir_all stops half-way: what it removed stays removed.           *)
FailClear ==
  /\ restore.at = "clear" /\ Fault(1)
  /\ assets' \in SUBSET assets
  /\ Fail("failed", {"clear"})
  /\ UNCHANGED <<db, main, packages, logo, export, crashes, restores>>

FailFill ==
  /\ restore.at = "fill"
  /\ \E lost \in Lost :
       Fault(1 + Cardinality(lost)) /\ PutBack(lost) /\ Fail("failed", lost)
  /\ UNCHANGED <<db, main, packages, logo, export, crashes, restores>>

(* The transaction is refused by a trigger, or fails, and rolls back.      *)
FailContents ==
  /\ restore.at = "contents"
  /\ \E lost \in Lost :
       /\ Fault((IF Replaceable(db, restore.package.db) THEN 1 ELSE 0) + Cardinality(lost))
       /\ PutBack(lost) /\ Fail("failed", lost)
  /\ UNCHANGED <<db, main, packages, logo, export, crashes, restores>>

(* The transaction is committed, and the backup cannot be detached: that   *)
(* counts as a failure of the whole.                                       *)
FailDetach ==
  /\ restore.at = "contents" /\ Replaceable(db, restore.package.db)
  /\ db' = restore.package.db
  /\ \E lost \in Lost :
       /\ Fault(1 + Cardinality(lost))
       /\ PutBack(lost) /\ Fail("failed", lost \cup {"detach"})
  /\ UNCHANGED <<main, packages, logo, export, crashes, restores>>

(* The restored database does not verify: the safety copy is restored the  *)
(* same way, which the triggers may refuse in their turn, or which fails   *)
(* before or after its commit; the assets are put back in any case.        *)
FailVerify_KeepsNew ==
  /\ restore.at = "verify" /\ UNCHANGED db
  /\ \E lost \in Lost :
       Fault(1 + Cardinality(lost)) /\ PutBack(lost) /\ Fail("failed", lost)
  /\ UNCHANGED <<main, packages, logo, export, crashes, restores>>
FailVerify ==
  /\ restore.at = "verify"
  /\ \E lost \in Lost :
       /\ PutBack(lost)
       /\ \/ /\ Replaceable(db, restore.safe) /\ db' = restore.safe
             /\ \/ Fault(1 + Cardinality(lost)) /\ Fail("failed", lost)
                \/ Fault(2 + Cardinality(lost)) /\ Fail("stuck", lost)
          \/ /\ UNCHANGED db
             /\ Fault((IF Replaceable(db, restore.safe) THEN 2 ELSE 1) + Cardinality(lost))
             /\ Fail("stuck", lost \cup {"rollback"})
  /\ UNCHANGED <<main, packages, logo, export, crashes, restores>>

(* The application stops; committed data and files stay as they are, those *)
(* that a step had removed, copied or put back so far included.            *)
Crash ==
  /\ crashes < MaxCrashes
  /\ Restoring \/ logo.at # "idle" \/ export.at # "idle"
  /\ crashes' = crashes + 1
  /\ assets' \in CASE restore.at = "clear" -> SUBSET assets
                   [] restore.at \in {"fill", "contents", "verify"} ->
                        {assets} \cup SUBSET (restore.safeAssets \cup restore.package.assets)
                   [] OTHER -> {assets}
  /\ torn' = (torn \/ restore.at \in {"fill", "contents"} \/ assets' # assets)
  /\ logo' = NoLogo /\ export' = NoExport /\ restore' = NoRestore
  /\ UNCHANGED <<db, main, packages, faults, restores>>
-----------------------------------------------------------------------------
Work == \/ \E r \in Rows : Write(r)
        \/ \E y \in Years : StartYear(y) \/ CloseYear(y)
        \/ Checkpoint
        \/ \E f \in Files \cup {NoFile} : PickLogo(f)
        \/ SaveLogo \/ RemoveOldLogo
Export == StartExport \/ ExportCheckpoint \/ ExportCopy \/ Pack
Restore == \/ \E p \in packages : StartRestore(p)
           \/ RestoreCheckpoint \/ RestoreCopy \/ KeepAssets
           \/ ClearAssets \/ FillAssets \/ RestoreContents \/ Verify
Failure == FailEarly \/ FailClear \/ FailFill \/ FailContents \/ FailDetach \/ FailVerify
           \/ Crash

Next == Work \/ Export \/ Restore \/ Failure
Spec == Init /\ [][Next]_vars
-----------------------------------------------------------------------------
(* Properties.                                                             *)

(* Outside a logo change and a restore the logo that the database names is *)
(* on disk, through exports, failed and completed restores and crashes,    *)
(* except those that cut a restore off between its two halves.             *)
LogoOnDisk ==
  ~Restoring /\ ~torn /\ db.logo # NoFile => db.logo \in assets

(* A package is complete: it has every document that was acknowledged when *)
(* the export was asked for, and the file of the logo it names, unless a   *)
(* restore that was cut off had lost it; and so are the copies a restore   *)
(* makes before it touches anything.                                       *)
SnapshotsComplete ==
  /\ export.at = "pack" => export.asked \subseteq export.snap.rows
  /\ ~torn => \A p \in packages : p.db.logo \in p.assets \cup {NoFile}
  /\ restore.at \in {"clear", "fill", "contents", "verify"} =>
       restore.origin.rows \subseteq restore.safe.rows /\ restore.safeAssets = restore.files

(* A restore that reports a plain failure has changed nothing: the         *)
(* documents, the years and the files are those of before the request, but *)
(* for what the code does not undo.  A commit before a failed DETACH stays *)
(* whole; assets that were partly removed have nothing new among them; a   *)
(* put-back that fails leaves any files.                                   *)
FailureKeepsAll ==
  [][restore'.at = "failed" /\ restore.at # "failed" =>
       /\ \/ /\ restore.origin.rows \subseteq db'.rows
             /\ restore.origin.closed = db'.closed /\ restore.origin.logo = db'.logo
          \/ "detach" \in restore'.broken /\ db' = restore.package.db
       /\ \/ restore.files = assets'
          \/ "clear" \in restore'.broken /\ assets' \subseteq restore.files
          \/ "putback" \in restore'.broken]_vars

(* A restore that reports success has brought back the package: its files  *)
(* and no others, its years, its documents.                                *)
SuccessIsExact ==
  [][restore'.at = "restored" /\ restore.at # "restored" =>
       /\ assets' = restore.package.assets
       /\ restore.package.db.rows \subseteq db'.rows
       /\ restore.package.db.closed = db'.closed]_vars

(* A valid package of the business can be restored: nothing but a failing  *)
(* file or database operation makes a restore fail.                        *)
ValidPackageRestores ==
  [][restore'.at = "failed" => faults' > 0]_vars
=============================================================================
