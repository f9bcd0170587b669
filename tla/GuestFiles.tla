------------------------------ MODULE GuestFiles ------------------------------
(***************************************************************************)
(* Edits of one text file of the guest over SFTP                           *)
(* (deploy/ssh_ops_harness/atomic_file.py): an edit is prepared, approved, *)
(* rechecked, written beside its target and renamed onto it, and what      *)
(* became of it is read back or rolled back.                               *)
(*                                                                         *)
(* Any SFTP request may fail with no effect, or take effect and lose its   *)
(* reply; the guest's own processes change the target in between.  A file  *)
(* is its text and its mode and owner; the text an edit leaves is the edit *)
(* itself, so that it can be told from every other text.                   *)
(***************************************************************************)
EXTENDS Naturals

CONSTANTS Edits,
          Creates,     \* the edits with operation = create; the others replace a fragment
          Texts,       \* what the guest's own processes write
          Metas,       \* modes and owners
          MaxTouches   \* bound: changes the guest's own processes make

FileConstants ==
  /\ Creates \subseteq Edits /\ Edits \cap Texts = {} /\ Metas # {}
  /\ {"absent", "other", "partial"} \cap (Edits \cup Texts) = {}

VARIABLES target,   \* what the path names
          temp,     \* the temporary of an edit
          backup,   \* the backup of an edit
          plan,     \* the file an edit was prepared against
          stage,    \* how far an edit is
          report,   \* what is said of an edit
          touches

vars == <<target, temp, backup, plan, stage, report, touches>>

NoFile(kind) == [text |-> kind, meta |-> "none"]
Absent  == NoFile("absent")
Other   == NoFile("other")      \* a symlink, a directory, a file over the limit
Partial == NoFile("partial")    \* a file whose writer failed
Files   == [text : Texts \cup Edits, meta : Metas]

TypeOK ==
  /\ target \in Files \cup {Absent, Other}
  /\ temp \in [Edits -> Files \cup {Absent, Partial}]
  /\ backup \in [Edits -> Files \cup {Absent, Partial}]
  /\ plan \in [Edits -> Files \cup {Absent}]
  /\ stage \in [Edits -> {"idle", "approved", "backup", "temporary", "rename", "verify", "rollback",
                          "readback", "clean", "sweep", "done"}]
  /\ report \in [Edits -> {"none", "refused", "ok", "unchanged", "changed"}]
  /\ touches \in 0..MaxTouches

Init ==
  /\ target \in {f \in Files : f.text \in Texts} \cup {Absent, Other}
  /\ temp = [e \in Edits |-> Absent] /\ backup = [e \in Edits |-> Absent]
  /\ plan = [e \in Edits |-> Absent]
  /\ stage = [e \in Edits |-> "idle"] /\ report = [e \in Edits |-> "none"]
  /\ touches = 0

\* A created file gets the mode of the plan, a replaced one keeps its own.
PlanMeta == CHOOSE m \in Metas : TRUE
New(e) == [text |-> e, meta |-> IF e \in Creates THEN PlanMeta ELSE plan[e].meta]

At(e, s)   == stage[e] = s
Goto(e, s) == stage' = [stage EXCEPT ![e] = s]
Says(e, r) == report' = [report EXCEPT ![e] = r]

-----------------------------------------------------------------------------
(* prepare_edit: a create wants no file, a replacement the regular file    *)
(* whose hash the model has seen and whose fragment occurs once.  What     *)
(* fails here, or is not approved, has touched nothing.                    *)
Prepare(e) ==
  /\ At(e, "idle")
  /\ \/ /\ IF e \in Creates THEN target = Absent ELSE target \in Files
        /\ plan' = [plan EXCEPT ![e] = target]
        /\ Goto(e, "approved") /\ UNCHANGED report
     \/ Goto(e, "done") /\ Says(e, "refused") /\ UNCHANGED plan
  /\ UNCHANGED <<target, temp, backup, touches>>

(* apply_edit rechecks what was approved.  A read that fails, a parent or  *)
(* a resolved path that changed, end it as well.                           *)
Recheck(e) ==
  /\ At(e, "approved")
  /\ \/ /\ target = plan[e]
        /\ Goto(e, IF e \in Creates THEN "temporary" ELSE "backup") /\ UNCHANGED report
     \/ Goto(e, "clean") /\ Says(e, "unchanged")
  /\ UNCHANGED <<target, temp, backup, plan, touches>>

(* _write_new_file of the backup.  One that failed is not taken for one.   *)
StoreBackup(e) ==
  /\ At(e, "backup")
  /\ \/ /\ backup' = [backup EXCEPT ![e] = plan[e]]
        /\ Goto(e, "temporary") /\ UNCHANGED report
     \/ /\ \E f \in {Absent, Partial, plan[e]} : backup' = [backup EXCEPT ![e] = f]
        /\ Goto(e, "clean") /\ Says(e, "unchanged")
  /\ UNCHANGED <<target, temp, plan, touches>>

StoreTemporary(e) ==
  /\ At(e, "temporary")
  /\ \/ /\ temp' = [temp EXCEPT ![e] = New(e)]
        /\ Goto(e, "rename") /\ UNCHANGED report
     \/ /\ \E f \in {Absent, Partial, New(e)} : temp' = [temp EXCEPT ![e] = f]
        /\ Goto(e, "sweep") /\ Says(e, "unchanged")
  /\ UNCHANGED <<target, backup, plan, touches>>

(* The rename replaces the target, or for a create refuses to.             *)
Rename(e) ==
  /\ At(e, "rename")
  /\ \/ /\ e \in Creates => target = Absent
        /\ target' = temp[e] /\ temp' = [temp EXCEPT ![e] = Absent]
        /\ Goto(e, "verify") \/ Goto(e, "readback")
     \/ Goto(e, "readback") /\ UNCHANGED <<target, temp>>
  /\ UNCHANGED <<backup, plan, report, touches>>

(* The postcondition: the bytes, and for a create the mode, are the ones   *)
(* planned.  A create that fails it stays, a replacement is rolled back.   *)
Holds(e) == target \in Files /\ target.text = e /\ (e \in Creates => target = New(e))

Verify(e) ==
  /\ At(e, "verify")
  /\ \/ Holds(e) /\ Goto(e, "done") /\ Says(e, "ok")
     \/ IF e \in Creates
        THEN Goto(e, "done") /\ Says(e, "changed")
        ELSE Goto(e, "rollback") /\ UNCHANGED report
  /\ UNCHANGED <<target, temp, backup, plan, touches>>

\* MUTANT: a rollback is assumed to have worked.
RollbackAssumed(e) ==
  /\ At(e, "rollback")
  /\ \/ target' = backup[e] /\ backup' = [backup EXCEPT ![e] = Absent]
     \/ UNCHANGED <<target, backup>>
  /\ Says(e, "unchanged")
  /\ Goto(e, "done")
  /\ UNCHANGED <<temp, plan, touches>>

(* The backup is renamed back; only a reply proves it.                     *)
Rollback(e) ==
  /\ At(e, "rollback")
  /\ \/ /\ target' = backup[e] /\ backup' = [backup EXCEPT ![e] = Absent]
        /\ Says(e, "unchanged") \/ Says(e, "changed")
     \/ Says(e, "changed") /\ UNCHANGED <<target, backup>>
  /\ Goto(e, "done")
  /\ UNCHANGED <<temp, plan, touches>>

\* MUTANT: the backup is removed whatever was read back.
SweepsAlways(e) ==
  /\ At(e, "readback")
  /\ \/ /\ target = New(e)
        /\ Goto(e, "done") /\ Says(e, "ok")
     \/ Goto(e, "sweep") /\ Says(e, IF target = plan[e] THEN "unchanged" ELSE "changed")
  /\ UNCHANGED <<target, temp, backup, plan, touches>>

(* The reply to the rename was an error: what the path names tells what    *)
(* happened.  The backup outlives everything but the proof that the target *)
(* is the file it was made from.                                           *)
ReadBack(e) ==
  /\ At(e, "readback")
  /\ \/ /\ target = New(e)
        /\ Goto(e, "done") /\ Says(e, "ok")
     \/ /\ target = plan[e]
        /\ Goto(e, "sweep") /\ Says(e, "unchanged")
     \/ /\ target = Other /\ e \in Creates
        /\ Goto(e, "clean") /\ Says(e, "unchanged")
     \/ Goto(e, "clean") /\ Says(e, "changed")
  /\ UNCHANGED <<target, temp, backup, plan, touches>>

(* What the edit left beside the target is removed, best effort.           *)
Clean(e) ==
  /\ At(e, "clean") \/ At(e, "sweep")
  /\ temp' \in {temp, [temp EXCEPT ![e] = Absent]}
  /\ backup' \in {backup} \cup (IF At(e, "sweep") THEN {[backup EXCEPT ![e] = Absent]} ELSE {})
  /\ Goto(e, "done")
  /\ UNCHANGED <<target, plan, report, touches>>

(* The harness is killed: nothing more is done, and nothing is said.       *)
Kill(e) ==
  /\ stage[e] \notin {"idle", "done"}
  /\ Goto(e, "done")
  /\ UNCHANGED <<target, temp, backup, plan, report, touches>>

(* A process of the guest writes, changes, replaces or removes the target. *)
Touch ==
  /\ touches < MaxTouches
  /\ touches' = touches + 1
  /\ \/ target' \in {f \in Files : f.text \in Texts} \cup {Absent, Other}
     \/ target \in Files /\ \E m \in Metas : target' = [target EXCEPT !.meta = m]
  /\ UNCHANGED <<temp, backup, plan, stage, report>>

Step(e) ==
  \/ Prepare(e) \/ Recheck(e) \/ StoreBackup(e) \/ StoreTemporary(e) \/ Rename(e)
  \/ Verify(e) \/ Rollback(e) \/ ReadBack(e) \/ Clean(e) \/ Kill(e)

Next == Touch \/ \E e \in Edits : Step(e)

Spec == Init /\ [][Next]_vars

-----------------------------------------------------------------------------
Shows(f, e) == f \in Files /\ f.text = e

(* What the model is told of an edit is true when it is told: "ok" only    *)
(* with its text in place, and box_may_be_changed = False never with it in *)
(* place, whatever requests lost their reply and whatever else wrote to    *)
(* the path.                                                               *)
FileReportIsTrue ==
  [][\A e \in Edits : report'[e] # report[e] =>
       /\ report'[e] = "ok" => Shows(target', e)
       /\ report'[e] \in {"unchanged", "refused"} => ~Shows(target', e)]_vars

(* "retains a recoverable backup": as long as a replacement is in place,   *)
(* the file it was approved against can be had back from its backup --     *)
(* unless another replacement was made of its text, whose rollback can     *)
(* bring it back after its own backup was used or given up.                *)
HasBackup(e) ==
  Shows(target, e) /\ (\A f \in Edits : plan[f].text # e) => backup[e] = plan[e]

ReviewedFileIsKept == [][\A e \in Edits \ Creates : HasBackup(e)']_vars

(* Both: what an edit says is true, and no step loses what it replaced.    *)
EditsAreHonest == FileReportIsTrue /\ ReviewedFileIsKept
=============================================================================
