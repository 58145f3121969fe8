------------------------------ MODULE Migration -------------------------------
(***************************************************************************)
(* `pulsedeck config migrate` (core/config_cli.rs): every v3 document is   *)
(* converted, written to a temporary, renamed to its backup and replaced,  *)
(* one file operation per step.  An operation may fail, the command may    *)
(* die between any two, run again, and the application may start meanwhile. *)
(***************************************************************************)
EXTENDS Integers, Sequences, FiniteSets, SequencesExt

CONSTANTS
  Documents,    \* the document paths, the root first, in the order migrated
  None,         \* no file at a path
  MaxRuns, MaxFailures

\* what a file holds: the user's v3 text, its conversion, an older backup, a
\* shipped v4 document, half a write, or a v3 text no conversion accepts
Texts == {"v3", "v4", "older", "shipped", "partial", "strange"}

VARIABLES
  file,      \* the file at each document's path
  backup,    \* <path>.v3.bak
  temp,      \* <path>.v4-migrate-<pid>.tmp of the run under way
  origin,    \* what each path and backup held at first
  merges,    \* the converted documents pass ConfigManager::load together
  pc,        \* "idle", or the phase of the run
  todo,      \* the documents the phase has still to do
  converted, \* the documents the run converts
  report,    \* what the last run told the user
  failures, runs

vars == <<file, backup, temp, origin, merges, pc, todo, converted, report, failures, runs>>

Paths == ToSet(Documents)
RootPath == Head(Documents)

Init ==
  /\ file \in {f \in [Paths -> {"v3", "v4", "strange", None}] : f[RootPath] # None}
  /\ backup \in [Paths -> {None, "older"}]
  /\ temp = [d \in Paths |-> None]
  /\ origin = [file |-> file, backup |-> backup]
  /\ merges \in BOOLEAN
  /\ pc = "idle" /\ todo = {} /\ converted = {} /\ report = "none"
  /\ failures = 0 /\ runs = 0

-----------------------------------------------------------------------------
Present == {d \in Paths : d = RootPath \/ file[d] # None}
ToConvert == {d \in Present : file[d] = "v3"}

\* Forward a phase goes through the documents in their order, a rollback backwards.
Rank(d) == CHOOSE n \in DOMAIN Documents : Documents[n] = d
FirstOf(docs) == CHOOSE d \in docs : \A other \in docs : Rank(d) <= Rank(other)
LastOf(docs) == CHOOSE d \in docs : \A other \in docs : Rank(other) <= Rank(d)

\* A backup that is there already not looked for.
RefusedStrange ==
  \E d \in Present : file[d] \notin {"v3", "v4", "shipped"}

Refused ==
  \/ \E d \in Present : file[d] \notin {"v3", "v4", "shipped"}
  \/ \E d \in ToConvert : backup[d] # None

\* everything is read, converted and checked before the first write
Migrate ==
  /\ pc = "idle" /\ runs < MaxRuns
  /\ runs' = runs + 1
  /\ temp' = [d \in Paths |-> None]        \* the names carry the pid of the run
  /\ IF Refused \/ ToConvert = {}
     THEN /\ report' = IF Refused THEN "refused" ELSE "current"
          /\ UNCHANGED <<pc, todo, converted>>
     ELSE /\ pc' = "write" /\ todo' = ToConvert /\ converted' = ToConvert
          /\ report' = "none"
  /\ UNCHANGED <<file, backup, origin, merges, failures>>

Advance(next) ==
  IF todo = {FirstOf(todo)} THEN pc' = next /\ todo' = converted
  ELSE pc' = pc /\ todo' = todo \ {FirstOf(todo)}

\* rollback_documents, of the documents that were backed up
Abort(touched) ==
  /\ pc' = IF touched = {} THEN "idle" ELSE "unlink"
  /\ todo' = touched /\ report' = "restored"

Fails == failures < MaxFailures /\ failures' = failures + 1
BackedUp == converted \ todo
NoTemps == [d \in Paths |-> None]

WriteTemporary ==
  LET d == FirstOf(todo) IN
  /\ pc = "write"
  /\ \/ /\ temp' = [temp EXCEPT ![d] = "v4"]
        /\ Advance("backup")
        /\ UNCHANGED <<failures, report>>
     \/ /\ Fails /\ temp' = NoTemps /\ Abort({})
  /\ UNCHANGED <<file, backup, origin, merges, converted, runs>>

Backup ==
  LET d == FirstOf(todo) IN
  /\ pc = "backup"
  /\ \/ /\ file[d] # None
        /\ backup' = [backup EXCEPT ![d] = file[d]]
        /\ file' = [file EXCEPT ![d] = None]
        /\ Advance("install")
        /\ UNCHANGED <<temp, failures, report>>
     \/ /\ Fails /\ temp' = NoTemps /\ Abort(BackedUp)
        /\ UNCHANGED <<file, backup>>
  /\ UNCHANGED <<origin, merges, converted, runs>>

Install ==
  LET d == FirstOf(todo) IN
  /\ pc = "install"
  /\ \/ /\ file' = [file EXCEPT ![d] = temp[d]]
        /\ temp' = [temp EXCEPT ![d] = None]
        /\ Advance("validate")
        /\ UNCHANGED <<failures, report>>
     \/ /\ Fails /\ temp' = NoTemps /\ Abort(converted)
        /\ UNCHANGED file
  /\ UNCHANGED <<backup, origin, merges, converted, runs>>

Validate ==
  /\ pc = "validate"
  /\ IF merges THEN pc' = "idle" /\ todo' = {} /\ report' = "migrated"
     ELSE Abort(converted)
  /\ UNCHANGED <<file, backup, temp, origin, merges, converted, failures, runs>>

-----------------------------------------------------------------------------
(* Rolling one document back: remove what stands in its place, rename the backup *)

RollNext ==
  /\ todo' = todo \ {LastOf(todo)}
  /\ pc' = IF todo' = {} THEN "idle" ELSE "unlink"

Unlink ==
  LET d == LastOf(todo) IN
  /\ pc = "unlink"
  /\ \/ /\ backup[d] = None
        /\ RollNext /\ UNCHANGED <<file, failures, report>>
     \/ /\ backup[d] # None
        /\ file' = [file EXCEPT ![d] = None]
        /\ pc' = "restore"
        /\ UNCHANGED <<todo, failures, report>>
     \/ /\ backup[d] # None /\ file[d] # None
        /\ Fails /\ report' = "incomplete"
        /\ RollNext /\ UNCHANGED file
  /\ UNCHANGED <<backup, temp, origin, merges, converted, runs>>

Restore ==
  LET d == LastOf(todo) IN
  /\ pc = "restore"
  /\ \/ /\ file' = [file EXCEPT ![d] = backup[d]]
        /\ backup' = [backup EXCEPT ![d] = None]
        /\ UNCHANGED <<failures, report>>
     \/ /\ Fails /\ report' = "incomplete"
        /\ UNCHANGED <<file, backup>>
  /\ RollNext
  /\ UNCHANGED <<temp, origin, merges, converted, runs>>

-----------------------------------------------------------------------------
(* What happens around it *)

Crash ==
  /\ pc # "idle"
  /\ \E left \in {temp[FirstOf(todo)], "partial"} :
       temp' = IF pc = "write" THEN [temp EXCEPT ![FirstOf(todo)] = left] ELSE temp
  /\ pc' = "idle" /\ todo' = {} /\ report' = "none"
  /\ UNCHANGED <<file, backup, origin, merges, converted, failures, runs>>

\* build_app writes the shipped configuration where it finds no root
StartApplication ==
  /\ file[RootPath] = None
  /\ file' = [file EXCEPT ![RootPath] = "shipped"]
  /\ UNCHANGED <<backup, temp, origin, merges, pc, todo, converted, report, failures, runs>>

Next ==
  \/ Migrate
  \/ WriteTemporary
  \/ Backup
  \/ Install
  \/ Validate
  \/ Unlink
  \/ Restore
  \/ Crash
  \/ StartApplication

Spec == Init /\ [][Next]_vars

-----------------------------------------------------------------------------
TypeOK ==
  /\ \A f \in {file, backup, temp} : f \in [Paths -> Texts \cup {None}]
  /\ pc \in {"idle", "write", "backup", "install", "validate", "unlink", "restore"}
  /\ todo \subseteq converted /\ converted \subseteq Paths /\ (pc # "idle" => todo # {})
  /\ report \in {"none", "refused", "current", "migrated", "restored", "incomplete"}

\* Whatever fails and whenever the command dies, the text of every document is still at its
\* path or in its backup, and an older backup is never overwritten (migrate, rollback_documents).
NoDocumentLost ==
  \A d \in Paths :
    /\ origin.file[d] # None => origin.file[d] \in {file[d], backup[d]}
    /\ origin.backup[d] # None => backup[d] = origin.backup[d]

\* What the run tells is so: after "migrated" every document of the run is a v4 document
\* with its original in the backup, and after "original documents restored" each is in place.
ReportTrue ==
  pc = "idle" =>
    \A d \in converted :
      /\ report = "migrated" => file[d] = "v4" /\ backup[d] = "v3"
      /\ report = "restored" => file[d] = "v3" /\ backup[d] = None
=============================================================================
