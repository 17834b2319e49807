------------------------------ MODULE Toolchain ------------------------------
(***************************************************************************)
(* The compact command line tool as a manager of compiler versions:        *)
(* `compact update` and `compact clean` of tools/compact/src, over the     *)
(* files they leave on disk.                                               *)
(*                                                                         *)
(* A command is a process that may be stopped between any two of its file  *)
(* operations, by being killed or by an operation that fails: what it wrote *)
(* stays.  Two updates may run at once if they install different versions, *)
(* and a clean runs alone.  A download is a sequence of chunks; a version  *)
(* is installed for one target.                                            *)
(***************************************************************************)
EXTENDS Integers, Sequences, FiniteSets

CONSTANTS
  Versions,      \* released compiler versions
  NoVersion,     \* no version
  Procs,         \* commands running at once
  Files,         \* the names of the files of an archive
  Ships,         \* version -> the files of its archive besides compactc
  Containing,    \* version -> the versions whose name contains its own
  Tools,         \* the links made after compactc's, in order
  Chunks,        \* length of an archive
  NoFile,        \* an archive that is not on disk
  Servers,       \* how servers answer a Range header: honours, ignores
  Cleans,        \* `compact clean` is used
  CleanStops,    \* a clean may be stopped while it removes versions
  MaxStops       \* bound on the commands stopped half-way

COMPILER_BIN == "compactc"
FilesOf(v) == {COMPILER_BIN} \cup Ships[v]
Links == {COMPILER_BIN} \cup {Tools[i] : i \in 1 .. Len(Tools)}

ASSUME ShipsAssumption == Ships \in [Versions -> SUBSET (Files \ {COMPILER_BIN})]
ASSUME ToolsAssumption == Tools \in Seq(Files \ {COMPILER_BIN})
ASSUME NamesAssumption ==
  /\ COMPILER_BIN \in Files
  /\ NoFile \notin Files
  /\ NoVersion \notin Versions
  /\ Containing \in [Versions -> SUBSET Versions]
  /\ \A v \in Versions : v \in Containing[v]
ASSUME BoundsAssumption ==
  /\ Chunks \in Nat \ {0}
  /\ MaxStops \in Nat
  /\ Servers \subseteq {"honours", "ignores"}
  /\ Cleans \in BOOLEAN
  /\ CleanStops \in BOOLEAN

VARIABLES
  disk,   \* version -> what its directory holds
  link,   \* the links of the bin directory
  proc,   \* process -> the command it runs
  last,   \* what the last finished command reported
  stops   \* how many commands were stopped half-way

vars == <<disk, link, proc, last, stops>>

(* A file is being written when it is half there.                           *)
Presence == {"absent", "half", "full"}
Bytes == Seq(1 .. Chunks) \cup {NoFile}

Directory == [exists : BOOLEAN, partial : Bytes, zip : Bytes,
              incoming : [Files -> Presence], files : [Files -> Presence]]

Command == [pc : {"idle", "load", "request", "stream", "clear", "extract", "place",
                  "find", "unlink", "link", "validate", "removeLinks", "list", "wipe"},
            version : Versions \cup {NoVersion}, setDefault : BOOLEAN,
            keep : BOOLEAN, retried : BOOLEAN, next : 0 .. Chunks + 1,
            tool : 0 .. Len(Tools),
            moving : Files \cup {NoFile}, wiping : SUBSET Versions]

Report == [what : {"nothing", "stopped", "failed", "installed", "default", "cleaned"},
           version : Versions \cup {NoVersion}]

NoFiles == [f \in Files |-> "absent"]
EmptyDirectory == [exists |-> FALSE, partial |-> NoFile, zip |-> NoFile,
                   incoming |-> NoFiles, files |-> NoFiles]
Idle == [pc |-> "idle", version |-> NoVersion, setDefault |-> FALSE, keep |-> FALSE,
         retried |-> FALSE, next |-> 0, tool |-> 0, moving |-> NoFile, wiping |-> {}]

Init ==
  /\ disk = [v \in Versions |-> EmptyDirectory]
  /\ link = [l \in Links |-> NoVersion]
  /\ proc = [p \in Procs |-> Idle]
  /\ last = [what |-> "nothing", version |-> NoVersion]
  /\ stops = 0

-----------------------------------------------------------------------------
(* A version counts as installed when its compiler binary is there.         *)
Installed(v) == disk[v].files[COMPILER_BIN] # "absent"
Complete(v) == \A f \in FilesOf(v) : disk[v].files[f] = "full"

At(p, pc) == proc[p].pc = pc
V(p) == proc[p].version
Go(p, pc) == proc' = [proc EXCEPT ![p].pc = pc]

(* The command ends and reports what it did.                                *)
End(p, what) ==
  /\ proc' = [proc EXCEPT ![p] = Idle]
  /\ last' = [what |-> what, version |-> V(p)]

Archive == [i \in 1 .. Chunks |-> i]

(* The zip reader looks for the directory of an archive at its end, so      *)
(* bytes before a whole archive may or may not disturb it.                  *)
Readable(bytes) ==
  /\ bytes # NoFile
  /\ Len(bytes) >= Chunks
  /\ SubSeq(bytes, Len(bytes) - Chunks + 1, Len(bytes)) = Archive

LinkAt(p) == IF proc[p].tool = 0 THEN COMPILER_BIN ELSE Tools[proc[p].tool]

-----------------------------------------------------------------------------
(* compact update                                                           *)

(* The new default is set unless the command says otherwise.                *)
AfterInstall(p, setDefault, v) ==
  IF setDefault
  THEN /\ proc' = [proc EXCEPT ![p] = [Idle EXCEPT !.pc = "find", !.version = v,
                                                   !.setDefault = TRUE]]
       /\ UNCHANGED last
  ELSE /\ proc' = [proc EXCEPT ![p] = Idle]
       /\ last' = [what |-> "installed", version |-> v]

(* An exact version that is installed needs no artifact list.               *)
StartUpdate(p, v, exact, setDefault) ==
  /\ At(p, "idle")
  /\ \A q \in Procs : proc[q].pc \notin {"removeLinks", "list", "wipe"}
  /\ \A q \in Procs \ {p} : V(q) # v
  /\ IF exact /\ Installed(v)
     THEN AfterInstall(p, setDefault, v)
     ELSE /\ proc' = [proc EXCEPT ![p] = [Idle EXCEPT !.pc = "load", !.version = v,
                                                      !.setDefault = setDefault]]
          /\ UNCHANGED last
  /\ UNCHANGED <<disk, link, stops>>

(* load_compilers, Compiler::create, and the choice download_and_install    *)
(* makes: an archive that is on disk is not fetched again.                  *)
LoadArtifacts(p) ==
  /\ At(p, "load")
  /\ disk' = [disk EXCEPT ![V(p)].exists = TRUE]
  /\ IF Installed(V(p)) THEN AfterInstall(p, proc[p].setDefault, V(p))
     ELSE /\ Go(p, IF disk[V(p)].zip = NoFile THEN "request" ELSE "clear")
          /\ UNCHANGED last
  /\ UNCHANGED <<link, stops>>

(* DownloadToFile::new.  Whenever there is a partial file the request asks  *)
(* for the bytes after it; a server that honours the range refuses one that *)
(* starts at the end (416, which error_for_status reports).                 *)
RequestArchive(p) ==
  LET partial == disk[V(p)].partial
      from == IF partial = NoFile THEN 0 ELSE Len(partial)
  IN /\ At(p, "request")
     /\ \E server \in Servers :
          IF server = "honours" /\ from >= Chunks
          THEN End(p, "failed") /\ UNCHANGED disk
          ELSE /\ proc' = [proc EXCEPT ![p].pc = "stream",
                             ![p].next = IF server = "honours" THEN from + 1 ELSE 1]
               /\ disk' = [disk EXCEPT ![V(p)].partial = IF @ = NoFile THEN <<>> ELSE @]
               /\ UNCHANGED last
     /\ UNCHANGED <<link, stops>>

(* Mutant: the end of the stream is noticed one read too late.              *)
ReceivePastTheEnd(p) ==
  /\ At(p, "stream")
  /\ proc[p].next <= Chunks + 1
  /\ disk' = [disk EXCEPT ![V(p)].partial = Append(@, proc[p].next)]
  /\ proc' = [proc EXCEPT ![p].next = @ + 1]
  /\ UNCHANGED <<link, last, stops>>

(* A chunk is appended to the partial file, and flushed.                    *)
Receive(p) ==
  /\ At(p, "stream")
  /\ proc[p].next <= Chunks
  /\ disk' = [disk EXCEPT ![V(p)].partial = Append(@, proc[p].next)]
  /\ proc' = [proc EXCEPT ![p].next = @ + 1]
  /\ UNCHANGED <<link, last, stops>>

(* The end of the stream: the partial file becomes artifact.zip.            *)
FinishDownload(p) ==
  /\ At(p, "stream")
  /\ proc[p].next > Chunks
  /\ disk' = [disk EXCEPT ![V(p)].zip = disk[V(p)].partial, ![V(p)].partial = NoFile]
  /\ Go(p, "clear")
  /\ UNCHANGED <<link, last, stops>>

(* install_archive: leftovers of an earlier attempt are not unpacked over.  *)
ClearIncoming(p) ==
  /\ At(p, "clear")
  /\ disk' = [disk EXCEPT ![V(p)].incoming = NoFiles]
  /\ Go(p, "extract")
  /\ UNCHANGED <<link, last, stops>>

(* extract_archive writes one entry after the other into .incoming; an      *)
(* entry is complete only if the archive can be read.                       *)
ExtractEntry(p, f) ==
  LET incoming == disk[V(p)].incoming
  IN /\ At(p, "extract")
     /\ f \in FilesOf(V(p))
     /\ \A g \in Files \ {f} : incoming[g] # "half"
     /\ \/ incoming[f] = "absent" /\ disk' = [disk EXCEPT ![V(p)].incoming[f] = "half"]
        \/ /\ incoming[f] = "half"
           /\ Readable(disk[V(p)].zip)
           /\ disk' = [disk EXCEPT ![V(p)].incoming[f] = "full"]
     /\ UNCHANGED <<link, proc, last, stops>>

ExtractionDone(p) ==
  /\ At(p, "extract")
  /\ \A f \in FilesOf(V(p)) : disk[V(p)].incoming[f] = "full"
  /\ Go(p, "place")
  /\ UNCHANGED <<disk, link, last, stops>>

(* Mutant: an archive that cannot be read is reported and kept.             *)
KeepCorruptArchive(p) ==
  /\ At(p, "extract")
  /\ disk[V(p)].zip # Archive
  /\ End(p, "failed")
  /\ UNCHANGED <<disk, link, stops>>

(* A CorruptArchive failure discards the archive and fetches it once more.  *)
ArchiveCorrupt(p) ==
  /\ At(p, "extract")
  /\ disk[V(p)].zip # Archive
  /\ IF proc[p].retried THEN End(p, "failed") /\ UNCHANGED disk
     ELSE /\ disk' = [disk EXCEPT ![V(p)].zip = NoFile]
          /\ proc' = [proc EXCEPT ![p].pc = "request", ![p].retried = TRUE]
          /\ UNCHANGED last
  /\ UNCHANGED <<link, stops>>

(* Mutant: the unpacked files are moved in no particular order.             *)
PickAny(p, f) ==
  /\ At(p, "place")
  /\ proc[p].moving = NoFile
  /\ disk[V(p)].incoming[f] = "full"
  /\ disk' = [disk EXCEPT ![V(p)].files[f] = "absent"]
  /\ proc' = [proc EXCEPT ![p].moving = f]
  /\ UNCHANGED <<link, last, stops>>

(* move_into, its first half: whatever has the file's name is removed.  The *)
(* compiler binary goes last.                                               *)
DiscardPrevious(p, f) ==
  /\ At(p, "place")
  /\ proc[p].moving = NoFile
  /\ disk[V(p)].incoming[f] = "full"
  /\ f = COMPILER_BIN => \A g \in Files \ {f} : disk[V(p)].incoming[g] = "absent"
  /\ disk' = [disk EXCEPT ![V(p)].files[f] = "absent"]
  /\ proc' = [proc EXCEPT ![p].moving = f]
  /\ UNCHANGED <<link, last, stops>>

(* move_into, its second half: the rename.                                  *)
MoveInto(p) ==
  LET f == proc[p].moving
  IN /\ At(p, "place")
     /\ f # NoFile
     /\ disk' = [disk EXCEPT ![V(p)].files[f] = disk[V(p)].incoming[f],
                             ![V(p)].incoming[f] = "absent"]
     /\ proc' = [proc EXCEPT ![p].moving = NoFile]
     /\ UNCHANGED <<link, last, stops>>

InstallDone(p) ==
  /\ At(p, "place")
  /\ disk[V(p)].incoming = NoFiles
  /\ AfterInstall(p, proc[p].setDefault, V(p))
  /\ UNCHANGED <<disk, link, stops>>

(* Mutant: a link is looked for only where it will be replaced.             *)
FindIfShipped(p) ==
  /\ At(p, "find")
  /\ Go(p, IF link[LinkAt(p)] = NoVersion \/ disk[V(p)].files[LinkAt(p)] = "absent"
           THEN "link" ELSE "unlink")
  /\ UNCHANGED <<disk, link, last, stops>>

(* set_current_compiler: each link is looked for, removed if it is there,   *)
(* and made again if this version ships what it names.  The compiler's own  *)
(* must be there.                                                           *)
FindPrevious(p) ==
  /\ At(p, "find")
  /\ IF proc[p].tool = 0 /\ ~Installed(V(p))
     THEN End(p, "failed")
     ELSE /\ Go(p, IF link[LinkAt(p)] = NoVersion THEN "link" ELSE "unlink")
          /\ UNCHANGED last
  /\ UNCHANGED <<disk, link, stops>>

(* The link that was found may be gone by now, taken by another update:     *)
(* remove_file then fails, and the command with it.                         *)
Unlink(p) ==
  /\ At(p, "unlink")
  /\ IF link[LinkAt(p)] = NoVersion
     THEN End(p, "failed") /\ UNCHANGED link
     ELSE /\ link' = [link EXCEPT ![LinkAt(p)] = NoVersion]
          /\ Go(p, "link")
          /\ UNCHANGED last
  /\ UNCHANGED <<disk, stops>>

Relink(p) ==
  LET l == LinkAt(p)
      ships == disk[V(p)].files[l] # "absent"
  IN /\ At(p, "link")
     /\ IF ships /\ link[l] # NoVersion
        THEN End(p, "failed") /\ UNCHANGED link
        ELSE /\ link' = [link EXCEPT ![l] = IF ships THEN V(p) ELSE @]
             /\ proc' = [proc EXCEPT
                  ![p].tool = IF @ < Len(Tools) THEN @ + 1 ELSE @,
                  ![p].pc = IF proc[p].tool < Len(Tools) THEN "find" ELSE "validate"]
             /\ UNCHANGED last
     /\ UNCHANGED <<disk, stops>>

(* Mutant: a default that does not validate is taken back.                  *)
ValidateOrUndo(p) ==
  LET valid == link[COMPILER_BIN] = V(p) /\ Installed(V(p))
  IN /\ At(p, "validate")
     /\ End(p, IF valid THEN "default" ELSE "failed")
     /\ link' = [link EXCEPT ![COMPILER_BIN] = IF valid THEN @ ELSE NoVersion]
     /\ UNCHANGED <<disk, stops>>

(* get_current_compiler must find the version just set.                     *)
Validate(p) ==
  /\ At(p, "validate")
  /\ End(p, IF link[COMPILER_BIN] = V(p) /\ Installed(V(p)) THEN "default" ELSE "failed")
  /\ UNCHANGED <<disk, link, stops>>

-----------------------------------------------------------------------------
(* compact clean                                                            *)

StartClean(p, keep) ==
  /\ Cleans
  /\ \A q \in Procs : At(q, "idle")
  /\ proc' = [proc EXCEPT ![p] = [Idle EXCEPT !.keep = keep,
       !.pc = IF keep THEN "list" ELSE "removeLinks",
       !.version = link[COMPILER_BIN]]]
  /\ UNCHANGED <<disk, link, last, stops>>

(* Mutant: the links are left to the versions that are removed.             *)
LeaveLink(p) ==
  /\ At(p, "removeLinks")
  /\ Go(p, "list")
  /\ UNCHANGED <<disk, link, last, stops>>

(* remove_file_if_exists follows the link: a dangling one stays.            *)
RemoveLink(p) ==
  LET l == LinkAt(p)
      exists == link[l] # NoVersion /\ disk[link[l]].files[l] # "absent"
  IN /\ At(p, "removeLinks")
     /\ link' = [link EXCEPT ![l] = IF exists THEN NoVersion ELSE @]
     /\ proc' = [proc EXCEPT ![p].tool = IF @ < Len(Tools) THEN @ + 1 ELSE @,
                             ![p].pc = IF proc[p].tool < Len(Tools) THEN @ ELSE "list"]
     /\ UNCHANGED <<disk, last, stops>>

(* Mutant: --keep-current keeps nothing.                                    *)
ListEverything(p) ==
  /\ At(p, "list")
  /\ proc' = [proc EXCEPT ![p].pc = "wipe", ![p].wiping = {v \in Versions : disk[v].exists}]
  /\ UNCHANGED <<disk, link, last, stops>>

(* With --keep-current a directory is kept when its name contains the       *)
(* current version's, which without a current version is the empty string.  *)
ListVersions(p) ==
  LET kept == IF ~proc[p].keep THEN {}
              ELSE IF V(p) = NoVersion THEN Versions ELSE Containing[V(p)]
  IN /\ At(p, "list")
     /\ proc' = [proc EXCEPT ![p].pc = "wipe",
                             ![p].wiping = {v \in Versions \ kept : disk[v].exists}]
     /\ UNCHANGED <<disk, link, last, stops>>

WipeVersion(p) ==
  /\ At(p, "wipe")
  /\ \E v \in proc[p].wiping :
       /\ disk' = [disk EXCEPT ![v] = EmptyDirectory]
       /\ proc' = [proc EXCEPT ![p].wiping = @ \ {v}]
  /\ UNCHANGED <<link, last, stops>>

CleanDone(p) ==
  /\ At(p, "wipe")
  /\ proc[p].wiping = {}
  /\ End(p, "cleaned")
  /\ UNCHANGED <<disk, link, stops>>

-----------------------------------------------------------------------------
(* A command is killed, or the network or the machine fails it.             *)
Stop(p) ==
  /\ ~At(p, "idle")
  /\ stops < MaxStops
  /\ stops' = stops + 1
  /\ End(p, "stopped")
  /\ UNCHANGED <<disk, link>>

(* remove_dir_all removes a directory's entries one after the other, in no  *)
(* particular order, and those of .incoming likewise.                       *)
StopWipe(p) ==
  /\ At(p, "wipe")
  /\ CleanStops
  /\ stops < MaxStops
  /\ stops' = stops + 1
  /\ \E v \in proc[p].wiping, left, unpacked \in SUBSET Files, partialLeft, zipLeft \in BOOLEAN :
       disk' = [disk EXCEPT
         ![v].files = [f \in Files |-> IF f \in left THEN @[f] ELSE "absent"],
         ![v].incoming = [f \in Files |-> IF f \in unpacked THEN @[f] ELSE "absent"],
         ![v].partial = IF partialLeft THEN @ ELSE NoFile,
         ![v].zip = IF zipLeft THEN @ ELSE NoFile]
  /\ End(p, "stopped")
  /\ UNCHANGED link

(* What a running command does next, if nothing stops it.                   *)
Advance(p) ==
  \/ LoadArtifacts(p)
  \/ RequestArchive(p)
  \/ Receive(p)
  \/ FinishDownload(p)
  \/ ClearIncoming(p)
  \/ \E f \in Files : ExtractEntry(p, f)
  \/ ExtractionDone(p)
  \/ ArchiveCorrupt(p)
  \/ \E f \in Files : DiscardPrevious(p, f)
  \/ MoveInto(p)
  \/ InstallDone(p)
  \/ FindPrevious(p)
  \/ Unlink(p)
  \/ Relink(p)
  \/ Validate(p)
  \/ RemoveLink(p)
  \/ ListVersions(p)
  \/ WipeVersion(p)
  \/ CleanDone(p)

Next ==
  \E p \in Procs :
    \/ \E v \in Versions, exact, setDefault \in BOOLEAN : StartUpdate(p, v, exact, setDefault)
    \/ \E keep \in BOOLEAN : StartClean(p, keep)
    \/ Advance(p)
    \/ Stop(p)
    \/ StopWipe(p)

Spec == Init /\ [][Next]_vars

(* A command that nothing stops goes on, and the user repeats an update     *)
(* until the version is there.                                              *)
RepeatedUpdate(v) == \E p \in Procs : ~Installed(v) /\ StartUpdate(p, v, TRUE, TRUE)

Fairness ==
  /\ \A p \in Procs : WF_vars(Advance(p))
  /\ \A v \in Versions : SF_vars(RepeatedUpdate(v))

FairSpec == Spec /\ Fairness

-----------------------------------------------------------------------------
(* Properties                                                               *)

(* Every variable has the shape its declaration gives it.                   *)
TypeOK ==
  /\ disk \in [Versions -> Directory]
  /\ link \in [Links -> Versions \cup {NoVersion}]
  /\ proc \in [Procs -> Command]
  /\ last \in Report
  /\ stops \in 0 .. MaxStops

(* The compiler binary is the proof that a version is completely installed  *)
(* (compiler_legacy.rs, COMPILER_BIN): wherever an update was stopped, all  *)
(* the files of an installed version are there, and whole.                  *)
InstalledIsComplete == \A v \in Versions : Installed(v) => Complete(v)

(* The default compiler is an installed one, in every state: one bad        *)
(* install or clean never leaves a link that breaks the other commands.     *)
DefaultIsInstalled ==
  link[COMPILER_BIN] # NoVersion => Installed(link[COMPILER_BIN])

(* After an update that reported its version as the default, every link     *)
(* names that version, and the tools it does not ship have none: whatever   *)
(* stopped updates left in the bin directory before.                        *)
LinksFollowDefault ==
  last.what = "default" /\ (\A p \in Procs : At(p, "idle")) =>
    \A l \in Links :
      link[l] = IF l \in FilesOf(last.version) THEN last.version ELSE NoVersion

(* Updates that race for the links may fail, at the removal of a link that  *)
(* another has taken or at the making of one that another has made; but when *)
(* all have ended, none of them stopped half-way, some compiler is the      *)
(* default: whoever takes the link away (set_current_compiler) makes it     *)
(* again or finds it made, and whoever finds it taken leaves that to it.    *)
UpdatesLeaveADefault ==
  /\ stops = 0
  /\ \A p \in Procs : At(p, "idle")
  /\ last.what \in {"default", "failed"}
  => link[COMPILER_BIN] # NoVersion

(* --keep-current "Keep the version currently in use": a clean that was     *)
(* told so neither removes the default version nor its link.                *)
CleanKeepsCurrent ==
  [][\A p \in Procs : proc[p].keep /\ V(p) # NoVersion =>
       link'[COMPILER_BIN] = V(p) /\ disk'[V(p)].files = disk[V(p)].files]_vars

(* However earlier attempts were stopped, and whatever they left on disk,   *)
(* repeating an update installs the version (bin/compact.rs,                *)
(* download_and_install: no leftover fails every retry in the same way).    *)
RepeatedUpdatesInstall == \A v \in Versions : []<>Installed(v)

=============================================================================
