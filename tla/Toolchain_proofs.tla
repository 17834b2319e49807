--------------------------- MODULE Toolchain_proofs ---------------------------
(***************************************************************************)
(* Theorems about Toolchain, for every set of versions, files and commands *)
(* that run at once, every length of an archive, and any number of stops:  *)
(* the directories of the versions, the default, and the links an update   *)
(* that reports a new default leaves.                                      *)
(***************************************************************************)
EXTENDS ToolchainRefinement, SequenceTheorems, TLAPS

-----------------------------------------------------------------------------
(* The inductive invariant                                                  *)

Updating == {"load", "request", "stream", "clear", "extract", "place",
             "find", "unlink", "link", "validate"}
Cleaning == {"removeLinks", "list", "wipe"}

(* What the files of a version and its staging directory hold while an      *)
(* update moves them: each file of the version is in one of the two, and    *)
(* the compiler binary is not in its place before all others are.           *)
Placing(c, d) ==
  /\ c.moving # NoFile => d.incoming[c.moving] = "full"
  /\ c.moving = COMPILER_BIN => \A g \in Files \ {COMPILER_BIN} : d.incoming[g] = "absent"
  /\ \A f \in Files : d.incoming[f] # "half"
  /\ \A f \in FilesOf(c.version) : d.incoming[f] = "full" \/ d.files[f] = "full"
  /\ d.files[COMPILER_BIN] # "absent" => \A f \in Files : d.incoming[f] = "absent"

(* What an update c may rely on in the directory d of its version.          *)
UpdateOK(c, d) ==
  /\ c.version \in Versions
  /\ c.pc = "stream" => c.next \in 1 .. Chunks + 1 /\ d.partial \in Seq(1 .. Chunks)
  /\ c.pc \in {"request", "stream", "clear", "extract"} => d.files[COMPILER_BIN] = "absent"
  /\ c.pc \in {"extract", "place"} => \A f \in Files \ FilesOf(c.version) : d.incoming[f] = "absent"
  /\ c.pc # "place" => c.moving = NoFile
  /\ c.pc = "place" => Placing(c, d)
  /\ c.pc \in {"find", "unlink", "link", "validate"} => d.files[COMPILER_BIN] # "absent"

(* A clean has either taken the default's link away or keeps its version.   *)
CleanOK(c, default) ==
  /\ c.pc = "removeLinks" => ~c.keep /\ (c.tool # 0 => default = NoVersion)
  /\ c.pc \in {"list", "wipe"} => default = IF c.keep THEN c.version ELSE NoVersion
  /\ c.pc = "wipe" => default \notin c.wiping

CommandOK(p) ==
  /\ At(p, "idle") => proc[p] = Idle
  /\ proc[p].pc \in Updating => UpdateOK(proc[p], disk[V(p)]) /\ ~proc[p].keep
  /\ proc[p].pc \in Cleaning => CleanOK(proc[p], link[COMPILER_BIN])

(* Updates that run at once are of different versions; a clean runs alone.  *)
Separate ==
  /\ \A p, q \in Procs : p # q /\ proc[p].pc \in Updating => V(p) # V(q)
  /\ \A p, q \in Procs : p # q /\ proc[p].pc \in Cleaning => At(q, "idle")

IInv ==
  /\ TypeOK
  /\ \A p \in Procs : CommandOK(p)
  /\ Separate
  /\ DefaultIsInstalled
  /\ CleanStops \/ InstalledIsComplete

(* What --keep-current promises of one step.                                *)
KeepsCurrent ==
  \A p \in Procs : proc[p].keep /\ V(p) # NoVersion =>
    link'[COMPILER_BIN] = V(p) /\ disk'[V(p)].files = disk[V(p)].files

(* What every step is shown to do: it preserves the invariant, it is a step *)
(* of the store of versions or changes nothing there, and it keeps the      *)
(* version a clean was told to keep.                                        *)
StepOK == IInv' /\ [Store!Next]_(Store!vars) /\ KeepsCurrent

-----------------------------------------------------------------------------
(* Typing                                                                   *)

LEMMA ToolsTyped ==
  /\ Len(Tools) \in Nat
  /\ COMPILER_BIN \in Links
  /\ \A i \in 1 .. Len(Tools) : Tools[i] \in Files /\ Tools[i] # COMPILER_BIN /\ Tools[i] \in Links
BY ToolsAssumption DEF Links

LEMMA LinkAtTyped ==
  ASSUME TypeOK, NEW p \in Procs
  PROVE  /\ LinkAt(p) \in Links /\ LinkAt(p) \in Files
         /\ LinkAt(p) = COMPILER_BIN <=> proc[p].tool = 0
BY ToolsTyped, NamesAssumption DEF TypeOK, LinkAt, Command

LEMMA IdleTyped == Idle \in Command
BY BoundsAssumption, ToolsTyped DEF Idle, Command

LEMMA EmptyTyped == EmptyDirectory \in Directory
BY DEF EmptyDirectory, Directory, NoFiles, Bytes, Presence

Pcs == {"idle"} \cup Updating \cup Cleaning

LEMMA CommandTyped ==
  ASSUME NEW c \in Command
  PROVE  /\ c.pc \in Pcs /\ c.version \in Versions \cup {NoVersion}
         /\ c.setDefault \in BOOLEAN /\ c.keep \in BOOLEAN /\ c.retried \in BOOLEAN
         /\ c.next \in 0 .. Chunks + 1 /\ c.tool \in 0 .. Len(Tools)
         /\ c.moving \in Files \cup {NoFile} /\ c.wiping \in SUBSET Versions
BY DEF Command, Pcs, Updating, Cleaning

LEMMA DirectoryTyped ==
  ASSUME NEW d \in Directory
  PROVE  /\ d.exists \in BOOLEAN /\ d.partial \in Bytes /\ d.zip \in Bytes
         /\ d.incoming \in [Files -> Presence] /\ d.files \in [Files -> Presence]
BY DEF Directory

(* A command, with the sets of its fields named: N numbers of chunks and T  *)
(* numbers of tools.                                                        *)
CommandOver(N, T) ==
  [pc : Pcs, version : Versions \cup {NoVersion}, setDefault : BOOLEAN, keep : BOOLEAN,
   retried : BOOLEAN, next : N, tool : T, moving : Files \cup {NoFile},
   wiping : SUBSET Versions]

LEMMA CommandFields ==
  \E N, T : N = 0 .. Chunks + 1 /\ T = 0 .. Len(Tools) /\ Command = CommandOver(N, T)
<1> DEFINE N == 0 .. Chunks + 1
           T == 0 .. Len(Tools)
<1>1. Command = CommandOver(N, T)
  BY ZenonT(60) DEF Command, CommandOver, Pcs, Updating, Cleaning
<1> WITNESS N, T
<1> HIDE DEF N, T
<1> QED BY <1>1 DEF N, T

(* The ways in which a step changes a command: what it sets and leaves.     *)
LEMMA GoTyped ==
  ASSUME NEW c \in Command, NEW x \in Pcs
  PROVE  LET e == [c EXCEPT !.pc = x]
         IN /\ e \in Command /\ e.pc = x
            /\ e.version = c.version /\ e.keep = c.keep /\ e.next = c.next
            /\ e.tool = c.tool /\ e.moving = c.moving /\ e.wiping = c.wiping
<1>1. PICK N, T :
        N = 0 .. Chunks + 1 /\ T = 0 .. Len(Tools) /\ Command = CommandOver(N, T)
  BY CommandFields
<1> QED BY <1>1 DEF CommandOver

LEMMA NextTyped ==
  ASSUME NEW c \in Command, NEW n \in 0 .. Chunks + 1
  PROVE  LET e == [c EXCEPT !.next = n]
         IN /\ e \in Command /\ e.next = n
            /\ e.pc = c.pc /\ e.version = c.version /\ e.keep = c.keep
            /\ e.tool = c.tool /\ e.moving = c.moving /\ e.wiping = c.wiping
<1>1. PICK N, T :
        N = 0 .. Chunks + 1 /\ T = 0 .. Len(Tools) /\ Command = CommandOver(N, T)
  BY CommandFields
<1> QED BY <1>1 DEF CommandOver

LEMMA GoRetriedTyped ==
  ASSUME NEW c \in Command, NEW x \in Pcs, NEW b \in BOOLEAN
  PROVE  LET e == [c EXCEPT !.pc = x, !.retried = b]
         IN /\ e \in Command /\ e.pc = x /\ e.retried = b
            /\ e.version = c.version /\ e.keep = c.keep /\ e.next = c.next
            /\ e.tool = c.tool /\ e.moving = c.moving /\ e.wiping = c.wiping
<1>1. PICK N, T :
        N = 0 .. Chunks + 1 /\ T = 0 .. Len(Tools) /\ Command = CommandOver(N, T)
  BY CommandFields
<1> QED BY <1>1 DEF CommandOver

LEMMA MovingTyped ==
  ASSUME NEW c \in Command, NEW m \in Files \cup {NoFile}
  PROVE  LET e == [c EXCEPT !.moving = m]
         IN /\ e \in Command /\ e.moving = m
            /\ e.pc = c.pc /\ e.version = c.version /\ e.keep = c.keep
            /\ e.next = c.next /\ e.tool = c.tool /\ e.wiping = c.wiping
<1>1. PICK N, T :
        N = 0 .. Chunks + 1 /\ T = 0 .. Len(Tools) /\ Command = CommandOver(N, T)
  BY CommandFields
<1> QED BY <1>1 DEF CommandOver

LEMMA WipingTyped ==
  ASSUME NEW c \in Command, NEW w \in SUBSET Versions
  PROVE  LET e == [c EXCEPT !.wiping = w]
         IN /\ e \in Command /\ e.wiping = w
            /\ e.pc = c.pc /\ e.version = c.version /\ e.keep = c.keep
            /\ e.next = c.next /\ e.tool = c.tool /\ e.moving = c.moving
<1>1. PICK N, T :
        N = 0 .. Chunks + 1 /\ T = 0 .. Len(Tools) /\ Command = CommandOver(N, T)
  BY CommandFields
<1> QED BY <1>1 DEF CommandOver

-----------------------------------------------------------------------------
(* Steps                                                                    *)

LEMMA InitIInv == Init => IInv /\ Store!Init
<1> SUFFICES ASSUME Init PROVE IInv /\ Store!Init
  OBVIOUS
<1>1. TypeOK
  BY EmptyTyped, IdleTyped, BoundsAssumption DEF Init, TypeOK, Report
<1>2. \A p \in Procs : CommandOK(p)
  BY DEF Init, CommandOK, At, Idle, Updating, Cleaning
<1>3. Separate
  BY DEF Init, Separate, Idle, Updating, Cleaning
<1>4. link[COMPILER_BIN] = NoVersion /\ \A v \in Versions : ~Installed(v)
  BY ToolsTyped, NamesAssumption DEF Init, Installed, EmptyDirectory, NoFiles
<1>5. DefaultIsInstalled /\ InstalledIsComplete
  BY <1>4 DEF DefaultIsInstalled, InstalledIsComplete
<1>6. Store!Init
  BY <1>4 DEF Store!Init
<1> QED BY <1>1, <1>2, <1>3, <1>5, <1>6 DEF IInv

(* A step of one update, which changes its own command c and the directory  *)
(* d of its version, and perhaps links.                                     *)
LEMMA UpdateStep ==
  ASSUME IInv, NEW p \in Procs, proc[p].pc \in Updating, NEW v \in Versions, V(p) = v,
         NEW c \in Command, NEW d \in Directory,
         proc' = [proc EXCEPT ![p] = c],
         disk' = [disk EXCEPT ![v] = d],
         link' \in [Links -> Versions \cup {NoVersion}],
         last' \in Report, stops' \in 0 .. MaxStops,
         c = Idle \/ (c.pc \in Updating /\ c.version = v /\ ~c.keep /\ UpdateOK(c, d)),
         Installed(v) => d.files[COMPILER_BIN] # "absent",
         d.files[COMPILER_BIN] # "absent" =>
           CleanStops \/ \A f \in FilesOf(v) : d.files[f] = "full",
         \/ link'[COMPILER_BIN] = link[COMPILER_BIN]
         \/ /\ d.files[COMPILER_BIN] = disk[v].files[COMPILER_BIN]
            /\ \/ link'[COMPILER_BIN] = NoVersion
               \/ Installed(v) /\ link'[COMPILER_BIN] = v
  PROVE  StepOK
<1>1. TypeOK /\ Separate /\ DefaultIsInstalled /\ \A q \in Procs : CommandOK(q)
  BY DEF IInv
<1>2. proc[p] \in Command
  BY <1>1 DEF CommandOK, UpdateOK, TypeOK
<1>3. /\ proc'[p] = c
      /\ \A q \in Procs : q # p => proc'[q] = proc[q]
      /\ disk'[v] = d
      /\ \A w \in Versions : w # v => disk'[w] = disk[w]
  BY <1>1, <1>2 DEF TypeOK
<1>4. TypeOK'
  BY <1>1, <1>2 DEF TypeOK
<1>5. \A q \in Procs : ~proc[q].keep /\ proc[q].pc \notin Cleaning
  <2> TAKE q \in Procs
  <2>1. proc[q].pc \in Pcs /\ proc[p].pc # "idle" /\ proc[p].pc \notin Cleaning
    BY <1>1, CommandTyped DEF TypeOK, Updating, Cleaning
  <2>2. proc[q].pc \notin Cleaning
    BY <1>1, <2>1 DEF Separate, At
  <2> QED BY <1>1, <2>1, <2>2 DEF CommandOK, At, Pcs, Idle
<1>6. ASSUME NEW q \in Procs PROVE CommandOK(q)'
  <2>1. CASE q = p
    <3>1. CASE c = Idle
      BY <1>3, <2>1, <3>1 DEF CommandOK, At, Idle, Updating, Cleaning
    <3>2. CASE c.pc \in Updating /\ c.version = v /\ ~c.keep /\ UpdateOK(c, d)
      BY <1>3, <2>1, <3>2 DEF CommandOK, At, V, Updating, Cleaning
    <3> QED BY <3>1, <3>2
  <2>2. CASE q # p
    <3>1. proc'[q] = proc[q] /\ CommandOK(q)
      BY <1>1, <1>3, <2>2
    <3>2. proc[q].pc \in Updating => V(q) \in Versions /\ V(q) # v
      BY <1>1, <2>2, <3>1 DEF CommandOK, UpdateOK, Separate, V
    <3>3. proc[q].pc \in Updating => disk'[V(q)] = disk[V(q)]
      BY <1>3, <3>2
    <3> QED BY <1>5, <3>1, <3>3 DEF CommandOK, At, V
  <2> QED BY <2>1, <2>2
<1>7. Separate'
  <2>1. ASSUME NEW q \in Procs, NEW r \in Procs, q # r, proc'[q].pc \in Updating
        PROVE  proc'[q].version # proc'[r].version
    <3>1. CASE q # p /\ r # p
      BY <1>1, <1>3, <2>1, <3>1 DEF Separate, V
    <3>2. CASE q = p
      <4>1. c.version = v
        BY <1>3, <2>1, <3>2 DEF Idle, Updating
      <4> QED BY <1>1, <1>3, <2>1, <3>2, <4>1 DEF Separate, V
    <3>3. CASE r = p
      <4>1. proc[q].pc \in Updating /\ proc[q].version \in Versions /\ proc[q].version # v
        BY <1>1, <1>3, <2>1, <3>3 DEF Separate, CommandOK, UpdateOK, V
      <4>2. c.version = v \/ c.version = NoVersion
        BY DEF Idle
      <4> QED BY <1>3, <2>1, <3>3, <4>1, <4>2, NamesAssumption
    <3> QED BY <3>1, <3>2, <3>3
  <2>2. \A q \in Procs : proc'[q].pc \notin Cleaning
    BY <1>3, <1>5 DEF Idle, Updating, Cleaning
  <2> QED BY <2>1, <2>2 DEF Separate, V
<1>8. \A w \in Versions : w # v => (Installed(w)' <=> Installed(w))
  BY <1>3 DEF Installed
<1>9. Installed(v)' <=> d.files[COMPILER_BIN] # "absent"
  BY <1>3 DEF Installed
<1>10. DefaultIsInstalled'
  <2>1. link[COMPILER_BIN] \in Versions \cup {NoVersion}
    BY <1>1, ToolsTyped DEF TypeOK
  <2>2. link[COMPILER_BIN] # NoVersion =>
          link[COMPILER_BIN] \in Versions /\ Installed(link[COMPILER_BIN])
    BY <1>1, <2>1 DEF DefaultIsInstalled
  <2>3. \A w \in Versions : Installed(w) => disk'[w].files[COMPILER_BIN] # "absent"
    BY <1>8, <1>9 DEF Installed
  <2>4. link'[COMPILER_BIN] # NoVersion => disk'[link'[COMPILER_BIN]].files[COMPILER_BIN] # "absent"
    <3>1. CASE link'[COMPILER_BIN] = link[COMPILER_BIN]
      BY <2>2, <2>3, <3>1
    <3>2. CASE link'[COMPILER_BIN] = v /\ Installed(v)
      BY <2>3, <3>2
    <3> QED BY <3>1, <3>2
  <2> QED BY <2>4 DEF DefaultIsInstalled, Installed
<1>11. CleanStops \/ InstalledIsComplete'
  <2>1. ASSUME NEW w \in Versions, Installed(w)', ~CleanStops PROVE Complete(w)'
    BY <1>3, <1>8, <1>9, <2>1 DEF IInv, InstalledIsComplete, Complete, FilesOf
  <2> QED BY <2>1 DEF InstalledIsComplete
<1>12. [Store!Next]_(Store!vars)
  <2> DEFINE old == {w \in Versions : Installed(w)}
             new == {w \in Versions : disk'[w].files[COMPILER_BIN] # "absent"}
  <2>1. new = old \/ (new = old \cup {v} /\ d.files[COMPILER_BIN] # disk[v].files[COMPILER_BIN])
    BY <1>8, <1>9 DEF Installed
  <2>2. CASE new = old
    <3>1. CASE link'[COMPILER_BIN] = link[COMPILER_BIN]
      BY <2>2, <3>1 DEF Store!vars, Installed
    <3>2. CASE link'[COMPILER_BIN] = NoVersion
      BY <2>2, <3>2 DEF Store!vars, Store!Next, Store!NoDefault, Installed
    <3>3. CASE Installed(v) /\ link'[COMPILER_BIN] = v
      BY <2>2, <3>3 DEF Store!vars, Store!Next, Store!SetDefault, Installed
    <3> QED BY <3>1, <3>2, <3>3
  <2>3. CASE new = old \cup {v} /\ link'[COMPILER_BIN] = link[COMPILER_BIN]
    BY <2>3 DEF Store!vars, Store!Next, Store!Install, Installed
  <2> QED BY <2>1, <2>2, <2>3
<1>13. KeepsCurrent
  BY <1>5 DEF KeepsCurrent
<1> QED BY <1>4, <1>6, <1>7, <1>10, <1>11, <1>12, <1>13 DEF StepOK, IInv

LEMMA Updater ==
  ASSUME IInv, NEW p \in Procs, proc[p].pc \in Updating
  PROVE  /\ V(p) \in Versions /\ proc[p].version = V(p) /\ proc[p] \in Command /\ ~proc[p].keep
         /\ disk[V(p)] \in Directory /\ UpdateOK(proc[p], disk[V(p)])
         /\ link \in [Links -> Versions \cup {NoVersion}] /\ last \in Report
         /\ stops \in 0 .. MaxStops
         /\ disk = [disk EXCEPT ![V(p)] = disk[V(p)]]
         /\ Installed(V(p)) => CleanStops \/ \A f \in FilesOf(V(p)) : disk[V(p)].files[f] = "full"
<1>1. CommandOK(p) /\ TypeOK
  BY DEF IInv
<1>2. V(p) \in Versions /\ proc[p].version = V(p)
  BY <1>1 DEF CommandOK, UpdateOK, V
<1>3. disk = [disk EXCEPT ![V(p)] = disk[V(p)]]
  BY <1>1, <1>2 DEF TypeOK
<1> QED BY <1>1, <1>2, <1>3 DEF IInv, CommandOK, UpdateOK, TypeOK, InstalledIsComplete, Complete, At, Updating

(* The command after one that has ended, or that goes on to the links.      *)
LEMMA AfterInstallShape ==
  ASSUME NEW p \in Procs, NEW v \in Versions, NEW setDefault \in BOOLEAN,
         AfterInstall(p, setDefault, v), last \in Report
  PROVE  /\ last' \in Report
         /\ \E c \in Command :
              /\ proc' = [proc EXCEPT ![p] = c]
              /\ \/ c = Idle
                 \/ /\ c.pc = "find" /\ c.version = v /\ ~c.keep
                    /\ \A d : d.files[COMPILER_BIN] # "absent" => UpdateOK(c, d)
<1>1. CASE setDefault
  <2> DEFINE c == [Idle EXCEPT !.pc = "find", !.version = v, !.setDefault = TRUE]
  <2>1. c \in Command
    BY IdleTyped, ToolsTyped, BoundsAssumption DEF Command, Idle
  <2>2. proc' = [proc EXCEPT ![p] = c] /\ last' = last
    BY <1>1 DEF AfterInstall
  <2>3. c.pc = "find" /\ c.version = v /\ ~c.keep /\ c.moving = NoFile
    BY DEF Idle
  <2> HIDE DEF c
  <2>4. \A d : d.files[COMPILER_BIN] # "absent" => UpdateOK(c, d)
    BY <2>3 DEF UpdateOK
  <2> QED BY <2>1, <2>2, <2>3, <2>4
<1>2. CASE ~setDefault
  BY <1>2, IdleTyped DEF AfterInstall, Report
<1> QED BY <1>1, <1>2

LEMMA EndShape ==
  ASSUME TypeOK, NEW p \in Procs, NEW what, End(p, what),
         what \in {"nothing", "stopped", "failed", "installed", "default", "cleaned"}
  PROVE  proc' = [proc EXCEPT ![p] = Idle] /\ last' \in Report /\ Idle \in Command
<1>1. V(p) \in Versions \cup {NoVersion}
  BY CommandTyped DEF TypeOK, V
<1> QED BY <1>1, IdleTyped DEF End, Report

LEMMA LoadArtifactsStep ==
  ASSUME IInv, NEW p \in Procs, LoadArtifacts(p)
  PROVE  StepOK
<1> DEFINE v == V(p)
           d == [disk[v] EXCEPT !.exists = TRUE]
<1>1. proc[p].pc = "load" /\ proc[p].pc \in Updating
  BY DEF LoadArtifacts, At, Updating
<1>2. d \in Directory /\ d.files = disk[v].files /\ disk' = [disk EXCEPT ![v] = d]
  BY <1>1, Updater DEF LoadArtifacts, Directory
<1>3. link' = link /\ stops' = stops
  BY DEF LoadArtifacts
<1>4. CASE Installed(v)
  <2>1. AfterInstall(p, proc[p].setDefault, v)
    BY <1>4 DEF LoadArtifacts
  <2>2. proc[p].setDefault \in BOOLEAN
    BY <1>1, Updater, CommandTyped
  <2>3. PICK c \in Command : /\ proc' = [proc EXCEPT ![p] = c]
                             /\ \/ c = Idle
                                \/ /\ c.pc = "find" /\ c.version = v /\ ~c.keep
                                   /\ \A e : e.files[COMPILER_BIN] # "absent" => UpdateOK(c, e)
    BY <1>1, <2>1, <2>2, Updater, AfterInstallShape
  <2>4. last' \in Report
    BY <1>1, <2>1, <2>2, Updater, AfterInstallShape
  <2> HIDE DEF d
  <2>5. c = Idle \/ (c.pc \in Updating /\ c.version = v /\ ~c.keep /\ UpdateOK(c, d))
    BY <1>2, <1>4, <2>3 DEF Installed, Updating
  <2>6. proc' = [proc EXCEPT ![p] = c]
    BY <2>3
  <2> QED BY <1>1, <1>2, <1>3, <2>4, <2>5, <2>6, Updater, UpdateStep DEF Installed
<1>5. CASE ~Installed(v)
  <2> DEFINE x == IF disk[v].zip = NoFile THEN "request" ELSE "clear"
             c == [proc[p] EXCEPT !.pc = x]
  <2>1. x \in {"request", "clear"} /\ x \in Pcs
    BY DEF Pcs, Updating
  <2> HIDE DEF x
  <2>2. c \in Command /\ c.pc = x /\ c.version = v /\ ~c.keep /\ c.moving = NoFile
    BY <1>1, <2>1, Updater, GoTyped DEF UpdateOK
  <2>3. proc' = [proc EXCEPT ![p] = c] /\ last' = last
    BY <1>5 DEF LoadArtifacts, Go, x
  <2> HIDE DEF c, d
  <2>4. UpdateOK(c, d)
    BY <1>1, <1>2, <1>5, <2>1, <2>2, Updater DEF UpdateOK, Installed
  <2> QED BY <1>1, <1>2, <1>3, <1>5, <2>1, <2>2, <2>3, <2>4, Updater, UpdateStep DEF Installed, Updating
<1> QED BY <1>4, <1>5

LEMMA RequestArchiveStep ==
  ASSUME IInv, NEW p \in Procs, RequestArchive(p)
  PROVE  StepOK
<1> DEFINE v == V(p)
           partial == disk[v].partial
           from == IF partial = NoFile THEN 0 ELSE Len(partial)
           y == IF partial = NoFile THEN <<>> ELSE partial
           d == [disk[v] EXCEPT !.partial = y]
<1>1. proc[p].pc = "request" /\ proc[p].pc \in Updating /\ link' = link /\ stops' = stops
  BY DEF RequestArchive, At, Updating
<1>2. disk[v].files[COMPILER_BIN] = "absent" /\ proc[p].moving = NoFile /\ v \in Versions
  BY <1>1, Updater DEF UpdateOK
<1>3. PICK server \in Servers :
        IF server = "honours" /\ from >= Chunks
        THEN End(p, "failed") /\ UNCHANGED disk
        ELSE /\ proc' = [proc EXCEPT ![p].pc = "stream",
                           ![p].next = IF server = "honours" THEN from + 1 ELSE 1]
             /\ disk' = [disk EXCEPT ![v].partial = IF @ = NoFile THEN <<>> ELSE @]
             /\ UNCHANGED last
  BY DEF RequestArchive
<1>4. CASE server = "honours" /\ from >= Chunks
  BY <1>1, <1>2, <1>3, <1>4, Updater, EndShape, UpdateStep DEF Installed, IInv
<1>5. CASE ~(server = "honours" /\ from >= Chunks)
  <2> DEFINE n == IF server = "honours" THEN from + 1 ELSE 1
             c == [proc[p] EXCEPT !.pc = "stream", !.next = n]
  <2>1. partial \in Bytes /\ y \in Seq(1 .. Chunks) /\ y \in Bytes /\ from \in Nat
    BY <1>1, Updater, DirectoryTyped, EmptySeq, LenProperties DEF Bytes
  <2>2. n \in 1 .. Chunks + 1 /\ n \in 0 .. Chunks + 1
    BY <1>5, <2>1, BoundsAssumption
  <2>3. proc' = [proc EXCEPT ![p] = c] /\ last' = last /\ disk' = [disk EXCEPT ![v] = d]
    BY <1>3, <1>5
  <2> HIDE DEF n, y
  <2>4. d \in Directory /\ d.files = disk[v].files /\ d.partial = y
    BY <1>1, <2>1, Updater DEF Directory
  <2>5. "stream" \in Pcs
    BY DEF Pcs, Updating
  <2>6. c \in Command /\ c.pc = "stream" /\ c.version = v /\ ~c.keep /\ c.moving = NoFile /\ c.next = n
    <3>1. proc[p] \in Command /\ proc[p].version = v /\ ~proc[p].keep
      BY <1>1, Updater
    <3> HIDE DEF v
    <3>2. n \in 0 .. Chunks + 1
      BY <2>2
    <3>3. PICK N, T :
            N = 0 .. Chunks + 1 /\ T = 0 .. Len(Tools) /\ Command = CommandOver(N, T)
      BY CommandFields
    <3>4. n \in N
      BY <3>2, <3>3
    <3> QED BY <1>2, <2>5, <3>1, <3>3, <3>4 DEF CommandOver
  <2> HIDE DEF c, d
  <2>7. UpdateOK(c, d)
    BY <1>2, <2>1, <2>2, <2>4, <2>6 DEF UpdateOK
  <2> QED BY <1>1, <1>2, <2>3, <2>4, <2>6, <2>7, Updater, UpdateStep DEF Installed, Updating
<1> QED BY <1>4, <1>5

LEMMA ReceiveStep ==
  ASSUME IInv, NEW p \in Procs, Receive(p)
  PROVE  StepOK
<1> DEFINE v == V(p)
           n == proc[p].next + 1
           y == Append(disk[v].partial, proc[p].next)
           d == [disk[v] EXCEPT !.partial = y]
           c == [proc[p] EXCEPT !.next = n]
<1>1. /\ proc[p].pc = "stream" /\ proc[p].pc \in Updating /\ proc[p].next <= Chunks
      /\ link' = link /\ stops' = stops /\ last' = last
      /\ proc' = [proc EXCEPT ![p] = c] /\ disk' = [disk EXCEPT ![v] = d]
  BY DEF Receive, At, Updating
<1>2. /\ disk[v].files[COMPILER_BIN] = "absent" /\ proc[p].moving = NoFile /\ v \in Versions
      /\ proc[p].next \in 1 .. Chunks + 1 /\ disk[v].partial \in Seq(1 .. Chunks)
  BY <1>1, Updater DEF UpdateOK
<1>3. n \in 1 .. Chunks + 1 /\ n \in 0 .. Chunks + 1 /\ proc[p].next \in 1 .. Chunks
  BY <1>1, <1>2, BoundsAssumption
<1>4. y \in Seq(1 .. Chunks) /\ y \in Bytes
  BY <1>2, <1>3, AppendProperties DEF Bytes
<1> HIDE DEF n, y
<1>5. d \in Directory /\ d.files = disk[v].files /\ d.partial = y
  BY <1>1, <1>4, Updater DEF Directory
<1>6. c \in Command /\ c.pc = "stream" /\ c.version = v /\ ~c.keep /\ c.moving = NoFile /\ c.next = n
  BY <1>1, <1>2, <1>3, Updater, NextTyped
<1> HIDE DEF c, d
<1>7. UpdateOK(c, d)
  BY <1>2, <1>3, <1>4, <1>5, <1>6 DEF UpdateOK
<1> QED BY <1>1, <1>2, <1>5, <1>6, <1>7, Updater, UpdateStep DEF Installed, Updating

LEMMA FinishDownloadStep ==
  ASSUME IInv, NEW p \in Procs, FinishDownload(p)
  PROVE  StepOK
<1> DEFINE v == V(p)
           d == [disk[v] EXCEPT !.zip = disk[v].partial, !.partial = NoFile]
           c == [proc[p] EXCEPT !.pc = "clear"]
<1>1. /\ proc[p].pc = "stream" /\ proc[p].pc \in Updating
      /\ link' = link /\ stops' = stops /\ last' = last
      /\ proc' = [proc EXCEPT ![p] = c] /\ disk' = [disk EXCEPT ![v] = d]
  BY DEF FinishDownload, Go, At, Updating
<1>2. disk[v].files[COMPILER_BIN] = "absent" /\ proc[p].moving = NoFile /\ v \in Versions
  BY <1>1, Updater DEF UpdateOK
<1>3. d \in Directory /\ d.files = disk[v].files
  BY <1>1, Updater DEF Directory, Bytes
<1>4. "clear" \in Pcs
  BY DEF Pcs, Updating
<1>5. c \in Command /\ c.pc = "clear" /\ c.version = v /\ ~c.keep /\ c.moving = NoFile
  BY <1>1, <1>2, <1>4, Updater, GoTyped
<1> HIDE DEF c, d
<1>6. UpdateOK(c, d)
  BY <1>2, <1>3, <1>5 DEF UpdateOK
<1> QED BY <1>1, <1>2, <1>3, <1>5, <1>6, Updater, UpdateStep DEF Installed, Updating

LEMMA ClearIncomingStep ==
  ASSUME IInv, NEW p \in Procs, ClearIncoming(p)
  PROVE  StepOK
<1> DEFINE v == V(p)
           d == [disk[v] EXCEPT !.incoming = NoFiles]
           c == [proc[p] EXCEPT !.pc = "extract"]
<1>1. /\ proc[p].pc = "clear" /\ proc[p].pc \in Updating
      /\ link' = link /\ stops' = stops /\ last' = last
      /\ proc' = [proc EXCEPT ![p] = c] /\ disk' = [disk EXCEPT ![v] = d]
  BY DEF ClearIncoming, Go, At, Updating
<1>2. disk[v].files[COMPILER_BIN] = "absent" /\ proc[p].moving = NoFile /\ v \in Versions
  BY <1>1, Updater DEF UpdateOK
<1>3. d \in Directory /\ d.files = disk[v].files /\ d.incoming = NoFiles
  BY <1>1, Updater DEF Directory, NoFiles, Presence
<1>4. "extract" \in Pcs
  BY DEF Pcs, Updating
<1>5. c \in Command /\ c.pc = "extract" /\ c.version = v /\ ~c.keep /\ c.moving = NoFile
  BY <1>1, <1>2, <1>4, Updater, GoTyped
<1> HIDE DEF c, d
<1>6. UpdateOK(c, d)
  BY <1>2, <1>3, <1>5 DEF UpdateOK, NoFiles
<1> QED BY <1>1, <1>2, <1>3, <1>5, <1>6, Updater, UpdateStep DEF Installed, Updating

LEMMA ExtractEntryStep ==
  ASSUME IInv, NEW p \in Procs, NEW f \in Files, ExtractEntry(p, f)
  PROVE  StepOK
<1> DEFINE v == V(p)
<1>1. /\ proc[p].pc = "extract" /\ proc[p].pc \in Updating /\ f \in FilesOf(v)
      /\ link' = link /\ stops' = stops /\ last' = last /\ proc' = proc
  BY DEF ExtractEntry, At, Updating
<1>2. /\ disk[v].files[COMPILER_BIN] = "absent" /\ proc[p].moving = NoFile /\ v \in Versions
      /\ \A g \in Files \ FilesOf(v) : disk[v].incoming[g] = "absent"
  BY <1>1, Updater DEF UpdateOK
<1>3. PICK x \in Presence : disk' = [disk EXCEPT ![v].incoming[f] = x]
  BY DEF ExtractEntry, Presence
<1> DEFINE i == [disk[v].incoming EXCEPT ![f] = x]
           d == [disk[v] EXCEPT !.incoming = i]
<1>4. disk' = [disk EXCEPT ![v] = d]
  BY <1>3
<1>5. i \in [Files -> Presence] /\ \A g \in Files \ {f} : i[g] = disk[v].incoming[g]
  BY <1>1, Updater, DirectoryTyped
<1> HIDE DEF i
<1>6. d \in Directory /\ d.files = disk[v].files /\ d.incoming = i
  BY <1>1, <1>5, Updater DEF Directory
<1> HIDE DEF d
<1>7. UpdateOK(proc[p], d)
  BY <1>1, <1>2, <1>5, <1>6, Updater DEF UpdateOK, V
<1> DEFINE c == proc[p]
<1>8. proc' = [proc EXCEPT ![p] = c] /\ c \in Command /\ c.pc \in Updating /\ c.version = v
      /\ ~c.keep /\ UpdateOK(c, d)
  BY <1>1, <1>7, Updater DEF IInv, TypeOK
<1>9. proc[p].pc \in Updating /\ link' = link /\ stops' = stops /\ last' = last
  BY <1>1
<1>10. disk[v].files[COMPILER_BIN] = "absent" /\ v \in Versions
  BY <1>2
<1> HIDE DEF c
<1> QED BY <1>4, <1>6, <1>8, <1>9, <1>10, Updater, UpdateStep DEF Installed

LEMMA ExtractionDoneStep ==
  ASSUME IInv, NEW p \in Procs, ExtractionDone(p)
  PROVE  StepOK
<1> DEFINE v == V(p)
           c == [proc[p] EXCEPT !.pc = "place"]
<1>1. /\ proc[p].pc = "extract" /\ proc[p].pc \in Updating
      /\ link' = link /\ stops' = stops /\ last' = last /\ disk' = disk
      /\ proc' = [proc EXCEPT ![p] = c]
      /\ \A f \in FilesOf(v) : disk[v].incoming[f] = "full"
  BY DEF ExtractionDone, Go, At, Updating
<1>2. /\ disk[v].files[COMPILER_BIN] = "absent" /\ proc[p].moving = NoFile /\ v \in Versions
      /\ \A g \in Files \ FilesOf(v) : disk[v].incoming[g] = "absent"
  BY <1>1, Updater DEF UpdateOK
<1>3. "place" \in Pcs
  BY DEF Pcs, Updating
<1>4. c \in Command /\ c.pc = "place" /\ c.version = v /\ ~c.keep /\ c.moving = NoFile
  BY <1>1, <1>2, <1>3, Updater, GoTyped
<1> HIDE DEF c
<1>5. Placing(c, disk[v])
  BY <1>1, <1>2, <1>4, NamesAssumption DEF Placing
<1>6. UpdateOK(c, disk[v])
  BY <1>2, <1>4, <1>5 DEF UpdateOK
<1> QED BY <1>1, <1>2, <1>4, <1>6, Updater, UpdateStep, ZenonT(60) DEF Installed, Updating

LEMMA ArchiveCorruptStep ==
  ASSUME IInv, NEW p \in Procs, ArchiveCorrupt(p)
  PROVE  StepOK
<1> DEFINE v == V(p)
<1>1. /\ proc[p].pc = "extract" /\ proc[p].pc \in Updating
      /\ link' = link /\ stops' = stops
  BY DEF ArchiveCorrupt, At, Updating
<1>2. disk[v].files[COMPILER_BIN] = "absent" /\ proc[p].moving = NoFile /\ v \in Versions
  BY <1>1, Updater DEF UpdateOK
<1>3. CASE proc[p].retried
  <2>1. End(p, "failed") /\ disk' = disk
    BY <1>3 DEF ArchiveCorrupt
  <2> QED BY <1>1, <1>2, <2>1, Updater, EndShape, UpdateStep DEF Installed, IInv
<1>4. CASE ~proc[p].retried
  <2> DEFINE d == [disk[v] EXCEPT !.zip = NoFile]
             c == [proc[p] EXCEPT !.pc = "request", !.retried = TRUE]
  <2>1. proc' = [proc EXCEPT ![p] = c] /\ last' = last /\ disk' = [disk EXCEPT ![v] = d]
    BY <1>4 DEF ArchiveCorrupt
  <2>2. d \in Directory /\ d.files = disk[v].files
    BY <1>1, Updater DEF Directory, Bytes
  <2>3. "request" \in Pcs
    BY DEF Pcs, Updating
  <2>4. c \in Command /\ c.pc = "request" /\ c.version = v /\ ~c.keep /\ c.moving = NoFile
    <3>1. proc[p] \in Command /\ proc[p].version = v /\ ~proc[p].keep
      BY <1>1, Updater
    <3> HIDE DEF v
    <3> QED BY <1>2, <2>3, <3>1, GoRetriedTyped
  <2> HIDE DEF c, d
  <2>5. UpdateOK(c, d)
    BY <1>2, <2>2, <2>4 DEF UpdateOK
  <2> QED BY <1>1, <1>2, <2>1, <2>2, <2>4, <2>5, Updater, UpdateStep DEF Installed, Updating
<1> QED BY <1>3, <1>4

LEMMA DiscardPreviousStep ==
  ASSUME IInv, NEW p \in Procs, NEW f \in Files, DiscardPrevious(p, f)
  PROVE  StepOK
<1> DEFINE v == V(p)
           g == [disk[v].files EXCEPT ![f] = "absent"]
           d == [disk[v] EXCEPT !.files = g]
           c == [proc[p] EXCEPT !.moving = f]
<1>1. /\ proc[p].pc = "place" /\ proc[p].pc \in Updating
      /\ link' = link /\ stops' = stops /\ last' = last
      /\ proc' = [proc EXCEPT ![p] = c] /\ disk' = [disk EXCEPT ![v] = d]
      /\ disk[v].incoming[f] = "full"
      /\ f = COMPILER_BIN => \A h \in Files \ {f} : disk[v].incoming[h] = "absent"
  BY DEF DiscardPrevious, At, Updating
<1>2. /\ v \in Versions /\ Placing(proc[p], disk[v])
      /\ \A h \in Files \ FilesOf(v) : disk[v].incoming[h] = "absent"
  BY <1>1, Updater DEF UpdateOK
<1>3. disk[v].files[COMPILER_BIN] = "absent"
  BY <1>1, <1>2 DEF Placing
<1>4. g \in [Files -> Presence] /\ \A h \in Files : g[h] = IF h = f THEN "absent" ELSE disk[v].files[h]
  BY <1>1, Updater, DirectoryTyped DEF Presence
<1> HIDE DEF g
<1>5. d \in Directory /\ d.files = g /\ d.incoming = disk[v].incoming
  BY <1>1, <1>4, Updater DEF Directory
<1>6. c \in Command /\ c.pc = "place" /\ c.version = v /\ ~c.keep /\ c.moving = f
  BY <1>1, Updater, MovingTyped
<1> HIDE DEF c, d
<1>7. g[COMPILER_BIN] = "absent"
  BY <1>3, <1>4, NamesAssumption
<1>8. \A h \in FilesOf(v) : d.incoming[h] = "full" \/ d.files[h] = "full"
  <2>1. FilesOf(v) \subseteq Files
    BY <1>2, NamesAssumption, ShipsAssumption DEF FilesOf
  <2> QED BY <1>1, <1>2, <1>4, <1>5, <2>1, Updater DEF Placing
<1>9. UpdateOK(c, d)
  BY <1>1, <1>2, <1>5, <1>6, <1>7, <1>8 DEF UpdateOK, Placing
<1> QED BY <1>1, <1>2, <1>3, <1>5, <1>6, <1>7, <1>9, Updater, UpdateStep DEF Installed

LEMMA MoveIntoStep ==
  ASSUME IInv, NEW p \in Procs, MoveInto(p)
  PROVE  StepOK
<1> DEFINE v == V(p)
           f == proc[p].moving
           g == [disk[v].files EXCEPT ![f] = disk[v].incoming[f]]
           i == [disk[v].incoming EXCEPT ![f] = "absent"]
           d == [disk[v] EXCEPT !.files = g, !.incoming = i]
           c == [proc[p] EXCEPT !.moving = NoFile]
<1>1. /\ proc[p].pc = "place" /\ proc[p].pc \in Updating /\ f # NoFile
      /\ link' = link /\ stops' = stops /\ last' = last
      /\ proc' = [proc EXCEPT ![p] = c] /\ disk' = [disk EXCEPT ![v] = d]
  BY DEF MoveInto, At, Updating
<1>2. /\ v \in Versions /\ Placing(proc[p], disk[v]) /\ f \in Files
      /\ \A h \in Files \ FilesOf(v) : disk[v].incoming[h] = "absent"
  BY <1>1, Updater, CommandTyped DEF UpdateOK
<1>3. disk[v].incoming[f] = "full" /\ disk[v].files[COMPILER_BIN] = "absent"
  BY <1>1, <1>2 DEF Placing
<1>4. /\ g \in [Files -> Presence] /\ i \in [Files -> Presence]
      /\ \A h \in Files : /\ g[h] = IF h = f THEN "full" ELSE disk[v].files[h]
                          /\ i[h] = IF h = f THEN "absent" ELSE disk[v].incoming[h]
  BY <1>1, <1>2, <1>3, Updater, DirectoryTyped DEF Presence
<1>5. disk[v] \in Directory /\ proc[p] \in Command /\ proc[p].version = v /\ ~proc[p].keep
  BY <1>1, Updater
<1> HIDE DEF g, i
<1>6. d \in Directory /\ d.files = g /\ d.incoming = i
  BY <1>4, <1>5 DEF Directory
<1>7. c \in Command /\ c.pc = "place" /\ c.version = v /\ ~c.keep /\ c.moving = NoFile
  BY <1>1, <1>5, MovingTyped
<1>8. FilesOf(v) \subseteq Files /\ COMPILER_BIN \in Files /\ COMPILER_BIN # NoFile
  BY <1>2, NamesAssumption, ShipsAssumption DEF FilesOf
<1>9. g[COMPILER_BIN] # "absent" => \A h \in Files : i[h] = "absent"
  BY <1>2, <1>3, <1>4, <1>8 DEF Placing
<1>10. \A h \in FilesOf(v) : i[h] = "full" \/ g[h] = "full"
  BY <1>1, <1>2, <1>4, <1>8, Updater DEF Placing
<1>11. \A h \in Files : i[h] # "half"
  BY <1>2, <1>4 DEF Placing
<1>12. \A h \in Files \ FilesOf(v) : i[h] = "absent"
  BY <1>2, <1>4
<1> HIDE DEF c, d, f
<1>13. Placing(c, d)
  BY <1>6, <1>7, <1>8, <1>9, <1>10, <1>11 DEF Placing
<1>14. UpdateOK(c, d)
  BY <1>2, <1>6, <1>7, <1>12, <1>13 DEF UpdateOK
<1>15. g[COMPILER_BIN] # "absent" => \A h \in FilesOf(v) : g[h] = "full"
  BY <1>8, <1>9, <1>10
<1> QED BY <1>1, <1>2, <1>3, <1>6, <1>7, <1>14, <1>15, Updater, UpdateStep DEF Installed

LEMMA InstallDoneStep ==
  ASSUME IInv, NEW p \in Procs, InstallDone(p)
  PROVE  StepOK
<1> DEFINE v == V(p)
<1>1. /\ proc[p].pc = "place" /\ proc[p].pc \in Updating
      /\ AfterInstall(p, proc[p].setDefault, v)
      /\ link' = link /\ stops' = stops /\ disk' = disk
  BY DEF InstallDone, At, Updating
<1>2. proc[p].setDefault \in BOOLEAN /\ v \in Versions /\ last \in Report
  BY <1>1, Updater, CommandTyped
<1>3. AfterInstall(p, proc[p].setDefault, v)
  BY <1>1
<1>4. PICK c \in Command : /\ proc' = [proc EXCEPT ![p] = c]
                           /\ \/ c = Idle
                              \/ /\ c.pc = "find" /\ c.version = v /\ ~c.keep
                                 /\ \A e : e.files[COMPILER_BIN] # "absent" => UpdateOK(c, e)
  BY <1>2, <1>3, AfterInstallShape
<1>5. last' \in Report
  BY <1>2, <1>3, AfterInstallShape
<1>6. proc[p].pc \in Updating /\ link' = link /\ stops' = stops /\ disk' = disk
  BY <1>1
<1>7. disk[v].files[COMPILER_BIN] # "absent"
  BY <1>1, <1>2, Updater, NamesAssumption DEF InstallDone, NoFiles, UpdateOK, Placing, FilesOf
<1>8. c = Idle \/ (c.pc \in Updating /\ c.version = v /\ ~c.keep /\ UpdateOK(c, disk[v]))
  BY <1>4, <1>7 DEF Updating
<1>9. proc' = [proc EXCEPT ![p] = c] /\ c \in Command
  BY <1>4
<1> QED BY <1>5, <1>6, <1>8, <1>9, Updater, UpdateStep DEF Installed

LEMMA FindPreviousStep ==
  ASSUME IInv, NEW p \in Procs, FindPrevious(p)
  PROVE  StepOK
<1> DEFINE v == V(p)
<1>1. /\ proc[p].pc = "find" /\ proc[p].pc \in Updating
      /\ stops' = stops /\ disk' = disk /\ link' = link
  BY DEF FindPrevious, At, Updating
<1>2. CASE proc[p].tool = 0 /\ ~Installed(v)
  <2>1. End(p, "failed")
    BY <1>2 DEF FindPrevious
  <2> QED BY <1>1, <2>1, Updater, EndShape, UpdateStep DEF Installed, IInv
<1>3. CASE ~(proc[p].tool = 0 /\ ~Installed(v))
  <2> DEFINE x == IF link[LinkAt(p)] = NoVersion THEN "link" ELSE "unlink"
             c == [proc[p] EXCEPT !.pc = x]
  <2>1. proc' = [proc EXCEPT ![p] = c] /\ last' = last
    BY <1>3 DEF FindPrevious, Go
  <2>2. /\ x \in Pcs /\ x \in {"link", "unlink"}
        /\ proc[p].moving = NoFile /\ v \in Versions
        /\ disk[v].files[COMPILER_BIN] # "absent"
    BY <1>1, Updater DEF Pcs, Updating, UpdateOK
  <2> HIDE DEF x
  <2>3. c \in Command /\ c.pc = x /\ c.version = v /\ ~c.keep /\ c.moving = NoFile
    BY <1>1, <2>2, Updater, GoTyped
  <2> HIDE DEF c
  <2>4. UpdateOK(c, disk[v]) /\ c.pc \in Updating
    BY <2>2, <2>3 DEF UpdateOK, Updating
  <2> HIDE DEF v
  <2>5. /\ v \in Versions /\ V(p) = v /\ disk[v] \in Directory
        /\ disk' = [disk EXCEPT ![v] = disk[v]]
        /\ link' \in [Links -> Versions \cup {NoVersion}]
        /\ last' \in Report /\ stops' \in 0 .. MaxStops
    BY <1>1, <2>1, Updater DEF v
  <2>6. Installed(v) => CleanStops \/ \A f \in FilesOf(v) : disk[v].files[f] = "full"
    BY <1>1, Updater DEF v
  <2> QED BY <1>1, <2>1, <2>2, <2>3, <2>4, <2>5, <2>6, UpdateStep DEF Installed
<1> QED BY <1>2, <1>3

LEMMA UnlinkStep ==
  ASSUME IInv, NEW p \in Procs, Unlink(p)
  PROVE  StepOK
<1> DEFINE v == V(p)
<1>1. proc[p].pc = "unlink" /\ proc[p].pc \in Updating /\ stops' = stops /\ disk' = disk
  BY DEF Unlink, At, Updating
<1>2. CASE link[LinkAt(p)] = NoVersion
  <2>1. End(p, "failed") /\ link' = link
    BY <1>2 DEF Unlink
  <2> QED BY <1>1, <2>1, Updater, EndShape, UpdateStep DEF Installed, IInv
<1>3. CASE link[LinkAt(p)] # NoVersion
  <2> DEFINE c == [proc[p] EXCEPT !.pc = "link"]
  <2>1. /\ link' = [link EXCEPT ![LinkAt(p)] = NoVersion] /\ last' = last
        /\ proc' = [proc EXCEPT ![p] = c]
    BY <1>3 DEF Unlink, Go
  <2>2. /\ "link" \in Pcs /\ proc[p].moving = NoFile /\ v \in Versions
        /\ disk[v].files[COMPILER_BIN] # "absent"
    BY <1>1, Updater DEF Pcs, Updating, UpdateOK
  <2>3. c \in Command /\ c.pc = "link" /\ c.version = v /\ ~c.keep /\ c.moving = NoFile
    BY <1>1, <2>2, Updater, GoTyped
  <2> HIDE DEF c
  <2>4. UpdateOK(c, disk[v])
    BY <2>2, <2>3 DEF UpdateOK
  <2>5. link' \in [Links -> Versions \cup {NoVersion}]
    BY <1>1, <2>1, Updater
  <2>6. link'[COMPILER_BIN] = link[COMPILER_BIN] \/ link'[COMPILER_BIN] = NoVersion
    BY <1>1, <2>1, Updater
  <2> QED BY <1>1, <2>1, <2>2, <2>3, <2>4, <2>5, <2>6, Updater, UpdateStep, ZenonT(60) DEF Installed, Updating
<1> QED BY <1>2, <1>3

LEMMA RelinkStep ==
  ASSUME IInv, NEW p \in Procs, Relink(p)
  PROVE  StepOK
<1> DEFINE v == V(p)
           l == LinkAt(p)
           ships == disk[v].files[l] # "absent"
<1>1. proc[p].pc = "link" /\ proc[p].pc \in Updating /\ stops' = stops /\ disk' = disk
  BY DEF Relink, At, Updating
<1>2. CASE ships /\ link[l] # NoVersion
  <2>1. End(p, "failed") /\ link' = link
    BY <1>2 DEF Relink
  <2> QED BY <1>1, <2>1, Updater, EndShape, UpdateStep DEF Installed, IInv
<1>3. CASE ~(ships /\ link[l] # NoVersion)
  <2> DEFINE t == IF proc[p].tool < Len(Tools) THEN proc[p].tool + 1 ELSE proc[p].tool
             x == IF proc[p].tool < Len(Tools) THEN "find" ELSE "validate"
             c == [proc[p] EXCEPT !.tool = t, !.pc = x]
  <2>1. /\ link' = [link EXCEPT ![l] = IF ships THEN v ELSE link[l]] /\ last' = last
        /\ proc' = [proc EXCEPT ![p] = c]
    BY <1>3 DEF Relink
  <2>2. /\ proc[p].moving = NoFile /\ v \in Versions /\ x \in {"find", "validate"}
        /\ disk[v].files[COMPILER_BIN] # "absent"
    BY <1>1, Updater DEF UpdateOK
  <2>3. t \in 0 .. Len(Tools)
    BY <1>1, Updater, CommandTyped, ToolsTyped
  <2>4. x \in Pcs
    BY DEF Pcs, Updating
  <2> HIDE DEF t, x
  <2>5. c \in Command /\ c.pc = x /\ c.version = v /\ ~c.keep /\ c.moving = NoFile
    <3>1. proc[p] \in Command /\ proc[p].version = v /\ ~proc[p].keep
      BY <1>1, Updater
    <3> HIDE DEF v
    <3>2. PICK N, T :
            N = 0 .. Chunks + 1 /\ T = 0 .. Len(Tools) /\ Command = CommandOver(N, T)
      BY CommandFields
    <3>3. t \in T
      BY <2>3, <3>2
    <3> QED BY <2>2, <2>4, <3>1, <3>2, <3>3 DEF CommandOver
  <2> HIDE DEF c
  <2>6. UpdateOK(c, disk[v])
    BY <2>2, <2>5 DEF UpdateOK
  <2>7. l \in Links /\ link[l] \in Versions \cup {NoVersion}
    BY <1>1, LinkAtTyped, Updater DEF IInv
  <2>8. link' \in [Links -> Versions \cup {NoVersion}]
    BY <1>1, <2>1, <2>2, <2>7, Updater
  <2>9. link'[COMPILER_BIN] = link[COMPILER_BIN] \/ (Installed(v) /\ link'[COMPILER_BIN] = v)
    BY <1>1, <2>1, <2>7, Updater DEF Installed
  <2>10. proc' = [proc EXCEPT ![p] = c] /\ last' = last
    BY <2>1
  <2> QED BY <1>1, <2>2, <2>5, <2>6, <2>8, <2>9, <2>10, Updater, UpdateStep, ZenonT(60) DEF Installed, Updating
<1> QED BY <1>2, <1>3

LEMMA ValidateStep ==
  ASSUME IInv, NEW p \in Procs, Validate(p)
  PROVE  StepOK
<1>1. /\ proc[p].pc = "validate" /\ proc[p].pc \in Updating
      /\ stops' = stops /\ disk' = disk /\ link' = link
  BY DEF Validate, At, Updating
<1>2. PICK what \in {"default", "failed"} : End(p, what)
  BY DEF Validate
<1> QED BY <1>1, <1>2, Updater, EndShape, UpdateStep DEF Installed, IInv

LEMMA StopUpdateStep ==
  ASSUME IInv, NEW p \in Procs, proc[p].pc \in Updating, Stop(p)
  PROVE  StepOK
<1>1. disk' = disk /\ link' = link /\ End(p, "stopped") /\ stops' \in 0 .. MaxStops
  BY BoundsAssumption DEF Stop, IInv, TypeOK
<1> QED BY <1>1, Updater, EndShape, UpdateStep DEF Installed, IInv

(* An idle command becomes an update of a version no other one has.         *)
LEMMA StartUpdateStep ==
  ASSUME IInv, NEW p \in Procs, NEW v \in Versions, NEW exact \in BOOLEAN,
         NEW setDefault \in BOOLEAN, StartUpdate(p, v, exact, setDefault)
  PROVE  StepOK
<1>1. /\ TypeOK /\ Separate /\ \A q \in Procs : CommandOK(q)
      /\ DefaultIsInstalled /\ (CleanStops \/ InstalledIsComplete)
  BY DEF IInv
<1>2. /\ disk' = disk /\ link' = link /\ stops' = stops /\ proc[p].pc = "idle"
      /\ \A q \in Procs : proc[q].pc \notin Cleaning
      /\ \A q \in Procs \ {p} : V(q) # v
  BY DEF StartUpdate, At, Cleaning
<1>3. last \in Report
  BY <1>1 DEF TypeOK
<1>4. /\ last' \in Report
      /\ \E c \in Command : /\ proc' = [proc EXCEPT ![p] = c]
                            /\ \/ c = Idle
                               \/ c.pc \in Updating /\ c.version = v /\ ~c.keep /\ UpdateOK(c, disk[v])
  <2>1. CASE exact /\ Installed(v)
    <3>1. AfterInstall(p, setDefault, v)
      BY <2>1 DEF StartUpdate
    <3> QED BY <1>3, <2>1, <3>1, AfterInstallShape DEF Updating, Installed
  <2>2. CASE ~(exact /\ Installed(v))
    <3> DEFINE c == [Idle EXCEPT !.pc = "load", !.version = v, !.setDefault = setDefault]
    <3>1. proc' = [proc EXCEPT ![p] = c] /\ last' = last
      BY <2>2 DEF StartUpdate
    <3>2. c \in Command
      BY IdleTyped, ToolsTyped, BoundsAssumption DEF Command, Idle
    <3>3. c.pc = "load" /\ c.version = v /\ ~c.keep /\ c.moving = NoFile
      BY DEF Idle
    <3> HIDE DEF c
    <3>4. UpdateOK(c, disk[v])
      BY <3>3 DEF UpdateOK
    <3> QED BY <1>3, <3>1, <3>2, <3>3, <3>4 DEF Updating
  <2> QED BY <2>1, <2>2
<1>5. PICK c \in Command : /\ proc' = [proc EXCEPT ![p] = c]
                           /\ \/ c = Idle
                              \/ c.pc \in Updating /\ c.version = v /\ ~c.keep /\ UpdateOK(c, disk[v])
  BY <1>4
<1>6. proc'[p] = c /\ \A q \in Procs : q # p => proc'[q] = proc[q]
  BY <1>1, <1>5 DEF TypeOK
<1>7. TypeOK'
  BY <1>1, <1>2, <1>4, <1>5 DEF TypeOK
<1>8. ASSUME NEW q \in Procs PROVE CommandOK(q)'
  <2>1. CASE q = p
    <3>1. CASE c = Idle
      BY <1>6, <2>1, <3>1 DEF CommandOK, At, Idle, Updating, Cleaning
    <3>2. CASE c.pc \in Updating /\ c.version = v /\ ~c.keep /\ UpdateOK(c, disk[v])
      BY <1>2, <1>6, <2>1, <3>2 DEF CommandOK, At, V, Updating, Cleaning
    <3> QED BY <1>5, <3>1, <3>2
  <2>2. CASE q # p
    BY <1>1, <1>2, <1>6, <2>2 DEF CommandOK, At, V
  <2> QED BY <2>1, <2>2
<1>9. Separate'
  <2>1. ASSUME NEW q \in Procs, NEW r \in Procs, q # r, proc'[q].pc \in Updating
        PROVE  proc'[q].version # proc'[r].version
    <3>1. CASE q # p /\ r # p
      BY <1>1, <1>6, <2>1, <3>1 DEF Separate, V
    <3>2. CASE q = p
      <4>1. c.version = v
        BY <1>5, <1>6, <2>1, <3>2 DEF Idle, Updating
      <4> QED BY <1>2, <1>6, <2>1, <3>2, <4>1 DEF V
    <3>3. CASE r = p
      <4>1. proc[q].version \in Versions /\ proc[q].version # v
        BY <1>1, <1>2, <1>6, <2>1, <3>3 DEF CommandOK, UpdateOK, V
      <4>2. c.version = v \/ c.version = NoVersion
        BY <1>5 DEF Idle
      <4> QED BY <1>6, <2>1, <3>3, <4>1, <4>2, NamesAssumption
    <3> QED BY <3>1, <3>2, <3>3
  <2>2. \A q \in Procs : proc'[q].pc \notin Cleaning
    BY <1>2, <1>5, <1>6 DEF Idle, Updating, Cleaning
  <2> QED BY <2>1, <2>2 DEF Separate, V
<1>10. DefaultIsInstalled' /\ (CleanStops \/ InstalledIsComplete')
  <2>1. DefaultIsInstalled'
    BY <1>1, <1>2 DEF DefaultIsInstalled, Installed
  <2>2. CleanStops \/ InstalledIsComplete'
    BY <1>1, <1>2 DEF InstalledIsComplete, Installed, Complete
  <2> QED BY <2>1, <2>2
<1>11. [Store!Next]_(Store!vars)
  BY <1>2 DEF Store!vars, Installed
<1>12. KeepsCurrent
  <2>1. \A q \in Procs : ~proc[q].keep
    BY <1>1, <1>2, CommandTyped DEF CommandOK, At, Idle, TypeOK, Pcs
  <2> QED BY <2>1 DEF KeepsCurrent
<1> QED BY <1>7, <1>8, <1>9, <1>10, <1>11, <1>12 DEF StepOK, IInv

-----------------------------------------------------------------------------
(* Steps of a clean                                                         *)

(* A clean runs alone, so a step of it need only be right about its own     *)
(* command c, the default, and the versions it takes away.                  *)
LEMMA CleanStep ==
  ASSUME IInv, NEW p \in Procs, proc[p].pc \in Cleaning \/ proc[p].pc = "idle",
         \A q \in Procs \ {p} : At(q, "idle"),
         NEW c \in Command, proc' = [proc EXCEPT ![p] = c],
         NEW default \in Versions \cup {NoVersion}, link'[COMPILER_BIN] = default,
         link' \in [Links -> Versions \cup {NoVersion}],
         disk' \in [Versions -> Directory], last' \in Report, stops' \in 0 .. MaxStops,
         c = Idle \/ (c.pc \in Cleaning /\ CleanOK(c, default)),
         default \in {link[COMPILER_BIN], NoVersion},
         \A w \in Versions : disk'[w].files # disk[w].files =>
           /\ w # link[COMPILER_BIN] /\ default = link[COMPILER_BIN]
           /\ CleanStops \/ ~Installed(w)'
           /\ Installed(w)' => Installed(w)
           /\ \A u \in Versions \ {w} : disk'[u] = disk[u],
         proc[p].keep => default = link[COMPILER_BIN]
  PROVE  StepOK
<1>1. /\ TypeOK /\ Separate /\ \A q \in Procs : CommandOK(q)
      /\ DefaultIsInstalled /\ (CleanStops \/ InstalledIsComplete)
  BY DEF IInv
<1>2. proc'[p] = c /\ \A q \in Procs : q # p => proc'[q] = proc[q]
  BY <1>1 DEF TypeOK
<1>3. TypeOK'
  BY <1>1 DEF TypeOK
<1>4. ASSUME NEW q \in Procs PROVE CommandOK(q)'
  <2>1. CASE q = p
    <3>1. CASE c = Idle
      BY <1>2, <2>1, <3>1 DEF CommandOK, At, Idle, Updating, Cleaning
    <3>2. CASE c.pc \in Cleaning /\ CleanOK(c, default)
      BY <1>2, <2>1, <3>2 DEF CommandOK, At, Updating, Cleaning
    <3> QED BY <3>1, <3>2
  <2>2. CASE q # p
    BY <1>1, <1>2, <2>2 DEF CommandOK, At, Idle, Updating, Cleaning
  <2> QED BY <2>1, <2>2
<1>5. Separate'
  BY <1>2 DEF Separate, At, Idle, Updating, Cleaning
<1>6. link[COMPILER_BIN] \in Versions \cup {NoVersion}
  BY <1>1, ToolsTyped DEF TypeOK
<1>7. DefaultIsInstalled'
  <2>1. default # NoVersion => disk'[default].files = disk[default].files
    BY <1>6
  <2>2. default # NoVersion => disk[default].files[COMPILER_BIN] # "absent"
    BY <1>1 DEF DefaultIsInstalled, Installed
  <2> QED BY <2>1, <2>2 DEF DefaultIsInstalled, Installed
<1>8. CleanStops \/ InstalledIsComplete'
  BY <1>1 DEF InstalledIsComplete, Installed, Complete
<1>9. [Store!Next]_(Store!vars)
  <2>1. CASE \A w \in Versions : disk'[w].files = disk[w].files
    BY <2>1 DEF Store!vars, Store!Next, Store!NoDefault, Installed
  <2>2. CASE \E w \in Versions : disk'[w].files # disk[w].files
    <3>1. PICK w \in Versions : disk'[w].files # disk[w].files
      BY <2>2
    <3> DEFINE old == {u \in Versions : Installed(u)}
               new == {u \in Versions : disk'[u].files[COMPILER_BIN] # "absent"}
    <3>2. new = old \/ new = old \ {w}
      BY <3>1 DEF Installed
    <3> QED BY <3>1, <3>2 DEF Store!vars, Store!Next, Store!Remove, Installed
  <2> QED BY <2>1, <2>2
<1>10. KeepsCurrent
  <2> SUFFICES ASSUME NEW q \in Procs, proc[q].keep, V(q) # NoVersion
               PROVE  default = V(q) /\ disk'[V(q)].files = disk[V(q)].files
    BY DEF KeepsCurrent
  <2>1. q = p /\ proc[p].pc \in Cleaning
    BY <1>1 DEF CommandOK, At, Idle, Cleaning
  <2>2. link[COMPILER_BIN] = V(p)
    BY <1>1, <2>1 DEF CommandOK, CleanOK, V, Cleaning
  <2> QED BY <1>6, <2>1, <2>2
<1> QED BY <1>3, <1>4, <1>5, <1>7, <1>8, <1>9, <1>10 DEF StepOK, IInv

LEMMA Cleaner ==
  ASSUME IInv, NEW p \in Procs, proc[p].pc \in Cleaning
  PROVE  /\ \A q \in Procs \ {p} : At(q, "idle")
         /\ proc[p] \in Command /\ CleanOK(proc[p], link[COMPILER_BIN])
         /\ link[COMPILER_BIN] \in Versions \cup {NoVersion}
         /\ link \in [Links -> Versions \cup {NoVersion}]
         /\ disk \in [Versions -> Directory] /\ last \in Report /\ stops \in 0 .. MaxStops
BY ToolsTyped DEF IInv, TypeOK, Separate, CommandOK

LEMMA StartCleanStep ==
  ASSUME IInv, NEW p \in Procs, NEW keep \in BOOLEAN, StartClean(p, keep)
  PROVE  StepOK
<1> DEFINE x == IF keep THEN "list" ELSE "removeLinks"
           default == link[COMPILER_BIN]
           c == [Idle EXCEPT !.keep = keep, !.pc = x, !.version = default]
<1>1. /\ \A q \in Procs : At(q, "idle")
      /\ disk' = disk /\ link' = link /\ last' = last /\ stops' = stops
      /\ proc' = [proc EXCEPT ![p] = c]
  BY DEF StartClean
<1>2. TypeOK /\ default \in Versions \cup {NoVersion} /\ proc[p] = Idle
  BY <1>1, ToolsTyped DEF IInv, TypeOK, CommandOK
<1>3. c \in Command
  BY <1>2, IdleTyped, ToolsTyped, BoundsAssumption DEF Command, Idle
<1>4. c.pc = x /\ c.keep = keep /\ c.version = default /\ c.tool = 0
  BY DEF Idle
<1> HIDE DEF c
<1>5. c.pc \in Cleaning /\ CleanOK(c, default)
  BY <1>4 DEF Cleaning, CleanOK
<1>6. ~proc[p].keep /\ proc[p].pc = "idle"
  BY <1>1, <1>2 DEF Idle
<1> QED BY <1>1, <1>2, <1>3, <1>5, <1>6, CleanStep DEF TypeOK

LEMMA RemoveLinkStep ==
  ASSUME IInv, NEW p \in Procs, RemoveLink(p)
  PROVE  StepOK
<1> DEFINE l == LinkAt(p)
           exists == link[l] # NoVersion /\ disk[link[l]].files[l] # "absent"
           r == IF exists THEN NoVersion ELSE link[l]
           t == IF proc[p].tool < Len(Tools) THEN proc[p].tool + 1 ELSE proc[p].tool
           x == IF proc[p].tool < Len(Tools) THEN proc[p].pc ELSE "list"
           c == [proc[p] EXCEPT !.tool = t, !.pc = x]
           default == link'[COMPILER_BIN]
<1>1. /\ proc[p].pc = "removeLinks" /\ proc[p].pc \in Cleaning
      /\ disk' = disk /\ last' = last /\ stops' = stops
      /\ proc' = [proc EXCEPT ![p] = c]
      /\ link' = [link EXCEPT ![l] = r]
  BY DEF RemoveLink, At, Cleaning
<1>2. l \in Links /\ (l = COMPILER_BIN <=> proc[p].tool = 0) /\ DefaultIsInstalled
  BY LinkAtTyped DEF IInv
<1>3. /\ proc[p] \in Command /\ ~proc[p].keep
      /\ proc[p].tool # 0 => link[COMPILER_BIN] = NoVersion
      /\ link[l] \in Versions \cup {NoVersion} /\ link[COMPILER_BIN] \in Versions \cup {NoVersion}
      /\ link \in [Links -> Versions \cup {NoVersion}]
  BY <1>1, <1>2, Cleaner DEF CleanOK
<1>4. link'[COMPILER_BIN] = NoVersion
  <2>1. CASE proc[p].tool = 0
    BY <1>1, <1>2, <1>3, <2>1 DEF DefaultIsInstalled, Installed
  <2>2. CASE proc[p].tool # 0
    BY <1>1, <1>2, <1>3, <2>2, ToolsTyped
  <2> QED BY <2>1, <2>2
<1>5. link' \in [Links -> Versions \cup {NoVersion}]
  BY <1>1, <1>2, <1>3
<1>6. t \in 0 .. Len(Tools) /\ x \in Pcs /\ x \in {"removeLinks", "list"}
  BY <1>1, <1>3, CommandTyped, ToolsTyped DEF Pcs, Cleaning
<1> HIDE DEF t, x
<1>7. c \in Command /\ c.pc = x /\ ~c.keep
  <2>1. PICK N, T :
          N = 0 .. Chunks + 1 /\ T = 0 .. Len(Tools) /\ Command = CommandOver(N, T)
    BY CommandFields
  <2>2. t \in T
    BY <1>6, <2>1
  <2> QED BY <1>3, <1>6, <2>1, <2>2 DEF CommandOver
<1> HIDE DEF c
<1>8. c.pc \in Cleaning /\ CleanOK(c, NoVersion)
  BY <1>6, <1>7 DEF Cleaning, CleanOK
<1>9. /\ proc[p].pc \in Cleaning /\ disk' = disk /\ last' = last /\ stops' = stops
      /\ proc' = [proc EXCEPT ![p] = c]
  BY <1>1
<1> QED BY <1>3, <1>4, <1>5, <1>7, <1>8, <1>9, Cleaner, CleanStep

LEMMA ListVersionsStep ==
  ASSUME IInv, NEW p \in Procs, ListVersions(p)
  PROVE  StepOK
<1> DEFINE kept == IF ~proc[p].keep THEN {}
                   ELSE IF V(p) = NoVersion THEN Versions ELSE Containing[V(p)]
           w == {v \in Versions \ kept : disk[v].exists}
           c == [proc[p] EXCEPT !.pc = "wipe", !.wiping = w]
           default == link[COMPILER_BIN]
<1>1. /\ proc[p].pc = "list" /\ proc[p].pc \in Cleaning
      /\ disk' = disk /\ link' = link /\ last' = last /\ stops' = stops
      /\ proc' = [proc EXCEPT ![p] = c]
  BY DEF ListVersions, At, Cleaning
<1>2. /\ proc[p] \in Command /\ default \in Versions \cup {NoVersion}
      /\ default = IF proc[p].keep THEN V(p) ELSE NoVersion
  BY <1>1, Cleaner DEF CleanOK, V
<1>3. default \notin w /\ w \in SUBSET Versions
  BY <1>2, NamesAssumption
<1>4. "wipe" \in Pcs
  BY DEF Pcs, Cleaning
<1> HIDE DEF w
<1>5. c \in Command /\ c.pc = "wipe" /\ c.keep = proc[p].keep /\ c.version = V(p) /\ c.wiping = w
  <2>1. PICK N, T :
          N = 0 .. Chunks + 1 /\ T = 0 .. Len(Tools) /\ Command = CommandOver(N, T)
    BY CommandFields
  <2> QED BY <1>2, <1>3, <1>4, <2>1 DEF CommandOver, V
<1> HIDE DEF c
<1>6. c.pc \in Cleaning /\ CleanOK(c, default)
  BY <1>2, <1>3, <1>5 DEF Cleaning, CleanOK
<1> QED BY <1>1, <1>2, <1>5, <1>6, Cleaner, CleanStep

LEMMA WipeVersionStep ==
  ASSUME IInv, NEW p \in Procs, WipeVersion(p)
  PROVE  StepOK
<1>1. /\ proc[p].pc = "wipe" /\ proc[p].pc \in Cleaning
      /\ link' = link /\ last' = last /\ stops' = stops
  BY DEF WipeVersion, At, Cleaning
<1>2. PICK v \in proc[p].wiping :
        /\ disk' = [disk EXCEPT ![v] = EmptyDirectory]
        /\ proc' = [proc EXCEPT ![p].wiping = @ \ {v}]
  BY DEF WipeVersion
<1> DEFINE default == link[COMPILER_BIN]
           w == proc[p].wiping \ {v}
           c == [proc[p] EXCEPT !.wiping = w]
<1>3. /\ proc[p] \in Command /\ proc[p].wiping \in SUBSET Versions
      /\ default \in Versions \cup {NoVersion} /\ default \notin proc[p].wiping
      /\ default = IF proc[p].keep THEN proc[p].version ELSE NoVersion
  BY <1>1, Cleaner, CommandTyped DEF CleanOK
<1>4. w \in SUBSET Versions /\ default \notin w /\ v \in Versions /\ v # default
  BY <1>3
<1>5. proc' = [proc EXCEPT ![p] = c]
  BY <1>2
<1> HIDE DEF w
<1>6. /\ c \in Command /\ c.pc = "wipe" /\ c.keep = proc[p].keep
      /\ c.version = proc[p].version /\ c.wiping = w
  BY <1>1, <1>3, <1>4, WipingTyped
<1> HIDE DEF c
<1>7. c.pc \in Cleaning /\ CleanOK(c, default)
  BY <1>3, <1>4, <1>6 DEF Cleaning, CleanOK
<1>8. /\ disk \in [Versions -> Directory] /\ disk' \in [Versions -> Directory]
      /\ disk'[v] = EmptyDirectory /\ \A u \in Versions \ {v} : disk'[u] = disk[u]
  BY <1>1, <1>2, <1>4, Cleaner, EmptyTyped
<1>9. ~Installed(v)'
  BY <1>8, NamesAssumption DEF Installed, EmptyDirectory, NoFiles
<1>10. \A u \in Versions : disk'[u].files # disk[u].files =>
         /\ u # default /\ (CleanStops \/ ~Installed(u)') /\ (Installed(u)' => Installed(u))
         /\ \A x \in Versions \ {u} : disk'[x] = disk[x]
  BY <1>4, <1>8, <1>9
<1> QED BY <1>1, <1>3, <1>5, <1>6, <1>7, <1>8, <1>10, Cleaner, CleanStep, ZenonT(60)

LEMMA CleanDoneStep ==
  ASSUME IInv, NEW p \in Procs, CleanDone(p)
  PROVE  StepOK
<1>1. /\ proc[p].pc \in Cleaning /\ End(p, "cleaned")
      /\ disk' = disk /\ link' = link /\ stops' = stops
  BY DEF CleanDone, At, Cleaning
<1>2. TypeOK
  BY DEF IInv
<1> QED BY <1>1, <1>2, EndShape, Cleaner, CleanStep

LEMMA StopCleanStep ==
  ASSUME IInv, NEW p \in Procs, proc[p].pc \in Cleaning, Stop(p)
  PROVE  StepOK
<1>1. disk' = disk /\ link' = link /\ End(p, "stopped") /\ stops' \in 0 .. MaxStops /\ TypeOK
  BY BoundsAssumption DEF Stop, IInv, TypeOK
<1> QED BY <1>1, EndShape, Cleaner, CleanStep

LEMMA StopWipeStep ==
  ASSUME IInv, NEW p \in Procs, StopWipe(p)
  PROVE  StepOK
<1>1. /\ proc[p].pc = "wipe" /\ proc[p].pc \in Cleaning /\ End(p, "stopped") /\ CleanStops
      /\ link' = link /\ stops' \in 0 .. MaxStops /\ TypeOK
  <2>1. stops < MaxStops /\ stops' = stops + 1 /\ stops \in 0 .. MaxStops /\ TypeOK
    BY DEF StopWipe, IInv, TypeOK
  <2>2. /\ proc[p].pc = "wipe" /\ proc[p].pc \in Cleaning /\ End(p, "stopped") /\ CleanStops
        /\ link' = link
    BY DEF StopWipe, At, Cleaning
  <2> QED BY <2>1, <2>2, BoundsAssumption
<1>2. PICK v \in proc[p].wiping, left, unpacked \in SUBSET Files, partialLeft, zipLeft \in BOOLEAN :
        disk' = [disk EXCEPT
          ![v].files = [f \in Files |-> IF f \in left THEN @[f] ELSE "absent"],
          ![v].incoming = [f \in Files |-> IF f \in unpacked THEN @[f] ELSE "absent"],
          ![v].partial = IF partialLeft THEN @ ELSE NoFile,
          ![v].zip = IF zipLeft THEN @ ELSE NoFile]
  BY DEF StopWipe
<1> DEFINE default == link[COMPILER_BIN]
           g == [f \in Files |-> IF f \in left THEN disk[v].files[f] ELSE "absent"]
           i == [f \in Files |-> IF f \in unpacked THEN disk[v].incoming[f] ELSE "absent"]
           y == IF partialLeft THEN disk[v].partial ELSE NoFile
           z == IF zipLeft THEN disk[v].zip ELSE NoFile
           d == [disk[v] EXCEPT !.files = g, !.incoming = i, !.partial = y, !.zip = z]
<1>3. /\ disk \in [Versions -> Directory] /\ proc[p].wiping \in SUBSET Versions
      /\ default \in Versions \cup {NoVersion} /\ default \notin proc[p].wiping
  BY <1>1, Cleaner, CommandTyped DEF CleanOK
<1>4. v \in Versions /\ v # default /\ disk[v] \in Directory
  BY <1>3
<1>5. disk' = [disk EXCEPT ![v] = d]
  BY <1>2
<1>6. g \in [Files -> Presence] /\ i \in [Files -> Presence] /\ y \in Bytes /\ z \in Bytes
  BY <1>4, DirectoryTyped DEF Presence, Bytes
<1>7. g[COMPILER_BIN] # "absent" => Installed(v)
  BY NamesAssumption DEF Installed
<1> HIDE DEF g, i, y, z
<1>8. d \in Directory /\ d.files = g
  BY <1>4, <1>6 DEF Directory
<1> HIDE DEF d
<1>9. /\ disk' \in [Versions -> Directory]
      /\ disk'[v].files = g /\ \A u \in Versions \ {v} : disk'[u] = disk[u]
  BY <1>3, <1>4, <1>5, <1>8
<1>10. \A u \in Versions : disk'[u].files # disk[u].files =>
         /\ u # default /\ (Installed(u)' => Installed(u))
         /\ \A x \in Versions \ {u} : disk'[x] = disk[x]
  BY <1>4, <1>7, <1>9 DEF Installed
<1> QED BY <1>1, <1>3, <1>9, <1>10, EndShape, Cleaner, CleanStep

-----------------------------------------------------------------------------
(* The step and the theorems                                                *)

LEMMA NextStep == IInv /\ [Next]_vars => StepOK
<1> SUFFICES ASSUME IInv, [Next]_vars PROVE StepOK
  OBVIOUS
<1>1. ASSUME NEW p \in Procs, NEW v \in Versions, NEW exact \in BOOLEAN,
             NEW setDefault \in BOOLEAN, StartUpdate(p, v, exact, setDefault)
      PROVE  StepOK
  BY <1>1, StartUpdateStep
<1>2. ASSUME NEW p \in Procs, NEW keep \in BOOLEAN, StartClean(p, keep) PROVE StepOK
  BY <1>2, StartCleanStep
<1>3. ASSUME NEW p \in Procs, Advance(p) PROVE StepOK
  BY <1>3, LoadArtifactsStep, RequestArchiveStep, ReceiveStep, FinishDownloadStep,
     ClearIncomingStep, ExtractEntryStep, ExtractionDoneStep, ArchiveCorruptStep,
     DiscardPreviousStep, MoveIntoStep, InstallDoneStep, FindPreviousStep, UnlinkStep, RelinkStep, ValidateStep,
     RemoveLinkStep, ListVersionsStep, WipeVersionStep, CleanDoneStep DEF Advance
<1>4. ASSUME NEW p \in Procs, Stop(p) PROVE StepOK
  <2>1. proc[p].pc \in Pcs /\ proc[p].pc # "idle"
    BY <1>4, CommandTyped DEF Stop, At, IInv, TypeOK
  <2> QED BY <1>4, <2>1, StopUpdateStep, StopCleanStep DEF Pcs
<1>5. ASSUME NEW p \in Procs, StopWipe(p) PROVE StepOK
  BY <1>5, StopWipeStep
<1>6. CASE UNCHANGED vars
  <2>1. IInv'
    BY <1>6 DEF vars, IInv, TypeOK, CommandOK, Separate, DefaultIsInstalled, InstalledIsComplete,
       Installed, Complete, At, V
  <2>2. [Store!Next]_(Store!vars)
    BY <1>6 DEF vars, Store!vars, Installed
  <2>3. KeepsCurrent
    <3> SUFFICES ASSUME NEW p \in Procs, proc[p].keep, V(p) # NoVersion
                 PROVE  link'[COMPILER_BIN] = V(p) /\ disk'[V(p)].files = disk[V(p)].files
      BY DEF KeepsCurrent
    <3>1. proc[p].pc \in Pcs /\ CommandOK(p)
      BY CommandTyped DEF IInv, TypeOK
    <3>2. link[COMPILER_BIN] = V(p)
      BY <3>1 DEF CommandOK, CleanOK, At, Idle, V, Pcs, Cleaning
    <3> QED BY <1>6, <3>2 DEF vars
  <2> QED BY <2>1, <2>2, <2>3 DEF StepOK
<1> QED BY <1>1, <1>2, <1>3, <1>4, <1>5, <1>6 DEF Next

LEMMA Invariance == Spec => []IInv
<1>1. Init => IInv
  BY InitIInv
<1>2. IInv /\ [Next]_vars => IInv'
  BY NextStep DEF StepOK
<1> QED BY <1>1, <1>2, PTL DEF Spec

(* Every variable keeps its type in every state of update and clean.        *)
THEOREM TypeCorrect == Spec => []TypeOK
<1>1. IInv => TypeOK
  BY DEF IInv
<1> QED BY <1>1, Invariance, PTL

(* Whichever updates and cleans run, and wherever they are stopped, the     *)
(* default compiler is one that is installed: what set_current_compiler     *)
(* links is there, and no update or clean takes it away before the link.    *)
THEOREM DefaultsAreInstalled == Spec => []DefaultIsInstalled
<1>1. IInv => DefaultIsInstalled
  BY DEF IInv
<1> QED BY <1>1, Invariance, PTL

(* A compiler binary is the proof that all files of its version are there,  *)
(* whole, as install_archive intends by moving it last: unless a clean is   *)
(* stopped in the middle of a directory it removes.                         *)
THEOREM InstalledVersionsAreComplete ==
  ASSUME ~CleanStops
  PROVE  Spec => []InstalledIsComplete
<1>1. IInv => InstalledIsComplete
  BY DEF IInv
<1> QED BY <1>1, Invariance, PTL

(* A clean that was told to keep the current version leaves its files and   *)
(* its link as they are.                                                    *)
THEOREM CleansKeepTheCurrent == Spec => CleanKeepsCurrent
<1>1. IInv /\ [Next]_vars => KeepsCurrent
  BY NextStep DEF StepOK
<1>2. KeepsCurrent <=> \A p \in Procs : proc[p].keep /\ V(p) # NoVersion =>
        link'[COMPILER_BIN] = V(p) /\ disk'[V(p)].files = disk[V(p)].files
  BY DEF KeepsCurrent
<1> QED BY <1>1, <1>2, Invariance, PTL DEF Spec, CleanKeepsCurrent

(* Update and clean implement the store of versions: however many commands  *)
(* run and wherever they are stopped, each of their steps is one install,   *)
(* one default set or dropped, one removal of a version that is not the     *)
(* default, or nothing the user of the store can see.                       *)
THEOREM ImplementsVersionStore == Spec => IsVersionStore
<1>1. Init => Store!Init
  BY InitIInv
<1>2. IInv /\ [Next]_vars => [Store!Next]_(Store!vars)
  BY NextStep DEF StepOK
<1> QED BY <1>1, <1>2, Invariance, PTL DEF Spec, IsVersionStore, Store!Spec

-----------------------------------------------------------------------------
(* Links of one update at a time                                            *)

(* No file is in a version's directory that its archive does not hold.      *)
Shipped ==
  \A v \in Versions : \A f \in Files \ FilesOf(v) : disk[v].files[f] = "absent"

Follows(l, v) == link[l] = IF l \in FilesOf(v) THEN v ELSE NoVersion

(* set_current_compiler goes through the links in order: those behind it    *)
(* follow the version, the one it works on was taken away.                  *)
LinksOK(p) ==
  LET tool == proc[p].tool
      v == V(p)
  IN /\ proc[p].pc \in {"find", "unlink"} /\ tool # 0 =>
          Follows(COMPILER_BIN, v) /\ \A j \in 1 .. tool - 1 : Follows(Tools[j], v)
     /\ At(p, "link") =>
          /\ link[LinkAt(p)] = NoVersion
          /\ tool # 0 =>
               /\ Follows(COMPILER_BIN, v)
               /\ \A j \in 1 .. tool - 1 : Tools[j] = LinkAt(p) \/ Follows(Tools[j], v)
     /\ At(p, "validate") => \A l \in Links : Follows(l, v)

LInv == Shipped /\ (\A p \in Procs : LinksOK(p)) /\ LinksFollowDefault

-----------------------------------------------------------------------------
(* Steps that leave the links alone                                         *)

(* What such a step of p may do: it does not come from nor reach the phases *)
(* of the links but their beginning, reports no default, and a clean goes   *)
(* on until it reports that it has cleaned.                                 *)
Quiet(p) ==
  /\ \A q \in Procs : q # p => proc'[q] = proc[q]
  /\ link' = link
  /\ proc[p].pc \notin {"find", "unlink", "link", "validate"}
  /\ proc'[p].pc \notin {"unlink", "link", "validate"}
  /\ proc'[p].pc = "find" => proc'[p].tool = 0
  /\ last'.what = "default" => last' = last /\ proc'[p].pc # "idle"
  /\ proc[p].pc \in Cleaning => proc'[p].pc \in Cleaning \/ last'.what = "cleaned"

LEMMA AfterInstallQuiet ==
  ASSUME TypeOK, NEW p \in Procs, NEW v \in Versions, NEW setDefault \in BOOLEAN,
         AfterInstall(p, setDefault, v), link' = link, proc[p].pc \in {"idle", "load", "place"}
  PROVE  Quiet(p) /\ (last' = last \/ last'.what = "installed")
<1>1. proc \in [Procs -> Command]
  BY DEF TypeOK
<1>2. CASE setDefault
  <2>1. /\ proc' = [proc EXCEPT ![p] = [Idle EXCEPT !.pc = "find", !.version = v,
                                                   !.setDefault = TRUE]]
        /\ last' = last
    BY <1>2 DEF AfterInstall
  <2>2. proc'[p].pc = "find" /\ proc'[p].tool = 0
    BY <1>1, <2>1 DEF Idle
  <2> QED BY <1>1, <2>1, <2>2 DEF Quiet, Cleaning
<1>3. CASE ~setDefault
  BY <1>1, <1>3 DEF AfterInstall, Quiet, Idle, Cleaning
<1> QED BY <1>2, <1>3

LEMMA EndQuiet ==
  ASSUME TypeOK, NEW p \in Procs, NEW what, End(p, what), what # "default", link' = link,
         proc[p].pc \notin {"find", "unlink", "link", "validate"},
         proc[p].pc \in Cleaning => what = "cleaned"
  PROVE  Quiet(p) /\ last'.what = what
BY DEF TypeOK, End, Quiet, Idle

(* A command that goes on to another phase.                                 *)
LEMMA GoQuiet ==
  ASSUME TypeOK, NEW p \in Procs, NEW c, proc' = [proc EXCEPT ![p] = c],
         link' = link, last' = last,
         proc[p].pc \notin {"find", "unlink", "link", "validate"},
         c.pc \notin {"idle", "find", "unlink", "link", "validate"},
         proc[p].pc \in Cleaning => c.pc \in Cleaning
  PROVE  Quiet(p)
BY DEF TypeOK, Quiet

LEMMA DownloadQuiet ==
  ASSUME IInv, NEW p \in Procs,
         \/ RequestArchive(p) \/ Receive(p) \/ FinishDownload(p) \/ ClearIncoming(p)
         \/ (\E f \in Files : ExtractEntry(p, f)) \/ ExtractionDone(p) \/ ArchiveCorrupt(p)
         \/ (\E f \in Files : DiscardPrevious(p, f)) \/ MoveInto(p)
  PROVE  Quiet(p) /\ stops' = stops /\ (last' = last \/ last'.what = "failed")
<1>1. TypeOK /\ proc \in [Procs -> Command] /\ proc[p] \in Command
  BY DEF IInv, TypeOK
<1>2. CASE RequestArchive(p)
  <2> DEFINE from == IF disk[V(p)].partial = NoFile THEN 0 ELSE Len(disk[V(p)].partial)
  <2>1. PICK server \in Servers :
          \/ End(p, "failed")
          \/ /\ proc' = [proc EXCEPT ![p].pc = "stream",
                           ![p].next = IF server = "honours" THEN from + 1 ELSE 1]
             /\ UNCHANGED last
    BY <1>2 DEF RequestArchive
  <2>2. link' = link /\ stops' = stops /\ proc[p].pc = "request"
    BY <1>2 DEF RequestArchive, At
  <2> DEFINE n == IF server = "honours" THEN from + 1 ELSE 1
             c == [proc[p] EXCEPT !.pc = "stream", !.next = n]
  <2>3. CASE End(p, "failed")
    BY <1>1, <2>2, <2>3, EndQuiet DEF Cleaning
  <2>4. CASE proc' = [proc EXCEPT ![p] = c] /\ last' = last
    <3> HIDE DEF n
    <3>1. c.pc = "stream"
      BY <1>1 DEF Command
    <3> QED BY <1>1, <2>2, <2>4, <3>1, GoQuiet DEF Cleaning
  <2> QED BY <2>1, <2>3, <2>4
<1>3. CASE Receive(p)
  <2> DEFINE n == proc[p].next + 1
             c == [proc[p] EXCEPT !.next = n]
  <2>1. /\ link' = link /\ stops' = stops /\ last' = last /\ proc[p].pc = "stream"
        /\ proc' = [proc EXCEPT ![p] = c]
    BY <1>3 DEF Receive, At
  <2> HIDE DEF n
  <2>2. c.pc = "stream"
    BY <1>1, <2>1 DEF Command
  <2> QED BY <1>1, <2>1, <2>2, GoQuiet DEF Cleaning
<1>4. ASSUME NEW x \in {"clear", "extract", "place"}, Go(p, x), link' = link, stops' = stops,
             last' = last, proc[p].pc \in {"stream", "clear", "extract"}
      PROVE  Quiet(p) /\ stops' = stops /\ last' = last
  <2> DEFINE c == [proc[p] EXCEPT !.pc = x]
  <2>1. proc' = [proc EXCEPT ![p] = c] /\ c.pc = x
    BY <1>1, <1>4 DEF Go, Command
  <2> HIDE DEF c
  <2> QED BY <1>1, <1>4, <2>1, GoQuiet DEF Cleaning
<1>5. CASE FinishDownload(p) \/ ClearIncoming(p) \/ ExtractionDone(p)
  BY <1>4, <1>5 DEF FinishDownload, ClearIncoming, ExtractionDone, At
<1>6. CASE \E f \in Files : ExtractEntry(p, f)
  BY <1>1, <1>6 DEF ExtractEntry, At, Quiet, Cleaning
<1>7. CASE ArchiveCorrupt(p)
  <2>1. link' = link /\ stops' = stops /\ proc[p].pc = "extract"
    BY <1>7 DEF ArchiveCorrupt, At
  <2> DEFINE c == [proc[p] EXCEPT !.pc = "request", !.retried = TRUE]
  <2>2. End(p, "failed") \/ (proc' = [proc EXCEPT ![p] = c] /\ last' = last)
    BY <1>7 DEF ArchiveCorrupt
  <2>3. c.pc = "request"
    BY <1>1 DEF Command
  <2> HIDE DEF c
  <2> QED BY <1>1, <2>1, <2>2, <2>3, EndQuiet, GoQuiet DEF Cleaning
<1>8. CASE (\E f \in Files : DiscardPrevious(p, f)) \/ MoveInto(p)
  <2>1. /\ link' = link /\ stops' = stops /\ last' = last /\ proc[p].pc = "place"
        /\ \E m : proc' = [proc EXCEPT ![p] = [proc[p] EXCEPT !.moving = m]]
    BY <1>8 DEF DiscardPrevious, MoveInto, At
  <2>2. PICK m : proc' = [proc EXCEPT ![p] = [proc[p] EXCEPT !.moving = m]]
    BY <2>1
  <2> DEFINE c == [proc[p] EXCEPT !.moving = m]
  <2>3. c.pc = "place"
    BY <1>1, <2>1 DEF Command
  <2> HIDE DEF c
  <2> QED BY <1>1, <2>1, <2>2, <2>3, GoQuiet DEF Cleaning, c
<1> QED BY <1>2, <1>3, <1>5, <1>6, <1>7, <1>8

LEMMA InstallQuiet ==
  ASSUME IInv, NEW p \in Procs,
         \/ \E v \in Versions, exact, setDefault \in BOOLEAN : StartUpdate(p, v, exact, setDefault)
         \/ LoadArtifacts(p) \/ InstallDone(p)
  PROVE  Quiet(p) /\ stops' = stops /\ (last' = last \/ last'.what = "installed")
<1>1. TypeOK /\ proc \in [Procs -> Command] /\ proc[p] \in Command
  BY DEF IInv, TypeOK
<1>2. ASSUME NEW v \in Versions, NEW exact \in BOOLEAN, NEW setDefault \in BOOLEAN,
             StartUpdate(p, v, exact, setDefault)
      PROVE  Quiet(p) /\ stops' = stops /\ (last' = last \/ last'.what = "installed")
  <2> DEFINE c == [Idle EXCEPT !.pc = "load", !.version = v, !.setDefault = setDefault]
  <2>1. link' = link /\ stops' = stops /\ proc[p].pc = "idle"
    BY <1>2 DEF StartUpdate, At
  <2>2. \/ AfterInstall(p, setDefault, v)
        \/ proc' = [proc EXCEPT ![p] = c] /\ last' = last
    BY <1>2 DEF StartUpdate
  <2>3. c.pc = "load"
    BY DEF Idle
  <2> HIDE DEF c
  <2> QED BY <1>1, <2>1, <2>2, <2>3, AfterInstallQuiet, GoQuiet DEF Cleaning
<1>3. CASE LoadArtifacts(p)
  <2> DEFINE x == IF disk[V(p)].zip = NoFile THEN "request" ELSE "clear"
             c == [proc[p] EXCEPT !.pc = x]
  <2>1. link' = link /\ stops' = stops /\ proc[p].pc = "load" /\ proc[p].pc \in Updating
    BY <1>3 DEF LoadArtifacts, At, Updating
  <2>2. V(p) \in Versions /\ proc[p].setDefault \in BOOLEAN
    BY <2>1, Updater, CommandTyped
  <2>3. \/ AfterInstall(p, proc[p].setDefault, V(p))
        \/ proc' = [proc EXCEPT ![p] = c] /\ last' = last
    BY <1>3 DEF LoadArtifacts, Go
  <2>4. c.pc \in {"request", "clear"}
    BY <1>1 DEF Command
  <2> HIDE DEF c
  <2> QED BY <1>1, <2>1, <2>2, <2>3, <2>4, AfterInstallQuiet, GoQuiet DEF Cleaning
<1>4. CASE InstallDone(p)
  <2>1. /\ link' = link /\ stops' = stops /\ proc[p].pc = "place" /\ proc[p].pc \in Updating
        /\ AfterInstall(p, proc[p].setDefault, V(p))
    BY <1>4 DEF InstallDone, At, Updating
  <2>2. V(p) \in Versions /\ proc[p].setDefault \in BOOLEAN
    BY <2>1, Updater, CommandTyped
  <2> QED BY <1>1, <2>1, <2>2, AfterInstallQuiet
<1> QED BY <1>2, <1>3, <1>4

LEMMA CleanQuiet ==
  ASSUME IInv, NEW p \in Procs,
         \/ \E keep \in BOOLEAN : StartClean(p, keep)
         \/ ListVersions(p) \/ WipeVersion(p) \/ CleanDone(p)
  PROVE  Quiet(p) /\ stops' = stops /\ (last' = last \/ last'.what = "cleaned")
<1>1. TypeOK /\ proc \in [Procs -> Command] /\ proc[p] \in Command
  BY DEF IInv, TypeOK
<1>2. ASSUME NEW keep \in BOOLEAN, StartClean(p, keep)
      PROVE  Quiet(p) /\ stops' = stops /\ (last' = last \/ last'.what = "cleaned")
  <2> DEFINE x == IF keep THEN "list" ELSE "removeLinks"
             c == [Idle EXCEPT !.keep = keep, !.pc = x, !.version = link[COMPILER_BIN]]
  <2>1. /\ link' = link /\ stops' = stops /\ last' = last /\ proc[p].pc = "idle"
        /\ proc' = [proc EXCEPT ![p] = c]
    BY <1>2 DEF StartClean, At
  <2>2. c.pc \in {"list", "removeLinks"}
    BY DEF Idle
  <2> HIDE DEF c
  <2> QED BY <1>1, <2>1, <2>2, GoQuiet DEF Cleaning
<1>3. CASE ListVersions(p)
  <2>1. /\ link' = link /\ stops' = stops /\ last' = last /\ proc[p].pc = "list"
        /\ \E w : proc' = [proc EXCEPT ![p] = [proc[p] EXCEPT !.pc = "wipe", !.wiping = w]]
    BY <1>3 DEF ListVersions, At
  <2>2. PICK w : proc' = [proc EXCEPT ![p] = [proc[p] EXCEPT !.pc = "wipe", !.wiping = w]]
    BY <2>1
  <2> DEFINE c == [proc[p] EXCEPT !.pc = "wipe", !.wiping = w]
  <2>3. c.pc = "wipe"
    BY <1>1 DEF Command
  <2> HIDE DEF c
  <2> QED BY <1>1, <2>1, <2>2, <2>3, GoQuiet DEF Cleaning, c
<1>4. CASE WipeVersion(p)
  <2>1. /\ link' = link /\ stops' = stops /\ last' = last /\ proc[p].pc = "wipe"
        /\ \E w : proc' = [proc EXCEPT ![p] = [proc[p] EXCEPT !.wiping = w]]
    BY <1>4 DEF WipeVersion, At
  <2>2. PICK w : proc' = [proc EXCEPT ![p] = [proc[p] EXCEPT !.wiping = w]]
    BY <2>1
  <2> DEFINE c == [proc[p] EXCEPT !.wiping = w]
  <2>3. c.pc = "wipe"
    BY <1>1, <2>1 DEF Command
  <2> HIDE DEF c
  <2> QED BY <1>1, <2>1, <2>2, <2>3, GoQuiet DEF Cleaning, c
<1>5. CASE CleanDone(p)
  BY <1>1, <1>5, EndQuiet DEF CleanDone, At
<1> QED BY <1>2, <1>3, <1>4, <1>5

-----------------------------------------------------------------------------
(* What a version's directory may hold                                      *)

LEMMA ShippedStep ==
  ASSUME IInv, Shipped, [Next]_vars
  PROVE  Shipped'
<1>1. TypeOK /\ disk \in [Versions -> Directory]
  BY DEF IInv, TypeOK
<1>2. ASSUME \A v \in Versions : disk'[v].files = disk[v].files
      PROVE  Shipped'
  BY <1>2 DEF Shipped
<1>3. ASSUME NEW v \in Versions, NEW d \in Directory, disk' = [disk EXCEPT ![v] = d],
             \A f \in Files \ FilesOf(v) : d.files[f] = "absent"
      PROVE  Shipped'
  BY <1>1, <1>3 DEF Shipped
<1>4. ASSUME disk' = disk PROVE Shipped'
  BY <1>4 DEF Shipped
<1>5. ASSUME NEW p \in Procs, LoadArtifacts(p) \/ RequestArchive(p) \/ Receive(p) \/ FinishDownload(p)
                              \/ ClearIncoming(p) \/ ArchiveCorrupt(p)
      PROVE  Shipped'
  <2>1. proc[p].pc \in Updating
    BY <1>5 DEF LoadArtifacts, RequestArchive, Receive, FinishDownload, ClearIncoming,
       ArchiveCorrupt, At, Updating
  <2>2. V(p) \in Versions /\ disk[V(p)] \in Directory
    BY <2>1, Updater
  <2>3. \/ disk' = disk
        \/ \E x : disk' = [disk EXCEPT ![V(p)].exists = x]
        \/ \E x : disk' = [disk EXCEPT ![V(p)].partial = x]
        \/ \E x : disk' = [disk EXCEPT ![V(p)].zip = x]
        \/ \E x : disk' = [disk EXCEPT ![V(p)].incoming = x]
        \/ \E x, y : disk' = [disk EXCEPT ![V(p)].zip = x, ![V(p)].partial = y]
    BY <1>5 DEF LoadArtifacts, RequestArchive, Receive, FinishDownload, ClearIncoming,
       ArchiveCorrupt
  <2> DEFINE d == disk[V(p)]
  <2>4. \A x, y : /\ [d EXCEPT !.exists = x].files = d.files
                  /\ [d EXCEPT !.partial = x].files = d.files
                  /\ [d EXCEPT !.zip = x].files = d.files
                  /\ [d EXCEPT !.incoming = x].files = d.files
                  /\ [d EXCEPT !.zip = x, !.partial = y].files = d.files
    BY <2>2 DEF Directory
  <2>5. \/ disk' = disk
        \/ \E e : e.files = d.files /\ disk' = [disk EXCEPT ![V(p)] = e]
    BY <2>3, <2>4, ZenonT(60)
  <2>6. \A v \in Versions : disk'[v].files = disk[v].files
    BY <1>1, <2>2, <2>5
  <2> QED BY <1>2, <2>6
<1>6. ASSUME NEW p \in Procs, NEW f \in Files, ExtractEntry(p, f) PROVE Shipped'
  <2>1. proc[p].pc \in Updating
    BY <1>6 DEF ExtractEntry, At, Updating
  <2>2. V(p) \in Versions /\ disk[V(p)] \in Directory
    BY <2>1, Updater
  <2>3. \E x : disk' = [disk EXCEPT ![V(p)].incoming[f] = x]
    BY <1>6 DEF ExtractEntry
  <2>4. \A v \in Versions : disk'[v].files = disk[v].files
    BY <1>1, <2>2, <2>3 DEF Directory
  <2> QED BY <1>2, <2>4
<1>7. ASSUME NEW p \in Procs, NEW f \in Files, DiscardPrevious(p, f) PROVE Shipped'
  <2>1. proc[p].pc \in Updating /\ disk' = [disk EXCEPT ![V(p)].files[f] = "absent"]
    BY <1>7 DEF DiscardPrevious, At, Updating
  <2>2. V(p) \in Versions /\ disk[V(p)] \in Directory
    BY <2>1, Updater
  <2> QED BY <1>1, <2>1, <2>2, DirectoryTyped DEF Shipped
<1>8. ASSUME NEW p \in Procs, MoveInto(p) PROVE Shipped'
  <2> DEFINE v == V(p)
             f == proc[p].moving
             g == [disk[v].files EXCEPT ![f] = disk[v].incoming[f]]
             i == [disk[v].incoming EXCEPT ![f] = "absent"]
             d == [disk[v] EXCEPT !.files = g, !.incoming = i]
  <2>1. /\ proc[p].pc = "place" /\ proc[p].pc \in Updating /\ f # NoFile
        /\ disk' = [disk EXCEPT ![v] = d]
    BY <1>8 DEF MoveInto, At, Updating
  <2>2. /\ v \in Versions /\ disk[v] \in Directory /\ proc[p] \in Command
        /\ UpdateOK(proc[p], disk[v]) /\ proc[p].version = v
    BY <2>1, Updater
  <2>3. f \in FilesOf(v)
    BY <2>1, <2>2, CommandTyped DEF UpdateOK, Placing
  <2>4. d.files = g /\ \A h \in Files : h # f => g[h] = disk[v].files[h]
    BY <2>2, DirectoryTyped DEF Directory
  <2> HIDE DEF d, g
  <2>5. disk'[v].files = g /\ \A w \in Versions : w # v => disk'[w] = disk[w]
    BY <1>1, <2>1, <2>2, <2>4
  <2> QED BY <2>2, <2>3, <2>4, <2>5 DEF Shipped
<1>9. ASSUME NEW p \in Procs, WipeVersion(p) \/ StopWipe(p) PROVE Shipped'
  <2>1. proc[p].pc \in Cleaning
    BY <1>9 DEF WipeVersion, StopWipe, At, Cleaning
  <2>2. proc[p].wiping \in SUBSET Versions
    BY <2>1, Cleaner, CommandTyped
  <2>3. CASE WipeVersion(p)
    <3>1. PICK v \in Versions : disk' = [disk EXCEPT ![v] = EmptyDirectory]
      BY <2>2, <2>3 DEF WipeVersion
    <3>2. \A f \in Files : EmptyDirectory.files[f] = "absent"
      BY DEF EmptyDirectory, NoFiles
    <3> QED BY <1>1, <1>3, <3>1, <3>2, EmptyTyped
  <2>4. CASE StopWipe(p)
    <3>1. PICK v \in proc[p].wiping, left, unpacked \in SUBSET Files, partialLeft, zipLeft \in BOOLEAN :
            disk' = [disk EXCEPT
              ![v].files = [f \in Files |-> IF f \in left THEN @[f] ELSE "absent"],
              ![v].incoming = [f \in Files |-> IF f \in unpacked THEN @[f] ELSE "absent"],
              ![v].partial = IF partialLeft THEN @ ELSE NoFile,
              ![v].zip = IF zipLeft THEN @ ELSE NoFile]
      BY <2>4 DEF StopWipe
    <3> DEFINE g == [f \in Files |-> IF f \in left THEN disk[v].files[f] ELSE "absent"]
               i == [f \in Files |-> IF f \in unpacked THEN disk[v].incoming[f] ELSE "absent"]
               y == IF partialLeft THEN disk[v].partial ELSE NoFile
               z == IF zipLeft THEN disk[v].zip ELSE NoFile
               d == [disk[v] EXCEPT !.files = g, !.incoming = i, !.partial = y, !.zip = z]
    <3>2. v \in Versions /\ disk[v] \in Directory
      BY <1>1, <2>2
    <3>3. disk' = [disk EXCEPT ![v] = d]
      BY <3>1
    <3>4. \A f \in Files \ FilesOf(v) : g[f] = "absent"
      BY <3>2 DEF Shipped
    <3> HIDE DEF g, i, y, z
    <3>5. d.files = g
      BY <3>2 DEF Directory
    <3> HIDE DEF d
    <3>6. disk'[v].files = g /\ \A w \in Versions : w # v => disk'[w] = disk[w]
      BY <1>1, <3>2, <3>3, <3>5
    <3> QED BY <3>4, <3>6 DEF Shipped
  <2> QED BY <1>9, <2>3, <2>4
<1>10. ASSUME NEW p \in Procs,
              \/ \E v \in Versions, exact, setDefault \in BOOLEAN : StartUpdate(p, v, exact, setDefault)
              \/ \E keep \in BOOLEAN : StartClean(p, keep)
              \/ ExtractionDone(p) \/ InstallDone(p) \/ FindPrevious(p) \/ Unlink(p) \/ Relink(p) \/ Validate(p)
              \/ RemoveLink(p) \/ ListVersions(p) \/ CleanDone(p) \/ Stop(p)
       PROVE  Shipped'
  BY <1>4, <1>10 DEF StartUpdate, StartClean, ExtractionDone, InstallDone, FindPrevious, Unlink, Relink,
     Validate, RemoveLink, ListVersions, CleanDone, Stop
<1> QED BY <1>4, <1>5, <1>6, <1>7, <1>8, <1>9, <1>10 DEF Next, Advance, vars

-----------------------------------------------------------------------------
(* The links of one update at a time                                        *)

LEMMA QuietLinks ==
  ASSUME LInv, Shipped', NEW p \in Procs, \A q \in Procs : q = p, Quiet(p)
  PROVE  LInv'
<1>1. LinksOK(p)'
  BY DEF Quiet, LinksOK, At
<1>2. LinksFollowDefault'
  BY DEF Quiet, LInv, LinksFollowDefault, At
<1> QED BY <1>1, <1>2 DEF LInv

(* A version that is being linked has all its files, and no others.         *)
LEMMA ShipsExactly ==
  ASSUME IInv, Shipped, ~CleanStops, NEW p \in Procs,
         proc[p].pc \in {"find", "unlink", "link", "validate"}
  PROVE  /\ V(p) \in Versions /\ Installed(V(p))
         /\ \A f \in Files : disk[V(p)].files[f] # "absent" <=> f \in FilesOf(V(p))
<1>1. V(p) \in Versions /\ Installed(V(p))
  BY Updater DEF UpdateOK, Installed, Updating
<1> QED BY <1>1 DEF IInv, InstalledIsComplete, Complete, Shipped

LEMMA FindPreviousLinks ==
  ASSUME IInv, LInv, Shipped', ~CleanStops, NEW p \in Procs, \A q \in Procs : q = p, FindPrevious(p)
  PROVE  LInv'
<1> DEFINE x == IF link[LinkAt(p)] = NoVersion THEN "link" ELSE "unlink"
<1>1. /\ proc[p].pc = "find" /\ LinksOK(p) /\ proc \in [Procs -> Command] /\ proc[p] \in Command
      /\ link' = link
  BY DEF FindPrevious, At, LInv, IInv, TypeOK
<1>2. Installed(V(p))
  BY <1>1, ShipsExactly DEF LInv
<1>3. proc' = [proc EXCEPT ![p] = [proc[p] EXCEPT !.pc = x]]
  BY <1>2 DEF FindPrevious, Go
<1> HIDE DEF x
<1>4. proc'[p].pc = x /\ proc'[p].tool = proc[p].tool /\ proc'[p].version = proc[p].version
  BY <1>1, <1>3 DEF Command
<1>5. (x = "link" /\ link[LinkAt(p)] = NoVersion) \/ x = "unlink"
  BY DEF x
<1>6. LinksOK(p)'
  BY <1>1, <1>4, <1>5 DEF LinksOK, LinkAt, Follows, At, V
<1>7. LinksFollowDefault'
  BY <1>4, <1>5 DEF LinksFollowDefault, At
<1> QED BY <1>6, <1>7 DEF LInv

LEMMA UnlinkLinks ==
  ASSUME IInv, LInv, Shipped', ~CleanStops, NEW p \in Procs, \A q \in Procs : q = p, Unlink(p)
  PROVE  LInv'
<1> DEFINE v == V(p)
           l == LinkAt(p)
           t == proc[p].tool
<1>1. /\ proc[p].pc = "unlink" /\ LinksOK(p) /\ proc \in [Procs -> Command] /\ proc[p] \in Command
      /\ link \in [Links -> Versions \cup {NoVersion}]
  BY DEF Unlink, At, LInv, IInv, TypeOK
<1>2. CASE link[l] = NoVersion
  <2>1. proc'[p].pc = "idle" /\ last'.what = "failed"
    BY <1>1, <1>2 DEF Unlink, End, Idle
  <2> QED BY <2>1 DEF LInv, LinksOK, LinksFollowDefault, At
<1>3. CASE link[l] # NoVersion
  <2>1. /\ link' = [link EXCEPT ![l] = NoVersion]
        /\ proc' = [proc EXCEPT ![p] = [proc[p] EXCEPT !.pc = "link"]]
    BY <1>3 DEF Unlink, Go
  <2>2. proc'[p].pc = "link" /\ proc'[p].tool = t /\ proc'[p].version = v
    BY <1>1, <2>1 DEF Command, V
  <2>3. l \in Links /\ (l = COMPILER_BIN <=> t = 0)
    BY LinkAtTyped DEF IInv
  <2>4. /\ link'[l] = NoVersion
        /\ \A k \in Links : k # l => link'[k] = link[k]
    BY <1>1, <2>1, <2>3
  <2>5. t # 0 => Follows(COMPILER_BIN, v) /\ \A j \in 1 .. t - 1 : Follows(Tools[j], v)
    BY <1>1 DEF LinksOK, At
  <2>6. t \in 0 .. Len(Tools)
    BY <1>1, CommandTyped
  <2>7. LinkAt(p)' = l
    BY <2>2 DEF LinkAt
  <2>8. t # 0 => link'[COMPILER_BIN] = IF COMPILER_BIN \in FilesOf(v) THEN v ELSE NoVersion
    BY <2>3, <2>4, <2>5, ToolsTyped DEF Follows
  <2>9. ASSUME t # 0, NEW j \in 1 .. t - 1, Tools[j] # l
         PROVE  link'[Tools[j]] = IF Tools[j] \in FilesOf(v) THEN v ELSE NoVersion
    <3>1. j \in 1 .. Len(Tools)
      BY <2>6, ToolsTyped
    <3> QED BY <2>4, <2>5, <2>9, <3>1, ToolsTyped DEF Follows
  <2>10. LinksOK(p)'
    BY <2>2, <2>4, <2>7, <2>8, <2>9 DEF LinksOK, At, V, Follows
  <2>11. LinksFollowDefault'
    BY <2>2 DEF LinksFollowDefault, At
  <2> QED BY <2>10, <2>11 DEF LInv
<1> QED BY <1>2, <1>3

LEMMA RelinkLinks ==
  ASSUME IInv, LInv, Shipped', ~CleanStops, NEW p \in Procs, \A q \in Procs : q = p, Relink(p)
  PROVE  LInv'
<1> DEFINE v == V(p)
           l == LinkAt(p)
           t == proc[p].tool
           right(k) == IF k \in FilesOf(v) THEN v ELSE NoVersion
<1>1. /\ proc[p].pc = "link" /\ LinksOK(p) /\ proc \in [Procs -> Command] /\ proc[p] \in Command
      /\ link \in [Links -> Versions \cup {NoVersion}]
  BY DEF Relink, At, LInv, IInv, TypeOK
<1>2. /\ l \in Links /\ l \in Files /\ (l = COMPILER_BIN <=> t = 0) /\ t \in 0 .. Len(Tools)
      /\ t # 0 => l = Tools[t]
  BY <1>1, LinkAtTyped, CommandTyped DEF IInv, LinkAt
<1>3. /\ link[l] = NoVersion
      /\ t # 0 => /\ link[COMPILER_BIN] = right(COMPILER_BIN)
                  /\ \A j \in 1 .. t - 1 : Tools[j] = l \/ link[Tools[j]] = right(Tools[j])
  BY <1>1 DEF LinksOK, At, Follows
<1>4. disk[v].files[l] # "absent" <=> l \in FilesOf(v)
  BY <1>1, <1>2, ShipsExactly DEF LInv
<1>5. /\ link' = [link EXCEPT ![l] = right(l)]
      /\ proc' = [proc EXCEPT ![p] = [proc[p] EXCEPT
                    !.tool = IF t < Len(Tools) THEN t + 1 ELSE t,
                    !.pc = IF t < Len(Tools) THEN "find" ELSE "validate"]]
  BY <1>3, <1>4 DEF Relink
<1>6. /\ proc'[p].pc = (IF t < Len(Tools) THEN "find" ELSE "validate")
      /\ proc'[p].tool = (IF t < Len(Tools) THEN t + 1 ELSE t)
      /\ proc'[p].version = v
  BY <1>1, <1>5 DEF Command, V
<1> HIDE DEF right
<1>7. link'[l] = right(l) /\ \A k \in Links : k # l => link'[k] = link[k]
  BY <1>1, <1>2, <1>5
<1>8. link'[COMPILER_BIN] = right(COMPILER_BIN)
  BY <1>2, <1>3, <1>7, ToolsTyped
<1>9. ASSUME NEW j \in 1 .. t PROVE link'[Tools[j]] = right(Tools[j])
  <2>1. j \in 1 .. Len(Tools) /\ Tools[j] \in Links
    BY <1>2, ToolsTyped
  <2>2. CASE Tools[j] = l
    BY <1>7, <2>2
  <2>3. CASE Tools[j] # l
    <3>1. j \in 1 .. t - 1 /\ t # 0
      BY <1>2, <2>3
    <3> QED BY <1>3, <1>7, <2>1, <2>3, <3>1
  <2> QED BY <2>2, <2>3
<1>10. LinksOK(p)'
  <2>1. CASE t < Len(Tools)
    <3>1. proc'[p].pc = "find" /\ proc'[p].tool = t + 1 /\ proc'[p].version = v
      BY <1>6, <2>1
    <3>2. \A j \in 1 .. (t + 1) - 1 : link'[Tools[j]] = right(Tools[j])
      BY <1>2, <1>9
    <3> QED BY <1>8, <3>1, <3>2 DEF LinksOK, At, V, Follows, right
  <2>2. CASE ~(t < Len(Tools))
    <3>1. proc'[p].pc = "validate" /\ proc'[p].version = v /\ t = Len(Tools)
      BY <1>2, <1>6, <2>2, ToolsTyped
    <3>2. \A k \in Links : link'[k] = right(k)
      BY <1>8, <1>9, <3>1 DEF Links
    <3> QED BY <3>1, <3>2 DEF LinksOK, At, V, Follows, right
  <2> QED BY <2>1, <2>2
<1>11. LinksFollowDefault'
  BY <1>6 DEF LinksFollowDefault, At
<1> QED BY <1>10, <1>11 DEF LInv

LEMMA ValidateLinks ==
  ASSUME IInv, LInv, Shipped', NEW p \in Procs, \A q \in Procs : q = p, Validate(p)
  PROVE  LInv'
<1>1. /\ proc[p].pc = "validate" /\ LinksOK(p) /\ proc \in [Procs -> Command]
      /\ link' = link /\ proc' = [proc EXCEPT ![p] = Idle] /\ last'.version = V(p)
  BY DEF Validate, End, At, LInv, IInv, TypeOK
<1>2. \A l \in Links : Follows(l, V(p))
  BY <1>1 DEF LinksOK, At
<1>3. LinksFollowDefault'
  BY <1>1, <1>2 DEF LinksFollowDefault, Follows
<1>4. LinksOK(p)'
  BY <1>1 DEF LinksOK, At, Idle
<1> QED BY <1>3, <1>4 DEF LInv

LEMMA OtherLinks ==
  ASSUME IInv, LInv, Shipped', NEW p \in Procs, \A q \in Procs : q = p,
         RemoveLink(p) \/ Stop(p) \/ StopWipe(p)
  PROVE  LInv'
<1>1. proc \in [Procs -> Command] /\ proc[p] \in Command
  BY DEF IInv, TypeOK
<1>2. CASE RemoveLink(p)
  <2>1. proc'[p].pc \in {"removeLinks", "list"}
    BY <1>1, <1>2 DEF RemoveLink, At, Command
  <2> QED BY <2>1 DEF LInv, LinksOK, LinksFollowDefault, At
<1>3. CASE Stop(p) \/ StopWipe(p)
  <2>1. End(p, "stopped")
    BY <1>3 DEF Stop, StopWipe
  <2>2. proc'[p].pc = "idle" /\ last'.what = "stopped"
    BY <1>1, <2>1 DEF End, Idle
  <2> QED BY <2>2 DEF LInv, LinksOK, LinksFollowDefault, At
<1> QED BY <1>2, <1>3

LEMMA LinksStep ==
  ASSUME IInv, LInv, ~CleanStops, \A p, q \in Procs : p = q, [Next]_vars
  PROVE  LInv'
<1>1. Shipped'
  BY ShippedStep DEF LInv
<1>2. ASSUME NEW p \in Procs,
             \/ \E v \in Versions, exact, setDefault \in BOOLEAN : StartUpdate(p, v, exact, setDefault)
             \/ \E keep \in BOOLEAN : StartClean(p, keep)
      PROVE  LInv'
  BY <1>1, <1>2, InstallQuiet, CleanQuiet, QuietLinks
<1>3. ASSUME NEW p \in Procs, Advance(p) PROVE LInv'
  <2>1. CASE FindPrevious(p) \/ Unlink(p) \/ Relink(p) \/ Validate(p) \/ RemoveLink(p)
    BY <1>1, <2>1, FindPreviousLinks, UnlinkLinks, RelinkLinks, ValidateLinks, OtherLinks
  <2>2. CASE ~(FindPrevious(p) \/ Unlink(p) \/ Relink(p) \/ Validate(p) \/ RemoveLink(p))
    <3>1. Quiet(p)
      BY <1>3, <2>2, DownloadQuiet, InstallQuiet, CleanQuiet DEF Advance
    <3> QED BY <1>1, <3>1, QuietLinks
  <2> QED BY <2>1, <2>2
<1>4. ASSUME NEW p \in Procs, Stop(p) \/ StopWipe(p) PROVE LInv'
  BY <1>1, <1>4, OtherLinks
<1>5. CASE UNCHANGED vars
  BY <1>1, <1>5 DEF vars, LInv, LinksOK, LinksFollowDefault, Follows, At, V, LinkAt
<1> QED BY <1>2, <1>3, <1>4, <1>5 DEF Next

(* After an update that reported a new default, every link names its        *)
(* version and tools it does not ship have none, whatever the links were    *)
(* when it began: if commands do not run at once, and no clean is stopped   *)
(* inside a directory, which may leave the compiler without its tools.      *)
THEOREM LinksFollowTheDefault ==
  ASSUME ~CleanStops, \A p, q \in Procs : p = q
  PROVE  Spec => []LinksFollowDefault
<1>1. Init => LInv
  BY DEF Init, LInv, Shipped, EmptyDirectory, NoFiles, LinksOK, LinksFollowDefault, At, Idle
<1>2. IInv /\ LInv /\ [Next]_vars => LInv'
  BY LinksStep
<1>3. LInv => LinksFollowDefault
  BY DEF LInv
<1> QED BY <1>1, <1>2, <1>3, Invariance, PTL DEF Spec

-----------------------------------------------------------------------------
(* Links of updates that race, as long as no command is stopped             *)

(* Downloads leave nothing behind but whole archives, so none fails.        *)
Downloads ==
  /\ \A v \in Versions :
       /\ disk[v].zip \in {NoFile, Archive}
       /\ disk[v].partial = NoFile \/ \E p \in Procs : At(p, "stream") /\ V(p) = v
  /\ \A p \in Procs :
       /\ At(p, "stream") => disk[V(p)].partial = [i \in 1 .. proc[p].next - 1 |-> i]
       /\ proc[p].pc \in {"clear", "extract"} => disk[V(p)].zip = Archive

(* Updates that have seen the compiler's link: they found one, or have      *)
(* linked their own compiler.                                               *)
SawCompiler(p) ==
  \/ proc[p].pc \in {"unlink", "validate"}
  \/ proc[p].pc \in {"find", "link"} /\ proc[p].tool # 0

(* Where there is no default, a command is about to make one or a clean     *)
(* runs, or no update has seen one.                                         *)
DefaultOwed ==
  \/ link[COMPILER_BIN] # NoVersion
  \/ \E p \in Procs : proc[p].pc \in Cleaning \/ (At(p, "link") /\ proc[p].tool = 0)
  \/ last.what \notin {"default", "failed"} /\ \A p \in Procs : ~SawCompiler(p)

DInv == stops = 0 => Downloads /\ DefaultOwed

-----------------------------------------------------------------------------
(* Downloads that nothing stops                                             *)

(* The directories of all versions but the one that p works on stay, and so *)
(* do the other commands.                                                   *)
LEMMA OwnDownload ==
  ASSUME IInv, Downloads, NEW p \in Procs, proc[p].pc \in Updating,
         NEW c, NEW d, proc' = [proc EXCEPT ![p] = c], disk' = [disk EXCEPT ![V(p)] = d],
         c = Idle \/ c.version = V(p),
         d.zip \in {NoFile, Archive},
         d.partial = NoFile \/ c.pc = "stream",
         c.pc = "stream" => c # Idle /\ d.partial = [i \in 1 .. c.next - 1 |-> i],
         c.pc \in {"clear", "extract"} => d.zip = Archive
  PROVE  Downloads'
<1> DEFINE v == V(p)
<1>1. v \in Versions /\ TypeOK /\ Separate /\ \A q \in Procs : CommandOK(q)
  BY Updater DEF IInv
<1>2. /\ proc'[p] = c /\ \A q \in Procs : q # p => proc'[q] = proc[q]
      /\ disk'[v] = d /\ \A w \in Versions : w # v => disk'[w] = disk[w]
  BY <1>1 DEF TypeOK
<1>3. \A q \in Procs : q # p /\ proc[q].pc \in Updating => V(q) \in Versions /\ V(q) # v
  BY <1>1 DEF Separate, CommandOK, UpdateOK, V
<1>4. ASSUME NEW w \in Versions
      PROVE  /\ disk'[w].zip \in {NoFile, Archive}
             /\ disk'[w].partial = NoFile \/ \E q \in Procs : proc'[q].pc = "stream" /\ proc'[q].version = w
  <2>1. CASE w = v
    BY <1>2, <2>1
  <2>2. CASE w # v
    <3>1. disk'[w] = disk[w]
      BY <1>2, <2>2
    <3>2. ASSUME NEW q \in Procs, At(q, "stream"), V(q) = w
          PROVE  proc'[q].pc = "stream" /\ proc'[q].version = w
      <4>1. q # p
        BY <2>2, <3>2
      <4> QED BY <1>2, <3>2, <4>1 DEF At, V
    <3> QED BY <3>1, <3>2 DEF Downloads
  <2> QED BY <2>1, <2>2
<1>5. ASSUME NEW q \in Procs
      PROVE  /\ proc'[q].pc = "stream" =>
                  disk'[proc'[q].version].partial = [i \in 1 .. proc'[q].next - 1 |-> i]
             /\ proc'[q].pc \in {"clear", "extract"} => disk'[proc'[q].version].zip = Archive
  <2>1. CASE q = p
    <3>1. c.pc \in {"stream", "clear", "extract"} => c.version = v
      BY DEF Idle
    <3> QED BY <1>2, <2>1, <3>1
  <2>2. CASE q # p
    <3>1. proc'[q] = proc[q]
      BY <1>2, <2>2
    <3>2. proc[q].pc \in {"stream", "clear", "extract"} => disk'[V(q)] = disk[V(q)]
      BY <1>2, <1>3, <2>2 DEF Updating
    <3> QED BY <3>1, <3>2 DEF Downloads, At, V
  <2> QED BY <2>1, <2>2
<1> QED BY <1>4, <1>5 DEF Downloads, At, V

LEMMA Downloader ==
  ASSUME IInv, Downloads, NEW p \in Procs, proc[p].pc \in Updating
  PROVE  /\ disk[V(p)].zip \in {NoFile, Archive}
         /\ disk[V(p)].partial = NoFile \/ At(p, "stream")
         /\ At(p, "stream") => disk[V(p)].partial = [i \in 1 .. proc[p].next - 1 |-> i]
         /\ proc[p].pc \in {"clear", "extract"} => disk[V(p)].zip = Archive
<1>1. V(p) \in Versions /\ Separate
  BY Updater DEF IInv
<1>2. ASSUME NEW q \in Procs, At(q, "stream"), V(q) = V(p) PROVE q = p
  BY <1>1, <1>2 DEF Separate, At, Updating
<1> QED BY <1>1, <1>2 DEF Downloads

LEMMA RequestDownloads ==
  ASSUME IInv, Downloads, NEW p \in Procs, RequestArchive(p)
  PROVE  Downloads' /\ last' = last
<1> DEFINE v == V(p)
           d == [disk[v] EXCEPT !.partial = <<>>]
           c == [proc[p] EXCEPT !.pc = "stream", !.next = 1]
<1>1. proc[p].pc = "request" /\ proc[p].pc \in Updating
  BY DEF RequestArchive, At, Updating
<1>2. /\ proc[p] \in Command /\ disk[v] \in Directory /\ proc[p].version = v
      /\ disk[v].zip \in {NoFile, Archive} /\ disk[v].partial = NoFile
  BY <1>1, Updater, Downloader DEF At
<1>3. proc' = [proc EXCEPT ![p] = c] /\ disk' = [disk EXCEPT ![v] = d] /\ last' = last
  <2> DEFINE partial == disk[v].partial
             from == IF partial = NoFile THEN 0 ELSE Len(partial)
  <2>1. PICK server \in Servers :
          IF server = "honours" /\ from >= Chunks
          THEN End(p, "failed") /\ UNCHANGED disk
          ELSE /\ proc' = [proc EXCEPT ![p].pc = "stream",
                             ![p].next = IF server = "honours" THEN from + 1 ELSE 1]
               /\ disk' = [disk EXCEPT ![v].partial = IF @ = NoFile THEN <<>> ELSE @]
               /\ UNCHANGED last
    BY DEF RequestArchive
  <2>2. from = 0 /\ ~(from >= Chunks) /\ from + 1 = 1
    BY <1>2, BoundsAssumption
  <2> HIDE DEF from
  <2>3. /\ proc' = [proc EXCEPT ![p].pc = "stream", ![p].next = 1]
        /\ disk' = [disk EXCEPT ![v].partial = IF @ = NoFile THEN <<>> ELSE @]
        /\ last' = last
    BY <2>1, <2>2
  <2> QED BY <1>2, <2>3
<1>4. c.pc = "stream" /\ c.version = v /\ c.next = 1 /\ d.zip = disk[v].zip /\ d.partial = <<>>
  BY <1>2 DEF Command, Directory
<1>5. d.partial = [i \in 1 .. c.next - 1 |-> i]
  BY <1>4
<1>6. c # Idle
  BY <1>4 DEF Idle
<1> HIDE DEF c, d
<1> QED BY <1>1, <1>2, <1>3, <1>4, <1>5, <1>6, OwnDownload

LEMMA ReceiveDownloads ==
  ASSUME IInv, Downloads, NEW p \in Procs, Receive(p)
  PROVE  Downloads'
<1> DEFINE v == V(p)
           n == proc[p].next
           y == Append(disk[v].partial, n)
           m == n + 1
           d == [disk[v] EXCEPT !.partial = y]
           c == [proc[p] EXCEPT !.next = m]
<1>1. /\ proc[p].pc = "stream" /\ proc[p].pc \in Updating
      /\ proc' = [proc EXCEPT ![p] = c] /\ disk' = [disk EXCEPT ![v] = d]
  BY DEF Receive, At, Updating
<1>2. /\ proc[p] \in Command /\ disk[v] \in Directory /\ proc[p].version = v
      /\ disk[v].zip \in {NoFile, Archive} /\ n \in 1 .. Chunks + 1
      /\ disk[v].partial = [i \in 1 .. n - 1 |-> i]
  BY <1>1, Updater, Downloader DEF At, UpdateOK
<1>3. y = [i \in 1 .. m - 1 |-> i]
  BY <1>2, BoundsAssumption
<1> HIDE DEF m, y
<1>4. c.pc = "stream" /\ c.version = v /\ c.next = m /\ d.zip = disk[v].zip /\ d.partial = y
  BY <1>1, <1>2 DEF Command, Directory
<1>5. c # Idle
  BY <1>4 DEF Idle
<1> HIDE DEF c, d
<1> QED BY <1>1, <1>2, <1>3, <1>4, <1>5, OwnDownload

LEMMA FinishDownloads ==
  ASSUME IInv, Downloads, NEW p \in Procs, FinishDownload(p)
  PROVE  Downloads'
<1> DEFINE v == V(p)
           n == proc[p].next
           d == [disk[v] EXCEPT !.zip = disk[v].partial, !.partial = NoFile]
           c == [proc[p] EXCEPT !.pc = "clear"]
<1>1. /\ proc[p].pc = "stream" /\ proc[p].pc \in Updating /\ n > Chunks
      /\ proc' = [proc EXCEPT ![p] = c] /\ disk' = [disk EXCEPT ![v] = d]
  BY DEF FinishDownload, Go, At, Updating
<1>2. /\ proc[p] \in Command /\ disk[v] \in Directory /\ proc[p].version = v
      /\ n \in 1 .. Chunks + 1
      /\ disk[v].partial = [i \in 1 .. n - 1 |-> i]
  BY <1>1, Updater, Downloader DEF At, UpdateOK
<1>3. n - 1 = Chunks
  <2>1. n > Chunks /\ n \in 1 .. Chunks + 1
    BY <1>1, <1>2
  <2> HIDE DEF n
  <2> QED BY <2>1, BoundsAssumption
<1>4. disk[v].partial = Archive
  BY <1>2, <1>3 DEF Archive
<1>5. c.pc = "clear" /\ c.version = v /\ d.zip = Archive /\ d.partial = NoFile
  BY <1>2, <1>4 DEF Command, Directory
<1> HIDE DEF c, d
<1> QED BY <1>1, <1>2, <1>5, OwnDownload

(* Steps that neither begin nor end a download, nor touch one.              *)
LEMMA KeepDownloads ==
  ASSUME IInv, Downloads, NEW p \in Procs, \A q \in Procs : q # p => proc'[q] = proc[q],
         ~At(p, "stream"), proc'[p].pc # "stream",
         \A v \in Versions : disk'[v].zip = disk[v].zip /\ disk'[v].partial = disk[v].partial,
         proc'[p].pc \in {"clear", "extract"} =>
           proc'[p].version \in Versions /\ disk[proc'[p].version].zip = Archive
  PROVE  Downloads'
<1>1. ASSUME NEW w \in Versions
      PROVE  /\ disk'[w].zip \in {NoFile, Archive}
             /\ disk'[w].partial = NoFile \/ \E q \in Procs : proc'[q].pc = "stream" /\ proc'[q].version = w
  BY DEF Downloads, At, V
<1>2. ASSUME NEW q \in Procs
      PROVE  /\ proc'[q].pc = "stream" =>
                  disk'[proc'[q].version].partial = [i \in 1 .. proc'[q].next - 1 |-> i]
             /\ proc'[q].pc \in {"clear", "extract"} => disk'[proc'[q].version].zip = Archive
  <2>1. CASE q = p
    BY <2>1
  <2>2. CASE q # p
    <3>1. proc'[q] = proc[q]
      BY <2>2
    <3>2. proc[q].pc \in {"stream", "clear", "extract"} => V(q) \in Versions
      BY Updater DEF Updating
    <3> QED BY <3>1, <3>2 DEF Downloads, At, V
  <2> QED BY <2>1, <2>2
<1> QED BY <1>1, <1>2 DEF Downloads, At, V

LEMMA ArchivesKept ==
  ASSUME IInv, NEW v \in Versions,
         \/ disk' = disk
         \/ \E x : disk' = [disk EXCEPT ![v].exists = x]
         \/ \E x : disk' = [disk EXCEPT ![v].incoming = x]
         \/ \E f, x : disk' = [disk EXCEPT ![v].incoming[f] = x]
         \/ \E f, x : disk' = [disk EXCEPT ![v].files[f] = x]
         \/ \E f, x, y : disk' = [disk EXCEPT ![v].files[f] = x, ![v].incoming[f] = y]
  PROVE  \A w \in Versions : disk'[w].zip = disk[w].zip /\ disk'[w].partial = disk[w].partial
<1>1. disk \in [Versions -> Directory] /\ disk[v] \in Directory
  BY DEF IInv, TypeOK
<1> DEFINE d == disk[v]
<1>2. ASSUME NEW e, e.zip = d.zip, e.partial = d.partial, disk' = [disk EXCEPT ![v] = e]
      PROVE  \A w \in Versions : disk'[w].zip = disk[w].zip /\ disk'[w].partial = disk[w].partial
  BY <1>1, <1>2
<1>3. ASSUME NEW x, disk' = [disk EXCEPT ![v].exists = x]
      PROVE  \A w \in Versions : disk'[w].zip = disk[w].zip /\ disk'[w].partial = disk[w].partial
  <2>1. [d EXCEPT !.exists = x].zip = d.zip /\ [d EXCEPT !.exists = x].partial = d.partial
    BY <1>1 DEF Directory
  <2>2. disk' = [disk EXCEPT ![v] = [d EXCEPT !.exists = x]]
    BY <1>3
  <2> QED BY <1>2, <2>1, <2>2
<1>4. ASSUME NEW x, NEW y,
             \/ disk' = [disk EXCEPT ![v] = [d EXCEPT !.incoming = y]]
             \/ disk' = [disk EXCEPT ![v] = [d EXCEPT !.files = x]]
             \/ disk' = [disk EXCEPT ![v] = [d EXCEPT !.files = x, !.incoming = y]]
      PROVE  \A w \in Versions : disk'[w].zip = disk[w].zip /\ disk'[w].partial = disk[w].partial
  <2>1. /\ [d EXCEPT !.incoming = y].zip = d.zip /\ [d EXCEPT !.incoming = y].partial = d.partial
        /\ [d EXCEPT !.files = x].zip = d.zip /\ [d EXCEPT !.files = x].partial = d.partial
        /\ [d EXCEPT !.files = x, !.incoming = y].zip = d.zip
        /\ [d EXCEPT !.files = x, !.incoming = y].partial = d.partial
    BY <1>1 DEF Directory
  <2> QED BY <1>2, <1>4, <2>1
<1>5. ASSUME NEW x, disk' = [disk EXCEPT ![v].incoming = x]
      PROVE  disk' = [disk EXCEPT ![v] = [d EXCEPT !.incoming = x]]
  BY <1>5
<1>6. ASSUME NEW f, NEW x, disk' = [disk EXCEPT ![v].incoming[f] = x]
      PROVE  \E y : disk' = [disk EXCEPT ![v] = [d EXCEPT !.incoming = y]]
  BY <1>6
<1>7. ASSUME NEW f, NEW x, disk' = [disk EXCEPT ![v].files[f] = x]
      PROVE  \E y : disk' = [disk EXCEPT ![v] = [d EXCEPT !.files = y]]
  BY <1>7
<1>8. ASSUME NEW f, NEW x, NEW y, disk' = [disk EXCEPT ![v].files[f] = x, ![v].incoming[f] = y]
      PROVE  \E g, i : disk' = [disk EXCEPT ![v] = [d EXCEPT !.files = g, !.incoming = i]]
  <2> DEFINE g == [d.files EXCEPT ![f] = x]
             i == [d.incoming EXCEPT ![f] = y]
  <2>1. disk' = [disk EXCEPT ![v] = [d EXCEPT !.files = g, !.incoming = i]]
    BY <1>1, <1>8 DEF Directory
  <2> QED BY <2>1
<1>9. CASE disk' = disk
  BY <1>9
<1>10. CASE \E x : disk' = [disk EXCEPT ![v].exists = x]
  BY <1>3, <1>10
<1>11. CASE \E x : disk' = [disk EXCEPT ![v].incoming = x]
  BY <1>4, <1>5, <1>11
<1>12. CASE \E f, x : disk' = [disk EXCEPT ![v].incoming[f] = x]
  BY <1>4, <1>6, <1>12
<1>13. CASE \E f, x : disk' = [disk EXCEPT ![v].files[f] = x]
  BY <1>4, <1>7, <1>13
<1>14. CASE \E f, x, y : disk' = [disk EXCEPT ![v].files[f] = x, ![v].incoming[f] = y]
  <2>1. PICK f, x, y : disk' = [disk EXCEPT ![v].files[f] = x, ![v].incoming[f] = y]
    BY <1>14
  <2>2. PICK g, i : disk' = [disk EXCEPT ![v] = [d EXCEPT !.files = g, !.incoming = i]]
    BY <1>8, <2>1
  <2> QED BY <1>4, <2>2
<1> QED BY <1>9, <1>10, <1>11, <1>12, <1>13, <1>14

LEMMA InstallDownloads ==
  ASSUME IInv, Downloads, NEW p \in Procs,
         \/ \E v \in Versions, exact, setDefault \in BOOLEAN : StartUpdate(p, v, exact, setDefault)
         \/ LoadArtifacts(p) \/ InstallDone(p)
  PROVE  Downloads'
<1>1. proc \in [Procs -> Command] /\ \A q \in Procs : q # p => proc'[q] = proc[q]
  BY InstallQuiet DEF IInv, TypeOK, Quiet
<1>2. ASSUME NEW v \in Versions, NEW setDefault \in BOOLEAN, AfterInstall(p, setDefault, v)
      PROVE  proc'[p].pc \in {"idle", "find"}
  <2> DEFINE c == [Idle EXCEPT !.pc = "find", !.version = v, !.setDefault = TRUE]
  <2>1. proc' = [proc EXCEPT ![p] = c] \/ proc' = [proc EXCEPT ![p] = Idle]
    BY <1>2 DEF AfterInstall
  <2>2. c.pc = "find" /\ Idle.pc = "idle"
    BY DEF Idle
  <2> HIDE DEF c
  <2> QED BY <1>1, <2>1, <2>2
<1>3. ASSUME NEW v \in Versions, NEW exact \in BOOLEAN, NEW setDefault \in BOOLEAN,
             StartUpdate(p, v, exact, setDefault)
      PROVE  Downloads'
  <2>1. disk' = disk /\ ~At(p, "stream")
    BY <1>3 DEF StartUpdate, At
  <2>2. AfterInstall(p, setDefault, v) \/ proc'[p].pc = "load"
    BY <1>1, <1>3 DEF StartUpdate, Idle
  <2>3. proc'[p].pc \in {"idle", "find", "load"}
    BY <1>2, <2>2
  <2> QED BY <1>1, <2>1, <2>3, KeepDownloads
<1>4. CASE LoadArtifacts(p)
  <2>1. proc[p].pc = "load" /\ proc[p].pc \in Updating /\ ~At(p, "stream")
    BY <1>4 DEF LoadArtifacts, At, Updating
  <2>2. /\ V(p) \in Versions /\ proc[p].setDefault \in BOOLEAN /\ proc[p] \in Command
        /\ disk[V(p)].zip \in {NoFile, Archive}
    BY <2>1, Updater, CommandTyped, Downloader
  <2>3. \/ AfterInstall(p, proc[p].setDefault, V(p))
        \/ Go(p, IF disk[V(p)].zip = NoFile THEN "request" ELSE "clear")
    BY <1>4 DEF LoadArtifacts
  <2>4. \/ proc'[p].pc \in {"idle", "find", "request"}
        \/ proc'[p].pc = "clear" /\ proc'[p].version = V(p) /\ disk[V(p)].zip = Archive
    <3>1. CASE AfterInstall(p, proc[p].setDefault, V(p))
      BY <1>2, <2>2, <3>1
    <3>2. CASE Go(p, "request") /\ disk[V(p)].zip = NoFile
      BY <1>1, <2>2, <3>2 DEF Go, Command
    <3>3. CASE Go(p, "clear") /\ disk[V(p)].zip # NoFile
      BY <1>1, <2>2, <3>3 DEF Go, Command, V
    <3> QED BY <2>3, <3>1, <3>2, <3>3
  <2>5. \A w \in Versions : disk'[w].zip = disk[w].zip /\ disk'[w].partial = disk[w].partial
    BY <1>4, <2>2, ArchivesKept DEF LoadArtifacts
  <2> QED BY <1>1, <2>1, <2>2, <2>4, <2>5, KeepDownloads
<1>5. CASE InstallDone(p)
  <2>1. /\ proc[p].pc = "place" /\ proc[p].pc \in Updating /\ ~At(p, "stream")
        /\ AfterInstall(p, proc[p].setDefault, V(p)) /\ disk' = disk
    BY <1>5 DEF InstallDone, At, Updating
  <2>2. V(p) \in Versions /\ proc[p].setDefault \in BOOLEAN
    BY <2>1, Updater, CommandTyped
  <2>3. proc'[p].pc \in {"idle", "find"}
    BY <1>2, <2>1, <2>2
  <2> QED BY <1>1, <2>1, <2>3, KeepDownloads
<1> QED BY <1>3, <1>4, <1>5

LEMMA UnpackDownloads ==
  ASSUME IInv, Downloads, NEW p \in Procs,
         \/ ClearIncoming(p) \/ (\E f \in Files : ExtractEntry(p, f)) \/ ExtractionDone(p)
         \/ (\E f \in Files : DiscardPrevious(p, f)) \/ MoveInto(p)
  PROVE  Downloads' /\ last' = last
<1>1. /\ proc[p].pc \in {"clear", "extract", "place"} /\ proc[p].pc \in Updating
      /\ ~At(p, "stream") /\ last' = last
  BY DEF ClearIncoming, ExtractEntry, ExtractionDone, DiscardPrevious, MoveInto, At, Updating
<1>2. /\ V(p) \in Versions /\ proc[p] \in Command /\ proc \in [Procs -> Command]
      /\ proc[p].pc \in {"clear", "extract"} => disk[V(p)].zip = Archive
  BY <1>1, Updater, Downloader DEF IInv, TypeOK
<1>3. /\ \A q \in Procs : q # p => proc'[q] = proc[q]
      /\ proc'[p].pc \in {"extract", "place"} /\ proc'[p].version = V(p)
      /\ proc'[p].pc = "extract" => proc[p].pc \in {"clear", "extract"}
  <2>1. ASSUME NEW x \in {"extract", "place"}, Go(p, x)
        PROVE  /\ \A q \in Procs : q # p => proc'[q] = proc[q]
               /\ proc'[p].pc = x /\ proc'[p].version = V(p)
    BY <1>2, <2>1 DEF Go, V, Command
  <2>2. CASE ClearIncoming(p) \/ ExtractionDone(p)
    BY <1>1, <2>1, <2>2 DEF ClearIncoming, ExtractionDone, At
  <2>3. CASE \E f \in Files : ExtractEntry(p, f)
    BY <1>1, <2>3 DEF ExtractEntry, At, V
  <2>4. CASE (\E f \in Files : DiscardPrevious(p, f)) \/ MoveInto(p)
    <3>1. /\ proc[p].pc = "place"
          /\ \E m : proc' = [proc EXCEPT ![p] = [proc[p] EXCEPT !.moving = m]]
      BY <2>4 DEF DiscardPrevious, MoveInto, At
    <3> QED BY <1>2, <3>1 DEF V, Command
  <2> QED BY <2>2, <2>3, <2>4
<1>4. \A w \in Versions : disk'[w].zip = disk[w].zip /\ disk'[w].partial = disk[w].partial
  <2>1. CASE ClearIncoming(p) \/ ExtractionDone(p)
    BY <1>2, <2>1, ArchivesKept DEF ClearIncoming, ExtractionDone
  <2>2. ASSUME NEW f \in Files, ExtractEntry(p, f)
        PROVE  \E x : disk' = [disk EXCEPT ![V(p)].incoming[f] = x]
    BY <2>2 DEF ExtractEntry
  <2>3. ASSUME NEW f \in Files, DiscardPrevious(p, f)
        PROVE  \E x : disk' = [disk EXCEPT ![V(p)].files[f] = x]
    BY <2>3 DEF DiscardPrevious
  <2>4. CASE \E f \in Files : ExtractEntry(p, f)
    BY <1>2, <2>2, <2>4, ArchivesKept
  <2>5. CASE \E f \in Files : DiscardPrevious(p, f)
    BY <1>2, <2>3, <2>5, ArchivesKept
  <2>6. CASE MoveInto(p)
    BY <1>2, <2>6, ArchivesKept DEF MoveInto
  <2> QED BY <2>1, <2>4, <2>5, <2>6
<1> QED BY <1>1, <1>2, <1>3, <1>4, KeepDownloads

LEMMA LinkDownloads ==
  ASSUME IInv, Downloads, NEW p \in Procs,
         \/ FindPrevious(p) \/ Unlink(p) \/ Relink(p) \/ Validate(p)
         \/ \E keep \in BOOLEAN : StartClean(p, keep)
         \/ RemoveLink(p) \/ ListVersions(p) \/ CleanDone(p)
  PROVE  Downloads'
<1>1. proc \in [Procs -> Command] /\ proc[p] \in Command
  BY DEF IInv, TypeOK
<1>2. disk' = disk /\ ~At(p, "stream")
  BY DEF FindPrevious, Unlink, Relink, Validate, StartClean, RemoveLink, ListVersions, CleanDone, At
<1>3. ASSUME NEW c, proc' = [proc EXCEPT ![p] = c], c.pc \notin {"stream", "clear", "extract"}
      PROVE  Downloads'
  BY <1>1, <1>2, <1>3, KeepDownloads
<1>4. ASSUME NEW what, End(p, what) PROVE Downloads'
  BY <1>3, <1>4 DEF End, Idle
<1>5. CASE FindPrevious(p) \/ Unlink(p)
  <2>1. \A x : [proc[p] EXCEPT !.pc = x].pc = x
    BY <1>1 DEF Command
  <2>2. ASSUME NEW x \in {"link", "unlink"}, Go(p, x) PROVE Downloads'
    BY <1>3, <2>1, <2>2 DEF Go
  <2> QED BY <1>4, <1>5, <2>2 DEF FindPrevious, Unlink
<1>6. CASE Relink(p)
  <2> DEFINE t == IF proc[p].tool < Len(Tools) THEN proc[p].tool + 1 ELSE proc[p].tool
             x == IF proc[p].tool < Len(Tools) THEN "find" ELSE "validate"
             c == [proc[p] EXCEPT !.tool = t, !.pc = x]
  <2>1. End(p, "failed") \/ proc' = [proc EXCEPT ![p] = c]
    BY <1>6 DEF Relink
  <2> HIDE DEF t
  <2>2. c.pc \in {"find", "validate"}
    BY <1>1 DEF Command
  <2> HIDE DEF c
  <2> QED BY <1>3, <1>4, <2>1, <2>2
<1>7. CASE Validate(p) \/ CleanDone(p)
  BY <1>4, <1>7 DEF Validate, CleanDone
<1>8. ASSUME NEW keep \in BOOLEAN, StartClean(p, keep) PROVE Downloads'
  <2> DEFINE x == IF keep THEN "list" ELSE "removeLinks"
             c == [Idle EXCEPT !.keep = keep, !.pc = x, !.version = link[COMPILER_BIN]]
  <2>1. proc' = [proc EXCEPT ![p] = c]
    BY <1>8 DEF StartClean
  <2>2. c.pc \in {"list", "removeLinks"}
    BY DEF Idle
  <2> HIDE DEF c
  <2> QED BY <1>3, <2>1, <2>2
<1>9. CASE RemoveLink(p)
  <2> DEFINE t == IF proc[p].tool < Len(Tools) THEN proc[p].tool + 1 ELSE proc[p].tool
             x == IF proc[p].tool < Len(Tools) THEN proc[p].pc ELSE "list"
             c == [proc[p] EXCEPT !.tool = t, !.pc = x]
  <2>1. proc' = [proc EXCEPT ![p] = c] /\ proc[p].pc = "removeLinks"
    BY <1>9 DEF RemoveLink, At
  <2> HIDE DEF t
  <2>2. c.pc \in {"removeLinks", "list"}
    BY <1>1, <2>1 DEF Command
  <2> HIDE DEF c
  <2> QED BY <1>3, <2>1, <2>2
<1>10. CASE ListVersions(p)
  <2>1. PICK w : proc' = [proc EXCEPT ![p] = [proc[p] EXCEPT !.pc = "wipe", !.wiping = w]]
    BY <1>10 DEF ListVersions
  <2>2. [proc[p] EXCEPT !.pc = "wipe", !.wiping = w].pc = "wipe"
    BY <1>1 DEF Command
  <2> QED BY <1>3, <2>1, <2>2
<1> QED BY <1>5, <1>6, <1>7, <1>8, <1>9, <1>10

(* A clean runs while nothing is downloaded.                                *)
LEMMA WipeDownloads ==
  ASSUME IInv, Downloads, NEW p \in Procs, WipeVersion(p)
  PROVE  Downloads'
<1>1. proc[p].pc = "wipe" /\ proc[p].pc \in Cleaning
  BY DEF WipeVersion, At, Cleaning
<1>2. /\ proc[p] \in Command /\ disk \in [Versions -> Directory] /\ proc \in [Procs -> Command]
      /\ \A q \in Procs : q # p => proc[q].pc = "idle"
  BY <1>1, Cleaner DEF IInv, TypeOK, At
<1>3. PICK v \in proc[p].wiping :
        /\ disk' = [disk EXCEPT ![v] = EmptyDirectory]
        /\ proc' = [proc EXCEPT ![p].wiping = @ \ {v}]
  BY DEF WipeVersion
<1>4. [proc[p] EXCEPT !.wiping = @ \ {v}].pc = "wipe"
  BY <1>1, <1>2 DEF Command
<1>5. \A q \in Procs : proc'[q].pc \in {"idle", "wipe"} /\ proc[q].pc \in {"idle", "wipe"}
  BY <1>1, <1>2, <1>3, <1>4
<1>6. EmptyDirectory.zip = NoFile /\ EmptyDirectory.partial = NoFile
  BY DEF EmptyDirectory
<1>7. ASSUME NEW u \in Versions
      PROVE  disk'[u].zip \in {NoFile, Archive} /\ disk'[u].partial = NoFile
  <2>1. disk[u].zip \in {NoFile, Archive} /\ disk[u].partial = NoFile
    BY <1>5 DEF Downloads, At
  <2> QED BY <1>2, <1>3, <1>6, <2>1
<1> QED BY <1>5, <1>7 DEF Downloads, At

-----------------------------------------------------------------------------
(* The default that some command owes                                       *)

(* Steps that leave the links alone, and report no failure.                 *)
LEMMA QuietOwes ==
  ASSUME IInv, DefaultOwed, NEW p \in Procs, Quiet(p),
         last' = last \/ last'.what \in {"installed", "cleaned"}
  PROVE  DefaultOwed'
<1>1. CASE link[COMPILER_BIN] # NoVersion
  BY <1>1 DEF Quiet, DefaultOwed
<1>2. CASE \E q \in Procs : proc[q].pc \in Cleaning \/ (At(q, "link") /\ proc[q].tool = 0)
  <2>1. PICK q \in Procs : proc[q].pc \in Cleaning \/ (At(q, "link") /\ proc[q].tool = 0)
    BY <1>2
  <2>2. CASE q # p
    BY <2>1, <2>2 DEF Quiet, DefaultOwed, At
  <2>3. CASE q = p
    <3>1. proc[p].pc \in Cleaning
      BY <2>1, <2>3 DEF Quiet, At
    <3>2. CASE proc'[p].pc \in Cleaning
      BY <3>2 DEF DefaultOwed
    <3>3. CASE last'.what = "cleaned" /\ proc'[p].pc \notin Cleaning
      <4>1. \A r \in Procs : r # p => proc'[r].pc = "idle"
        BY <3>1, Cleaner DEF Quiet, At
      <4>2. \A r \in Procs : ~SawCompiler(r)'
        BY <4>1 DEF Quiet, SawCompiler, At
      <4> QED BY <3>3, <4>2 DEF DefaultOwed
    <3> QED BY <3>1, <3>2, <3>3 DEF Quiet
  <2> QED BY <2>2, <2>3
<1>3. CASE last.what \notin {"default", "failed"} /\ \A q \in Procs : ~SawCompiler(q)
  <2>1. \A q \in Procs : ~SawCompiler(q)'
    BY <1>3 DEF Quiet, SawCompiler, At
  <2> QED BY <1>3, <2>1 DEF DefaultOwed
<1> QED BY <1>1, <1>2, <1>3 DEF DefaultOwed

(* Steps of an update that has seen the compiler's link.                    *)
LEMMA SeenOwes ==
  ASSUME IInv, DefaultOwed, NEW p \in Procs, SawCompiler(p),
         link'[COMPILER_BIN] = link[COMPILER_BIN],
         \A q \in Procs : q # p => proc'[q] = proc[q]
  PROVE  DefaultOwed'
<1>1. CASE link[COMPILER_BIN] # NoVersion
  BY <1>1 DEF DefaultOwed
<1>2. CASE \E q \in Procs : proc[q].pc \in Cleaning \/ (At(q, "link") /\ proc[q].tool = 0)
  <2>1. PICK q \in Procs : proc[q].pc \in Cleaning \/ (At(q, "link") /\ proc[q].tool = 0)
    BY <1>2
  <2>2. q # p
    BY <2>1 DEF SawCompiler, At, Cleaning
  <2> QED BY <2>1, <2>2 DEF DefaultOwed, At
<1> QED BY <1>1, <1>2 DEF DefaultOwed

LEMMA FindPreviousOwes ==
  ASSUME IInv, DefaultOwed, NEW p \in Procs, FindPrevious(p)
  PROVE  DefaultOwed'
<1> DEFINE x == IF link[LinkAt(p)] = NoVersion THEN "link" ELSE "unlink"
<1>1. proc[p].pc = "find" /\ proc[p].pc \in Updating /\ link' = link
  BY DEF FindPrevious, At, Updating
<1>2. /\ proc[p] \in Command /\ Installed(V(p)) /\ proc \in [Procs -> Command] /\ TypeOK
  BY <1>1, Updater DEF UpdateOK, Installed, IInv, TypeOK
<1>3. proc' = [proc EXCEPT ![p] = [proc[p] EXCEPT !.pc = x]]
  BY <1>2 DEF FindPrevious, Go
<1>4. proc'[p].pc = x /\ proc'[p].tool = proc[p].tool
  BY <1>2, <1>3 DEF Command
<1>5. CASE proc[p].tool = 0
  <2>1. LinkAt(p) = COMPILER_BIN
    BY <1>5 DEF LinkAt
  <2> QED BY <1>1, <1>4, <1>5, <2>1 DEF DefaultOwed, At
<1>6. CASE proc[p].tool # 0
  BY <1>1, <1>2, <1>3, <1>6, SeenOwes DEF SawCompiler
<1> QED BY <1>5, <1>6

LEMMA UnlinkOwes ==
  ASSUME IInv, DefaultOwed, NEW p \in Procs, Unlink(p)
  PROVE  DefaultOwed'
<1>1. proc[p].pc = "unlink" /\ SawCompiler(p)
  BY DEF Unlink, At, SawCompiler
<1>2. /\ proc[p] \in Command /\ proc \in [Procs -> Command]
      /\ link \in [Links -> Versions \cup {NoVersion}] /\ TypeOK
  BY DEF IInv, TypeOK
<1>3. CASE link[LinkAt(p)] = NoVersion
  <2>1. link' = link /\ \A q \in Procs : q # p => proc'[q] = proc[q]
    BY <1>2, <1>3 DEF Unlink, End
  <2> QED BY <1>1, <2>1, SeenOwes
<1>4. CASE link[LinkAt(p)] # NoVersion
  <2>1. /\ link' = [link EXCEPT ![LinkAt(p)] = NoVersion]
        /\ proc' = [proc EXCEPT ![p] = [proc[p] EXCEPT !.pc = "link"]]
    BY <1>4 DEF Unlink, Go
  <2>2. proc'[p].pc = "link" /\ proc'[p].tool = proc[p].tool
    BY <1>2, <2>1 DEF Command
  <2>3. CASE proc[p].tool = 0
    BY <2>2, <2>3 DEF DefaultOwed, At
  <2>4. CASE proc[p].tool # 0
    <3>1. link'[COMPILER_BIN] = link[COMPILER_BIN]
      BY <1>2, <2>1, <2>4, LinkAtTyped, ToolsTyped
    <3> QED BY <1>1, <1>2, <2>1, <3>1, SeenOwes
  <2> QED BY <2>3, <2>4
<1> QED BY <1>3, <1>4

LEMMA RelinkOwes ==
  ASSUME IInv, DefaultOwed, NEW p \in Procs, Relink(p)
  PROVE  DefaultOwed'
<1> DEFINE l == LinkAt(p)
<1>1. proc[p].pc = "link" /\ proc[p].pc \in Updating
  BY DEF Relink, At, Updating
<1>2. /\ Installed(V(p)) /\ proc \in [Procs -> Command] /\ V(p) \in Versions
      /\ link \in [Links -> Versions \cup {NoVersion}] /\ TypeOK /\ l \in Links
  BY <1>1, Updater, LinkAtTyped DEF UpdateOK, Installed, IInv, TypeOK
<1>3. CASE proc[p].tool = 0
  <2>1. l = COMPILER_BIN
    BY <1>2, <1>3, LinkAtTyped
  <2>2. IF link[l] # NoVersion THEN link' = link ELSE link' = [link EXCEPT ![l] = V(p)]
    BY <1>2, <2>1 DEF Relink, Installed
  <2>3. link'[COMPILER_BIN] # NoVersion
    BY <1>2, <2>1, <2>2, NamesAssumption
  <2> QED BY <2>3 DEF DefaultOwed
<1>4. CASE proc[p].tool # 0
  <2>1. l # COMPILER_BIN
    BY <1>2, <1>4, LinkAtTyped
  <2>2. link' = link \/ \E x : link' = [link EXCEPT ![l] = x]
    BY DEF Relink
  <2>3. link'[COMPILER_BIN] = link[COMPILER_BIN]
    BY <1>2, <2>1, <2>2, ToolsTyped
  <2>4. \E c : proc' = [proc EXCEPT ![p] = c]
    BY DEF Relink, End
  <2>5. \A q \in Procs : q # p => proc'[q] = proc[q]
    BY <1>2, <2>4
  <2> QED BY <1>1, <1>4, <2>3, <2>5, SeenOwes DEF SawCompiler
<1> QED BY <1>3, <1>4

LEMMA ValidateOwes ==
  ASSUME IInv, DefaultOwed, NEW p \in Procs, Validate(p)
  PROVE  DefaultOwed'
<1>1. SawCompiler(p) /\ link' = link
  BY DEF Validate, At, SawCompiler
<1>2. proc \in [Procs -> Command] /\ proc' = [proc EXCEPT ![p] = Idle]
  BY DEF Validate, End, IInv, TypeOK
<1>3. \A q \in Procs : q # p => proc'[q] = proc[q]
  BY <1>2
<1> QED BY <1>1, <1>3, SeenOwes

LEMMA RemoveLinkOwes ==
  ASSUME IInv, NEW p \in Procs, RemoveLink(p)
  PROVE  DefaultOwed'
<1> DEFINE t == IF proc[p].tool < Len(Tools) THEN proc[p].tool + 1 ELSE proc[p].tool
           x == IF proc[p].tool < Len(Tools) THEN proc[p].pc ELSE "list"
           c == [proc[p] EXCEPT !.tool = t, !.pc = x]
<1>1. proc' = [proc EXCEPT ![p] = c] /\ proc[p].pc = "removeLinks"
  BY DEF RemoveLink, At
<1>2. proc[p] \in Command /\ proc \in [Procs -> Command]
  BY DEF IInv, TypeOK
<1> HIDE DEF t
<1>3. c.pc \in Cleaning
  BY <1>1, <1>2 DEF Command, Cleaning
<1> HIDE DEF c
<1> QED BY <1>1, <1>2, <1>3 DEF DefaultOwed

-----------------------------------------------------------------------------
(* The step and the theorem                                                 *)

LEMMA OwedStep ==
  ASSUME IInv, stops = 0, Downloads, DefaultOwed, NEW p \in Procs, Advance(p)
  PROVE  Downloads' /\ DefaultOwed'
<1>1. CASE RequestArchive(p)
  BY <1>1, RequestDownloads, DownloadQuiet, QuietOwes
<1>2. CASE Receive(p)
  <2>1. last' = last
    BY <1>2 DEF Receive
  <2> QED BY <1>2, <2>1, ReceiveDownloads, DownloadQuiet, QuietOwes
<1>3. CASE FinishDownload(p)
  <2>1. last' = last
    BY <1>3 DEF FinishDownload
  <2> QED BY <1>3, <2>1, FinishDownloads, DownloadQuiet, QuietOwes
<1>4. CASE \/ ClearIncoming(p) \/ (\E f \in Files : ExtractEntry(p, f)) \/ ExtractionDone(p)
           \/ (\E f \in Files : DiscardPrevious(p, f)) \/ MoveInto(p)
  BY <1>4, UnpackDownloads, DownloadQuiet, QuietOwes
<1>5. ~ArchiveCorrupt(p)
  BY Downloader DEF ArchiveCorrupt, At, Updating
<1>6. CASE LoadArtifacts(p) \/ InstallDone(p)
  BY <1>6, InstallDownloads, InstallQuiet, QuietOwes
<1>7. CASE FindPrevious(p) \/ Unlink(p) \/ Relink(p) \/ Validate(p) \/ RemoveLink(p)
  BY <1>7, LinkDownloads, FindPreviousOwes, UnlinkOwes, RelinkOwes, ValidateOwes, RemoveLinkOwes
<1>8. CASE ListVersions(p) \/ WipeVersion(p) \/ CleanDone(p)
  BY <1>8, LinkDownloads, WipeDownloads, CleanQuiet, QuietOwes
<1> QED BY <1>1, <1>2, <1>3, <1>4, <1>5, <1>6, <1>7, <1>8 DEF Advance

LEMMA DefaultsStep ==
  ASSUME IInv, DInv, [Next]_vars
  PROVE  DInv'
<1> SUFFICES ASSUME stops' = 0 PROVE Downloads' /\ DefaultOwed'
  BY DEF DInv
<1>1. stops \in Nat
  BY BoundsAssumption DEF IInv, TypeOK
<1>2. ASSUME NEW p \in Procs PROVE ~Stop(p) /\ ~StopWipe(p)
  <2>1. Stop(p) \/ StopWipe(p) => stops' = stops + 1
    BY DEF Stop, StopWipe
  <2> QED BY <1>1, <2>1
<1>3. stops = 0 /\ Downloads /\ DefaultOwed
  <2>1. ASSUME NEW p \in Procs, Advance(p) PROVE stops' = stops
    BY <2>1 DEF Advance, LoadArtifacts, RequestArchive, Receive, FinishDownload, ClearIncoming,
       ExtractEntry, ExtractionDone, ArchiveCorrupt, DiscardPrevious, MoveInto, InstallDone,
       FindPrevious, Unlink, Relink, Validate, RemoveLink, ListVersions, WipeVersion, CleanDone
  <2>2. stops' = stops
    BY <1>2, <2>1 DEF Next, vars, StartUpdate, StartClean
  <2> QED BY <2>2 DEF DInv
<1>4. ASSUME NEW p \in Procs, Advance(p) PROVE Downloads' /\ DefaultOwed'
  BY <1>3, <1>4, OwedStep
<1>5. ASSUME NEW p \in Procs,
             \/ \E v \in Versions, exact, setDefault \in BOOLEAN : StartUpdate(p, v, exact, setDefault)
             \/ \E keep \in BOOLEAN : StartClean(p, keep)
      PROVE  Downloads' /\ DefaultOwed'
  BY <1>3, <1>5, InstallDownloads, InstallQuiet, LinkDownloads, CleanQuiet, QuietOwes
<1>6. CASE UNCHANGED vars
  BY <1>3, <1>6 DEF vars, Downloads, DefaultOwed, SawCompiler, At, V
<1> QED BY <1>2, <1>4, <1>5, <1>6 DEF Next

(* When all updates have ended, none of them stopped half-way, and the last *)
(* one made a default or failed to, there is a default: an update that      *)
(* takes the compiler's link away (set_current_compiler) makes it again or  *)
(* finds that another one did, and one that fails to remove the link it     *)
(* found leaves that to the one that was faster, however many race.         *)
THEOREM UpdatesLeaveSomeDefault == Spec => []UpdatesLeaveADefault
<1>1. Init => DInv
  BY EmptyTyped DEF Init, DInv, Downloads, DefaultOwed, SawCompiler, At, Idle, EmptyDirectory,
     Cleaning
<1>2. IInv /\ DInv /\ [Next]_vars => DInv'
  BY DefaultsStep
<1>3. DInv => UpdatesLeaveADefault
  BY DEF DInv, DefaultOwed, UpdatesLeaveADefault, At, Cleaning
<1> QED BY <1>1, <1>2, <1>3, Invariance, PTL DEF Spec
=============================================================================
