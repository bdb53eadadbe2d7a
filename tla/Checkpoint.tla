----------------------------- MODULE Checkpoint -----------------------------
(***************************************************************************)
(* The state of the plugins from one process to the next: the checkpoint   *)
(* manager with its files, the part of load_atom that restores a plugin,   *)
(* and the part of the shutdown chain that saves one.                      *)
(*                                                                         *)
(* The save handler is cut at its system calls, because the process may    *)
(* end between any two of them.  A file holds the state of a plugin and is *)
(* whole, or cut in its header or in its data; what the CRC covers is      *)
(* taken to be detected.  External: the file system, which keeps what the  *)
(* process has written when only the process ends, and loses what it has   *)
(* not yet written back when the machine does.                             *)
(***************************************************************************)
EXTENDS Integers, Sequences, FiniteSets

CONSTANTS
  Plugins,
  MaxState,          \* bound: states a plugin goes through, 1 .. MaxState
  MaxStarts,         \* bound: starts of the process
  PowerMayFail       \* the machine may go down

ASSUME CheckpointAssumption ==
  /\ MaxState \in Nat /\ MaxStarts \in Nat
  /\ PowerMayFail \in BOOLEAN

Empty == 0        \* no bytes: also the state of a plugin that starts afresh
Garbled == -1     \* bytes that no plugin has saved
Unknown == -2     \* what the machine kept of a save is not known
NoFile == [data |-> Empty, cut |-> "none"]
Whole(d) == [data |-> d, cut |-> "no"]
CutFiles(f) == {[f EXCEPT !.cut = c] : c \in {"header", "data", "no"}}

VARIABLES
  proc,     \* the process: "down", "running" or "stopping"
  starts,   \* starts of the process
  at,       \* per plugin: "off", "asked", "up", "saving" or "stopped"
  mem,      \* per plugin: its state
  inbox,    \* mailbox of the checkpoint manager
  step,     \* where its save handler is: "idle", "opened" or "written"
  reply,    \* its answers that somebody waits for
  file,     \* <name>.ckpt
  tmp,      \* <name>.ckpt.tmp
  durable,  \* <name>.ckpt as it is on the disk itself
  \* history
  offered,  \* per plugin: the states it was asked to save
  acked,    \* per plugin: the last state whose save succeeded
  emptied   \* plugins that were stopped since with nothing to save

vars == <<proc, starts, at, mem, inbox, step, reply, file, tmp, durable,
          offered, acked, emptied>>
disk == <<file, tmp, durable>>
history == <<offered, acked, emptied>>

Init ==
  /\ proc = "down" /\ starts = 0
  /\ at = [p \in Plugins |-> "off"]
  /\ mem = [p \in Plugins |-> Empty]
  /\ inbox = << >> /\ step = "idle" /\ reply = {}
  /\ file = [p \in Plugins |-> NoFile]
  /\ tmp = file /\ durable = file
  /\ offered = [p \in Plugins |-> {}]
  /\ acked = [p \in Plugins |-> Empty]
  /\ emptied = {}

-----------------------------------------------------------------------------
(* The plugin manager: load_atom.                                          *)

Start ==
  /\ proc = "down" /\ starts < MaxStarts
  /\ proc' = "running" /\ starts' = starts + 1
  /\ UNCHANGED <<at, mem, inbox, step, reply, disk, history>>

\* load_atom asks for the state and blocks.
Load(p) ==
  /\ proc = "running" /\ at[p] = "off"
  /\ \A q \in Plugins : at[q] # "asked"
  /\ at' = [at EXCEPT ![p] = "asked"]
  /\ inbox' = Append(inbox, [kind |-> "restore", plugin |-> p, data |-> Empty])
  /\ UNCHANGED <<proc, starts, mem, step, reply, disk, history>>

\* The answer: the plugin is spawned and restored, if there is a state.
Loaded(p) ==
  /\ at[p] = "asked"
  /\ \E r \in reply :
       /\ r.plugin = p
       /\ mem' = [mem EXCEPT ![p] = r.data]
       /\ reply' = reply \ {r}
  /\ at' = [at EXCEPT ![p] = "up"]
  /\ UNCHANGED <<proc, starts, inbox, step, disk, history>>

\* No answer within two seconds: the error is dropped, and the plugin is
\* spawned without a state.
LoadTimesOut(p) ==
  /\ at[p] = "asked"
  /\ at' = [at EXCEPT ![p] = "up"]
  /\ mem' = [mem EXCEPT ![p] = Empty]
  /\ reply' = {r \in reply : r.plugin # p}
  /\ UNCHANGED <<proc, starts, inbox, step, disk, history>>

\* The plugin works, also while its snapshot is being written.
Change(p) ==
  /\ proc # "down" /\ at[p] \in {"up", "saving"}
  /\ \/ mem[p] < MaxState /\ mem' = [mem EXCEPT ![p] = @ + 1]
     \/ mem[p] # Empty /\ mem' = [mem EXCEPT ![p] = Empty]
  /\ UNCHANGED <<proc, starts, at, inbox, step, reply, disk, history>>

-----------------------------------------------------------------------------
(* The shutdown coordinator: one plugin after the other (stop_next).       *)

Shutdown ==
  /\ proc = "running" /\ \A p \in Plugins : at[p] = "up"
  /\ proc' = "stopping"
  /\ UNCHANGED <<starts, at, mem, inbox, step, reply, disk, history>>

\* save_state is answered; bytes are handed to the checkpoint manager.
StopPlugin(p) ==
  /\ proc = "stopping" /\ at[p] = "up"
  /\ \A q \in Plugins : at[q] # "saving"
  /\ IF mem[p] = Empty
       THEN /\ at' = [at EXCEPT ![p] = "stopped"]
            /\ emptied' = emptied \cup {p}
            /\ UNCHANGED <<inbox, offered>>
       ELSE /\ at' = [at EXCEPT ![p] = "saving"]
            /\ inbox' = Append(inbox, [kind |-> "save", plugin |-> p,
                                       data |-> mem[p]])
            /\ offered' = [offered EXCEPT ![p] = @ \cup {mem[p]}]
            /\ UNCHANGED emptied
  /\ UNCHANGED <<proc, starts, mem, step, reply, disk, acked>>

\* save_state fails: the plugin is stopped all the same.
StopUnsaved(p) ==
  /\ proc = "stopping" /\ at[p] = "up"
  /\ \A q \in Plugins : at[q] # "saving"
  /\ at' = [at EXCEPT ![p] = "stopped"]
  /\ UNCHANGED <<proc, starts, mem, inbox, step, reply, disk, history>>

\* The checkpoint manager has answered; the bool is not looked at.
PluginStopped(p) ==
  /\ at[p] = "saving"
  /\ \E r \in reply : r.plugin = p /\ reply' = reply \ {r}
  /\ at' = [at EXCEPT ![p] = "stopped"]
  /\ UNCHANGED <<proc, starts, mem, inbox, step, disk, history>>

Exit ==
  /\ proc = "stopping" /\ \A p \in Plugins : at[p] = "stopped"
  /\ proc' = "down"
  /\ at' = [p \in Plugins |-> "off"] /\ mem' = [p \in Plugins |-> Empty]
  /\ inbox' = << >> /\ step' = "idle" /\ reply' = {}
  /\ UNCHANGED <<starts, disk, history>>

-----------------------------------------------------------------------------
(* The checkpoint manager.                                                 *)

Job == Head(inbox)
Handling(kind, s) == inbox # << >> /\ Job.kind = kind /\ step = s

\* The handler ends with an answer, which a request that has timed out does
\* not take any more.
Return(d) ==
  /\ inbox' = Tail(inbox) /\ step' = "idle"
  /\ reply' = IF at[Job.plugin] = IF Job.kind = "save" THEN "saving" ELSE "asked"
                THEN reply \cup {[plugin |-> Job.plugin, data |-> d]}
              ELSE reply

\* save_state_atom: the temporary file is opened and loses what it held, ...
SaveOpens ==
  /\ Handling("save", "idle")
  /\ step' = "opened"
  /\ tmp' = [tmp EXCEPT ![Job.plugin] = [data |-> Job.data, cut |-> "header"]]
  /\ UNCHANGED <<proc, starts, at, mem, inbox, reply, file, durable, history>>

\* ... written in one piece or several, and flushed, ...
SaveWrites ==
  /\ Handling("save", "opened")
  /\ \E c \in {"data", "no"} :
       /\ tmp' = [tmp EXCEPT ![Job.plugin].cut = c]
       /\ step' = IF c = "no" THEN "written" ELSE "opened"
  /\ UNCHANGED <<proc, starts, at, mem, inbox, reply, file, durable, history>>

\* Mutant: the temporary file is renamed although the disk is full.
RenameUnflushed ==
  /\ step \in {"opened", "written"} /\ Handling("save", step)
  /\ file' = [file EXCEPT ![Job.plugin] = tmp[Job.plugin]]
  /\ tmp' = [tmp EXCEPT ![Job.plugin] = NoFile]
  /\ acked' = [acked EXCEPT ![Job.plugin] = Job.data]
  /\ emptied' = emptied \ {Job.plugin}
  /\ Return(Empty)
  /\ UNCHANGED <<proc, starts, at, mem, durable, offered>>

\* ... and takes the place of the checkpoint.
SaveRenames ==
  /\ Handling("save", "written")
  /\ file' = [file EXCEPT ![Job.plugin] = tmp[Job.plugin]]
  /\ tmp' = [tmp EXCEPT ![Job.plugin] = NoFile]
  /\ acked' = [acked EXCEPT ![Job.plugin] = Job.data]
  /\ emptied' = emptied \ {Job.plugin}
  /\ Return(Empty)
  /\ UNCHANGED <<proc, starts, at, mem, durable, offered>>

\* Mutant: the checkpoint is removed with what a failed save has left.
FailRemoves ==
  /\ inbox # << >> /\ Job.kind = "save"
  /\ Return(Empty)
  /\ tmp' = [tmp EXCEPT ![Job.plugin] = NoFile]
  /\ file' = [file EXCEPT ![Job.plugin] = NoFile]
  /\ UNCHANGED <<proc, starts, at, mem, durable, history>>

\* Any of the steps fails, the disk being full for instance: false.
SaveFails ==
  /\ inbox # << >> /\ Job.kind = "save"
  /\ Return(Empty)
  /\ UNCHANGED <<proc, starts, at, mem, disk, history>>

\* restore_state_atom, what it makes of a file: bad magic, another version, a
\* short header, truncated data and a wrong CRC give nothing.
Read(f) == IF f.cut = "no" THEN f.data ELSE Empty

Restores ==
  /\ Handling("restore", "idle")
  /\ Return(Read(file[Job.plugin]))
  /\ UNCHANGED <<proc, starts, at, mem, disk, history>>

-----------------------------------------------------------------------------
(* The process, the machine and the operating system.                      *)

Ends ==
  /\ proc # "down" /\ proc' = "down"
  /\ at' = [p \in Plugins |-> "off"] /\ mem' = [p \in Plugins |-> Empty]
  /\ inbox' = << >> /\ step' = "idle" /\ reply' = {}
  /\ UNCHANGED <<starts, offered, emptied>>

\* The process is killed or crashes.
Crash ==
  /\ Ends
  /\ UNCHANGED <<disk, acked>>

\* The operating system writes a file back.
WriteBack(p) ==
  /\ durable[p] # file[p]
  /\ durable' = [durable EXCEPT ![p] = file[p]]
  /\ UNCHANGED <<proc, starts, at, mem, inbox, step, reply, file, tmp, history>>

\* The machine goes down: of a file that was not written back, the disk has
\* the earlier one, or the new one as far as it got.
PowerFails ==
  /\ PowerMayFail /\ Ends
  /\ file' \in [Plugins -> UNION {CutFiles(file[p]) \cup {durable[p]} : p \in Plugins}]
  /\ \A p \in Plugins :
       file'[p] \in IF durable[p] = file[p] THEN {file[p]}
                    ELSE CutFiles(file[p]) \cup {durable[p]}
  /\ durable' = file'
  /\ tmp' = [p \in Plugins |-> NoFile]
  /\ acked' = [p \in Plugins |-> IF file'[p] = file[p] THEN acked[p] ELSE Unknown]

-----------------------------------------------------------------------------
Next ==
  \/ Start \/ Shutdown \/ Exit
  \/ \E p \in Plugins :
       \/ Load(p) \/ Loaded(p) \/ LoadTimesOut(p) \/ Change(p)
       \/ StopPlugin(p) \/ StopUnsaved(p) \/ PluginStopped(p)
       \/ WriteBack(p)
  \/ SaveOpens \/ SaveWrites \/ SaveRenames \/ SaveFails \/ Restores
  \/ Crash \/ PowerFails

Spec == Init /\ [][Next]_vars

-----------------------------------------------------------------------------
(* Properties.                                                             *)

States == 1 .. MaxState
Files == [data : States, cut : {"header", "data", "no"}] \cup {NoFile}
Jobs == [kind : {"restore"}, plugin : Plugins, data : {Empty}]
        \cup [kind : {"save"}, plugin : Plugins, data : States]

\* Types; and a plugin never runs with bytes that nobody has saved: a file that
\* was cut short is refused as a whole.
TypeOK ==
  /\ proc \in {"down", "running", "stopping"}
  /\ starts \in 0 .. MaxStarts
  /\ at \in [Plugins -> {"off", "asked", "up", "saving", "stopped"}]
  /\ mem \in [Plugins -> States \cup {Empty}]
  /\ inbox \in Seq(Jobs)
  /\ step \in {"idle", "opened", "written"}
  /\ reply \subseteq [plugin : Plugins, data : States \cup {Empty}]
  /\ {file, tmp, durable} \subseteq [Plugins -> Files]
  /\ offered \in [Plugins -> SUBSET States]
  /\ acked \in [Plugins -> States \cup {Empty, Unknown}]

FilesInv ==
  \A p \in Plugins :
    /\ acked[p] # Unknown => Read(file[p]) = acked[p]
    /\ file[p] = durable[p] \/ file[p].cut = "no"
    /\ \A f \in {file[p], tmp[p], durable[p]} : f = NoFile \/ f.data \in offered[p]
InboxInv ==
  /\ \A i \in DOMAIN inbox :
       inbox[i].kind = "save" =>
         proc = "stopping" /\ inbox[i].data \in offered[inbox[i].plugin]
  /\ \A p \in Plugins : at[p] = "asked" => proc = "running"
ReplyInv ==
  \A r \in reply :
    /\ at[r.plugin] # "off"
    /\ at[r.plugin] = "asked" => r.data = Read(file[r.plugin])
StepInv ==
  /\ step # "idle" => inbox # << >> /\ Job.kind = "save"
  /\ step = "opened" => tmp[Job.plugin].data = Job.data
  /\ step = "written" => tmp[Job.plugin] = Whole(Job.data)

\* Why nothing is lost: what a save in progress has written, where the bytes
\* of the files come from, and that no save runs beside a restore, so that an
\* answer to a plugin that still waits for it is not out of date.
DiskInv == FilesInv /\ InboxInv /\ ReplyInv /\ StepInv

\* "先写入临时文件，再原子 rename（防止写一半崩溃）" (checkpoint_manager.cpp:81):
\* a save that succeeded stays on disk, whole, through crashes of the process
\* and through later saves that fail or are interrupted.
SavedStays ==
  \A p \in Plugins : acked[p] \in States => file[p] = Whole(acked[p])

\* A plugin starts, with an answer to its request or without.
Starts(p) == at[p] = "asked" /\ at'[p] = "up"

\* "状态由内核的 CheckpointManager 落盘…下次启动自动恢复" (plugin-guide.md:307):
\* a plugin whose restore is answered goes on with the last state whose save
\* succeeded, however the processes in between have ended.
Resumes ==
  [][\A p \in Plugins :
       Loaded(p) /\ acked[p] # Unknown => mem'[p] = acked[p]]_vars

\* A plugin starts with a state that it was stopped in once, or afresh, also
\* when the machine went down before the file was on the disk.
OwnState ==
  [][\A p \in Plugins :
       Starts(p) => mem'[p] \in offered[p] \cup {Empty}]_vars

Pending(p) ==
  {inbox[i].data : i \in {j \in DOMAIN inbox :
                            inbox[j].kind = "save" /\ inbox[j].plugin = p}}
Running == {p \in Plugins : at[p] \in {"up", "saving", "stopped"}}
PendingStates == [p \in Plugins |-> Pending(p)]
SavedStates == [p \in Plugins |-> Read(file[p])]
StableStates == [p \in Plugins |-> Read(durable[p])]
Vault == INSTANCE StateVault WITH
  on <- Running, work <- mem, pending <- PendingStates,
  vault <- SavedStates, stable <- StableStates

\* The files, the handlers and the chain together implement StateVault: a
\* checkpoint changes at once, by a save of its own plugin and to the state of
\* the snapshot, whenever the process ends and whatever fails.
AtomicSaves == Vault!Spec

\* The same without the timeout of the request: every start of a plugin goes
\* on with the last state whose save succeeded.
AlwaysResumes ==
  [][\A p \in Plugins :
       Starts(p) /\ acked[p] # Unknown => mem'[p] = acked[p]]_vars

\* A plugin that had nothing to save when it was stopped starts with nothing.
NoRevival ==
  [][\A p \in Plugins : Starts(p) /\ p \in emptied => mem'[p] = Empty]_vars
=============================================================================
