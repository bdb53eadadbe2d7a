-------------------------- MODULE CheckpointProofs --------------------------
(***************************************************************************)
(* Proofs about Checkpoint for any set of plugins and any number of states *)
(* and starts, with a machine that may go down.                            *)
(***************************************************************************)
EXTENDS Checkpoint, TLAPS

-----------------------------------------------------------------------------
(* Mailboxes and files.                                                    *)

\* What Append does to a sequence.
LEMMA AppendFacts ==
  ASSUME NEW S, NEW s \in Seq(S), NEW e \in S
  PROVE  /\ Append(s, e) \in Seq(S) /\ Append(s, e) # << >>
         /\ DOMAIN Append(s, e) = 1 .. Len(s) + 1 /\ DOMAIN s = 1 .. Len(s)
         /\ \A i \in 1 .. Len(s) : Append(s, e)[i] = s[i]
         /\ Append(s, e)[Len(s) + 1] = e
         /\ s # << >> => Head(Append(s, e)) = Head(s)
         /\ s = << >> => Head(Append(s, e)) = e
OBVIOUS

\* What Tail does to a sequence.
LEMMA TailFacts ==
  ASSUME NEW S, NEW s \in Seq(S), s # << >>
  PROVE  /\ Head(s) \in S /\ Head(s) = s[1] /\ 1 \in DOMAIN s
         /\ Tail(s) \in Seq(S)
         /\ \A i \in DOMAIN Tail(s) : i + 1 \in DOMAIN s /\ Tail(s)[i] = s[i + 1]
OBVIOUS

\* The fields of a file.
LEMMA FileFacts ==
  ASSUME NEW f \in Files
  PROVE  /\ Read(f) \in States \cup {Empty}
         /\ f # NoFile => f.data \in States
         /\ Read(f) \in States => f = Whole(f.data) /\ f.data = Read(f)
BY CheckpointAssumption DEF Files, Read, NoFile, Whole, States, Empty

\* How far a file is written does not change what it is to hold.
LEMMA CutFacts ==
  ASSUME NEW f \in Files, f # NoFile, NEW c \in {"header", "data", "no"}
  PROVE  LET g == [f EXCEPT !.cut = c]
         IN  g \in Files /\ g.data = f.data /\ g.cut = c
BY DEF Files

\* A file written to the end is valid and holds its state.
LEMMA WholeFacts ==
  ASSUME NEW d \in States
  PROVE  /\ Whole(d) \in Files /\ Whole(d) # NoFile /\ Whole(d).data = d
         /\ Whole(d).cut = "no"
         /\ Read(Whole(d)) = d /\ d # Empty /\ d # Unknown
         /\ [data |-> d, cut |-> "header"] \in Files
         /\ [data |-> d, cut |-> "header"].data = d
BY CheckpointAssumption
   DEF Files, Read, NoFile, Whole, States, Empty, Unknown

\* The fields of a request to the checkpoint manager.
LEMMA JobFacts ==
  ASSUME NEW j \in Jobs
  PROVE  /\ j.plugin \in Plugins /\ j.kind \in {"save", "restore"}
         /\ j.kind = "save" => j.data \in States
BY DEF Jobs

\* Nothing is read from a file that is not there.
LEMMA NoFileFacts ==
  NoFile \in Files /\ Read(NoFile) = Empty /\ Empty # Unknown
BY DEF NoFile, Files, Read, Empty, Unknown

\* The types, variable by variable.
LEMMA TypeFacts ==
  ASSUME TypeOK
  PROVE  /\ file \in [Plugins -> Files] /\ tmp \in [Plugins -> Files]
         /\ durable \in [Plugins -> Files] /\ inbox \in Seq(Jobs)
         /\ at \in [Plugins -> {"off", "asked", "up", "saving", "stopped"}]
         /\ mem \in [Plugins -> States \cup {Empty}]
         /\ offered \in [Plugins -> SUBSET States]
         /\ acked \in [Plugins -> States \cup {Empty, Unknown}]
         /\ \A r \in reply : r.plugin \in Plugins /\ r.data \in States \cup {Empty}
BY DEF TypeOK

-----------------------------------------------------------------------------
Inv == TypeOK /\ DiskInv

\* The invariant holds at the first boot.
LEMMA InvInit == Init => Inv
<1> SUFFICES ASSUME Init PROVE Inv
  OBVIOUS
<1>1. TypeOK
  BY NoFileFacts, CheckpointAssumption DEF Init, TypeOK
<1>2. FilesInv
  BY NoFileFacts DEF Init, FilesInv
<1>3. InboxInv /\ ReplyInv /\ StepInv
  BY DEF Init, InboxInv, ReplyInv, StepInv
<1> QED BY <1>1, <1>2, <1>3 DEF Inv, DiskInv

\* The end of a handler: its answer is that of the file, and nothing of the
\* mailbox but the job itself is gone.
LEMMA ReturnInv ==
  ASSUME Inv, inbox # << >>, NEW d \in States \cup {Empty}, Return(d),
         UNCHANGED <<proc, at, offered>>,
         \A p \in Plugins : at[p] = "asked" => Read(file'[p]) = Read(file[p]),
         Job.kind = "restore" => d = Read(file'[Job.plugin])
  PROVE  /\ inbox' \in Seq(Jobs)
         /\ reply' \subseteq [plugin : Plugins, data : States \cup {Empty}]
         /\ step' = "idle" /\ InboxInv' /\ ReplyInv' /\ StepInv'
<1>1. /\ inbox \in Seq(Jobs) /\ InboxInv /\ ReplyInv
      /\ reply \subseteq [plugin : Plugins, data : States \cup {Empty}]
  BY DEF Inv, DiskInv, TypeOK
<1>2. /\ Job \in Jobs /\ Tail(inbox) \in Seq(Jobs)
      /\ \A i \in DOMAIN Tail(inbox) :
           i + 1 \in DOMAIN inbox /\ Tail(inbox)[i] = inbox[i + 1]
  BY <1>1, TailFacts DEF Job
<1>3. Job.plugin \in Plugins /\ Job.kind \in {"save", "restore"}
  BY <1>2, JobFacts
<1>4. inbox' = Tail(inbox) /\ step' = "idle"
  BY DEF Return
<1> DEFINE a == [plugin |-> Job.plugin, data |-> d]
<1>5. /\ a \in [plugin : Plugins, data : States \cup {Empty}]
      /\ a.plugin = Job.plugin /\ a.data = d
  BY <1>3
<1>6. \/ reply' = reply
      \/ /\ reply' = reply \cup {a}
         /\ at[Job.plugin] = IF Job.kind = "save" THEN "saving" ELSE "asked"
  BY DEF Return
<1> HIDE DEF a
<1>7. InboxInv'
  BY <1>1, <1>2, <1>4 DEF InboxInv
<1>8. \A r \in reply : /\ at'[r.plugin] # "off"
                       /\ at'[r.plugin] = "asked" => r.data = Read(file'[r.plugin])
  BY <1>1 DEF ReplyInv
<1>9. a \in reply' /\ a \notin reply =>
        /\ at'[a.plugin] # "off"
        /\ at'[a.plugin] = "asked" => a.data = Read(file'[a.plugin])
  BY <1>3, <1>5, <1>6
<1>10. ReplyInv'
  BY <1>6, <1>8, <1>9 DEF ReplyInv
<1>11. StepInv'
  BY <1>4 DEF StepInv
<1> QED BY <1>1, <1>2, <1>4, <1>5, <1>6, <1>7, <1>10, <1>11

\* A new message at the end of the mailbox.
LEMMA SendInv ==
  ASSUME Inv, NEW j \in Jobs, inbox' = Append(inbox, j),
         UNCHANGED <<proc, step, tmp>>,
         \A p \in Plugins : offered[p] \subseteq offered'[p],
         \A p \in Plugins : at'[p] = "asked" => proc = "running",
         j.kind = "save" => proc = "stopping" /\ j.data \in offered'[j.plugin]
  PROVE  inbox' \in Seq(Jobs) /\ InboxInv' /\ StepInv'
<1>1. inbox \in Seq(Jobs) /\ InboxInv /\ StepInv
  BY DEF Inv, DiskInv, TypeOK
<1>2. /\ inbox' \in Seq(Jobs) /\ inbox' # << >>
      /\ DOMAIN inbox' = 1 .. Len(inbox) + 1 /\ DOMAIN inbox = 1 .. Len(inbox)
      /\ \A i \in 1 .. Len(inbox) : inbox'[i] = inbox[i]
      /\ inbox'[Len(inbox) + 1] = j
      /\ inbox # << >> => Head(inbox') = Head(inbox)
      /\ Len(inbox) \in Nat
  BY <1>1, AppendFacts
<1>3. \A i \in DOMAIN inbox : inbox[i] \in Jobs /\ inbox[i].plugin \in Plugins
  BY <1>1, JobFacts
<1>4. \A i \in DOMAIN inbox' :
        inbox'[i].kind = "save" =>
          proc' = "stopping" /\ inbox'[i].data \in offered'[inbox'[i].plugin]
  <2> SUFFICES ASSUME NEW i \in DOMAIN inbox', inbox'[i].kind = "save"
               PROVE  proc' = "stopping" /\ inbox'[i].data \in offered'[inbox'[i].plugin]
    OBVIOUS
  <2>1. CASE i = Len(inbox) + 1
    BY <1>2, <2>1
  <2>2. CASE i \in DOMAIN inbox
    BY <1>1, <1>2, <1>3, <2>2 DEF InboxInv
  <2> QED BY <1>2, <2>1, <2>2
<1>5. InboxInv'
  BY <1>4 DEF InboxInv
<1>6. StepInv'
  BY <1>1, <1>2 DEF StepInv, Job
<1> QED BY <1>2, <1>5, <1>6

\* The process is gone, and with it everything but the files.
LEMMA EndInv ==
  ASSUME at' = [p \in Plugins |-> "off"], inbox' = << >>, step' = "idle", reply' = {}
  PROVE  InboxInv' /\ ReplyInv' /\ StepInv'
BY DEF InboxInv, ReplyInv, StepInv

\* Every step of the manager, the plugins and the power keeps the invariant.
LEMMA InvNext == Inv /\ [Next]_vars => Inv'
<1> SUFFICES ASSUME Inv, [Next]_vars PROVE Inv'
  OBVIOUS
<1>0. /\ TypeOK /\ FilesInv /\ InboxInv /\ ReplyInv /\ StepInv
      /\ MaxState \in Nat
  BY CheckpointAssumption DEF Inv, DiskInv
<1>a. /\ file \in [Plugins -> Files] /\ tmp \in [Plugins -> Files]
      /\ durable \in [Plugins -> Files] /\ inbox \in Seq(Jobs)
      /\ at \in [Plugins -> {"off", "asked", "up", "saving", "stopped"}]
      /\ mem \in [Plugins -> States \cup {Empty}]
      /\ offered \in [Plugins -> SUBSET States]
      /\ acked \in [Plugins -> States \cup {Empty, Unknown}]
      /\ \A r \in reply : r.plugin \in Plugins /\ r.data \in States \cup {Empty}
  BY <1>0, TypeFacts
<1>1. ASSUME Start PROVE Inv'
  <2>1. TypeOK'
    BY <1>0, <1>1, CheckpointAssumption DEF Start, TypeOK, disk, history
  <2>2. FilesInv'
    BY <1>0, <1>1 DEF Start, FilesInv, disk, history
  <2>3. InboxInv'
    BY <1>0, <1>1 DEF Start, InboxInv, history
  <2>4. ReplyInv' /\ StepInv'
    BY <1>0, <1>1 DEF Start, ReplyInv, StepInv, Job, disk
  <2> QED BY <2>1, <2>2, <2>3, <2>4 DEF Inv, DiskInv
<1>2. ASSUME Shutdown PROVE Inv'
  <2>1. TypeOK'
    BY <1>0, <1>2 DEF Shutdown, TypeOK, disk, history
  <2>2. FilesInv'
    BY <1>0, <1>2 DEF Shutdown, FilesInv, disk, history
  <2>3. InboxInv'
    BY <1>0, <1>2 DEF Shutdown, InboxInv, history
  <2>4. ReplyInv' /\ StepInv'
    BY <1>0, <1>2 DEF Shutdown, ReplyInv, StepInv, Job, disk
  <2> QED BY <2>1, <2>2, <2>3, <2>4 DEF Inv, DiskInv
<1>3. ASSUME Exit \/ Crash PROVE Inv'
  <2>1. /\ proc' = "down" /\ at' = [p \in Plugins |-> "off"]
        /\ mem' = [p \in Plugins |-> Empty]
        /\ inbox' = << >> /\ step' = "idle" /\ reply' = {}
        /\ UNCHANGED <<starts, file, tmp, durable, offered, acked, emptied>>
    BY <1>3 DEF Exit, Crash, Ends, disk, history
  <2>2. TypeOK'
    BY <1>0, <2>1 DEF TypeOK
  <2>3. FilesInv'
    BY <1>0, <2>1 DEF FilesInv
  <2> QED BY <2>1, <2>2, <2>3, EndInv DEF Inv, DiskInv
<1>4. ASSUME NEW p \in Plugins, Load(p) PROVE Inv'
  <2> DEFINE j == [kind |-> "restore", plugin |-> p, data |-> Empty]
  <2>1. /\ proc = "running" /\ at[p] = "off"
        /\ at' = [at EXCEPT ![p] = "asked"] /\ inbox' = Append(inbox, j)
        /\ UNCHANGED <<proc, starts, mem, step, reply, file, tmp, durable,
                       offered, acked, emptied>>
    BY <1>4 DEF Load, disk, history
  <2>2. j \in Jobs /\ j.kind = "restore"
    BY DEF Jobs
  <2> HIDE DEF j
  <2>3. inbox' \in Seq(Jobs) /\ InboxInv' /\ StepInv'
    BY <1>a, <2>1, <2>2, SendInv
  <2>4. TypeOK'
    BY <1>0, <2>1, <2>3 DEF TypeOK
  <2>5. FilesInv'
    BY <1>0, <2>1 DEF FilesInv
  <2>6. ReplyInv'
    BY <1>0, <1>a, <2>1 DEF ReplyInv
  <2> QED BY <2>3, <2>4, <2>5, <2>6 DEF Inv, DiskInv
<1>5. ASSUME NEW p \in Plugins, Loaded(p) \/ LoadTimesOut(p) PROVE Inv'
  <2>1. /\ at' = [at EXCEPT ![p] = "up"] /\ reply' \subseteq reply
        /\ UNCHANGED <<proc, starts, inbox, step, file, tmp, durable,
                       offered, acked, emptied>>
    BY <1>5 DEF Loaded, LoadTimesOut, disk, history
  <2>2. mem' \in [Plugins -> States \cup {Empty}]
    BY <1>a, <1>5 DEF Loaded, LoadTimesOut
  <2>3. TypeOK'
    BY <1>0, <2>1, <2>2 DEF TypeOK
  <2>4. FilesInv'
    BY <1>0, <2>1 DEF FilesInv
  <2>5. InboxInv'
    BY <1>0, <1>a, <2>1 DEF InboxInv
  <2>6. ReplyInv'
    BY <1>0, <1>a, <2>1 DEF ReplyInv
  <2>7. StepInv'
    BY <1>0, <2>1 DEF StepInv, Job
  <2> QED BY <2>3, <2>4, <2>5, <2>6, <2>7 DEF Inv, DiskInv
<1>6. ASSUME NEW p \in Plugins, Change(p) PROVE Inv'
  <2>1. UNCHANGED <<proc, starts, at, inbox, step, reply, file, tmp, durable,
                    offered, acked, emptied>>
    BY <1>6 DEF Change, disk, history
  <2>2. mem' \in [Plugins -> States \cup {Empty}]
    BY <1>0, <1>a, <1>6 DEF Change, States, Empty
  <2>3. TypeOK'
    BY <1>0, <2>1, <2>2 DEF TypeOK
  <2>4. FilesInv' /\ InboxInv' /\ ReplyInv' /\ StepInv'
    BY <1>0, <2>1 DEF FilesInv, InboxInv, ReplyInv, StepInv, Job
  <2> QED BY <2>3, <2>4 DEF Inv, DiskInv
<1>7. ASSUME NEW p \in Plugins, StopPlugin(p) PROVE Inv'
  <2>0. /\ proc = "stopping" /\ at[p] = "up"
        /\ UNCHANGED <<proc, starts, mem, step, reply, file, tmp, durable, acked>>
    BY <1>7 DEF StopPlugin, disk
  <2>1. CASE mem[p] = Empty
    <3>1. /\ at' = [at EXCEPT ![p] = "stopped"] /\ UNCHANGED <<inbox, offered>>
      BY <1>7, <2>1 DEF StopPlugin
    <3>2. TypeOK'
      BY <1>0, <2>0, <3>1 DEF TypeOK
    <3>3. FilesInv'
      BY <1>0, <2>0, <3>1 DEF FilesInv
    <3>4. InboxInv' /\ ReplyInv'
      BY <1>0, <1>a, <2>0, <3>1 DEF InboxInv, ReplyInv
    <3>5. StepInv'
      BY <1>0, <2>0, <3>1 DEF StepInv, Job
    <3> QED BY <3>2, <3>3, <3>4, <3>5 DEF Inv, DiskInv
  <2>2. CASE mem[p] # Empty
    <3> DEFINE j == [kind |-> "save", plugin |-> p, data |-> mem[p]]
    <3>1. /\ at' = [at EXCEPT ![p] = "saving"] /\ inbox' = Append(inbox, j)
          /\ offered' = [offered EXCEPT ![p] = offered[p] \cup {mem[p]}]
      BY <1>7, <2>2 DEF StopPlugin
    <3>2. mem[p] \in States
      BY <1>a, <2>2
    <3>3. /\ j \in Jobs /\ j.kind = "save" /\ j.plugin = p /\ j.data = mem[p]
      BY <3>2 DEF Jobs
    <3> HIDE DEF j
    <3>4. /\ \A q \in Plugins : offered[q] \subseteq offered'[q]
          /\ \A q \in Plugins : at'[q] = "asked" => proc = "running"
          /\ mem[p] \in offered'[p] /\ offered' \in [Plugins -> SUBSET States]
      BY <1>0, <1>a, <3>1, <3>2 DEF InboxInv
    <3>5. inbox' \in Seq(Jobs) /\ InboxInv' /\ StepInv'
      BY <2>0, <3>1, <3>3, <3>4, SendInv
    <3>6. TypeOK'
      BY <1>0, <2>0, <3>1, <3>4, <3>5 DEF TypeOK
    <3>7. FilesInv'
      BY <1>0, <2>0, <3>4 DEF FilesInv
    <3>8. ReplyInv'
      BY <1>0, <1>a, <2>0, <3>1 DEF ReplyInv
    <3> QED BY <3>5, <3>6, <3>7, <3>8 DEF Inv, DiskInv
  <2> QED BY <2>1, <2>2
<1>8. ASSUME NEW p \in Plugins, StopUnsaved(p) \/ PluginStopped(p) PROVE Inv'
  <2>1. /\ at' = [at EXCEPT ![p] = "stopped"] /\ reply' \subseteq reply
        /\ UNCHANGED <<proc, starts, mem, inbox, step, file, tmp, durable,
                       offered, acked, emptied>>
    BY <1>8 DEF StopUnsaved, PluginStopped, disk, history
  <2>2. TypeOK'
    BY <1>0, <2>1 DEF TypeOK
  <2>3. FilesInv'
    BY <1>0, <2>1 DEF FilesInv
  <2>4. InboxInv' /\ ReplyInv'
    BY <1>0, <1>a, <2>1 DEF InboxInv, ReplyInv
  <2>5. StepInv'
    BY <1>0, <2>1 DEF StepInv, Job
  <2> QED BY <2>2, <2>3, <2>4, <2>5 DEF Inv, DiskInv
<1>9. ASSUME NEW p \in Plugins, WriteBack(p) PROVE Inv'
  <2>1. /\ durable' = [durable EXCEPT ![p] = file[p]]
        /\ UNCHANGED <<proc, starts, at, mem, inbox, step, reply, file, tmp,
                       offered, acked, emptied>>
    BY <1>9 DEF WriteBack, history
  <2>2. TypeOK'
    BY <1>0, <1>a, <2>1 DEF TypeOK
  <2>3. FilesInv'
    BY <1>0, <1>a, <2>1 DEF FilesInv
  <2>4. InboxInv' /\ ReplyInv' /\ StepInv'
    BY <1>0, <2>1 DEF InboxInv, ReplyInv, StepInv, Job
  <2> QED BY <2>2, <2>3, <2>4 DEF Inv, DiskInv
<1>b. inbox # << >> =>
        /\ Job.plugin \in Plugins /\ Job.kind \in {"save", "restore"}
        /\ Job.kind = "save" =>
             /\ Job.data \in States /\ proc = "stopping"
             /\ Job.data \in offered[Job.plugin]
             /\ \A p \in Plugins : at[p] # "asked"
  <2> SUFFICES ASSUME inbox # << >>
               PROVE  /\ Job.plugin \in Plugins /\ Job.kind \in {"save", "restore"}
                      /\ Job.kind = "save" =>
                           /\ Job.data \in States /\ proc = "stopping"
                           /\ Job.data \in offered[Job.plugin]
                           /\ \A p \in Plugins : at[p] # "asked"
    OBVIOUS
  <2>1. Job \in Jobs /\ Job = inbox[1] /\ 1 \in DOMAIN inbox
    BY <1>a, TailFacts DEF Job
  <2>2. /\ Job.plugin \in Plugins /\ Job.kind \in {"save", "restore"}
        /\ Job.kind = "save" => Job.data \in States
    BY <2>1, JobFacts
  <2>3. Job.kind = "save" => proc = "stopping" /\ Job.data \in offered[Job.plugin]
    BY <1>0, <2>1 DEF InboxInv
  <2>4. proc = "stopping" => \A p \in Plugins : at[p] # "asked"
    BY <1>0 DEF InboxInv
  <2> QED BY <2>2, <2>3, <2>4
<1>10. ASSUME SaveOpens PROVE Inv'
  <2> DEFINE f == [data |-> Job.data, cut |-> "header"]
  <2>1. /\ inbox # << >> /\ Job.kind = "save" /\ step' = "opened"
        /\ tmp' = [tmp EXCEPT ![Job.plugin] = f]
        /\ UNCHANGED <<proc, starts, at, mem, inbox, reply, file, durable,
                       offered, acked, emptied>>
    BY <1>10 DEF SaveOpens, Handling, history
  <2>2. f \in Files /\ f.data = Job.data
    BY <1>b, <2>1, WholeFacts
  <2> HIDE DEF f
  <2>3. tmp' \in [Plugins -> Files] /\ tmp'[Job.plugin] = f
    BY <1>a, <1>b, <2>1, <2>2
  <2>4. TypeOK'
    BY <1>0, <2>1, <2>3 DEF TypeOK
  <2>5. FilesInv'
    BY <1>0, <1>a, <1>b, <2>1, <2>2 DEF FilesInv
  <2>6. InboxInv' /\ ReplyInv'
    BY <1>0, <2>1 DEF InboxInv, ReplyInv
  <2>7. Job' = Job
    BY <2>1 DEF Job
  <2>8. StepInv'
    BY <2>1, <2>2, <2>3, <2>7 DEF StepInv
  <2> QED BY <2>4, <2>5, <2>6, <2>8 DEF Inv, DiskInv
<1>11. ASSUME SaveWrites PROVE Inv'
  <2>1. PICK c \in {"data", "no"} :
          /\ tmp' = [tmp EXCEPT ![Job.plugin].cut = c]
          /\ step' = IF c = "no" THEN "written" ELSE "opened"
    BY <1>11 DEF SaveWrites
  <2>2. /\ inbox # << >> /\ Job.kind = "save" /\ step = "opened"
        /\ UNCHANGED <<proc, starts, at, mem, inbox, reply, file, durable,
                       offered, acked, emptied>>
    BY <1>11 DEF SaveWrites, Handling, history
  <2> DEFINE g == tmp[Job.plugin]
             f == [g EXCEPT !.cut = c]
  <2>3. g \in Files /\ g.data = Job.data /\ g.data \in States
    BY <1>0, <1>a, <1>b, <2>2 DEF StepInv
  <2>4. g # NoFile
    BY <2>3, CheckpointAssumption DEF NoFile, States, Empty
  <2>5. tmp' = [tmp EXCEPT ![Job.plugin] = f]
    BY <1>a, <1>b, <2>1, <2>2
  <2>6. f \in Files /\ f.data = g.data /\ f.cut = c
    <3> HIDE DEF g
    <3> QED BY <2>3, <2>4, CutFacts
  <2>7. c = "no" => f = Whole(Job.data)
    <3>1. c = "no" => Read(f) = f.data
      BY <2>6 DEF Read
    <3> HIDE DEF f
    <3> QED BY <2>3, <2>6, <3>1, FileFacts
  <2> HIDE DEF f, g
  <2>8. tmp' \in [Plugins -> Files] /\ tmp'[Job.plugin] = f
    BY <1>a, <1>b, <2>2, <2>5, <2>6
  <2>9. TypeOK'
    BY <1>0, <2>1, <2>2, <2>8 DEF TypeOK
  <2>10. FilesInv'
    BY <1>0, <1>a, <1>b, <2>2, <2>3, <2>5, <2>6 DEF FilesInv
  <2>11. InboxInv' /\ ReplyInv'
    BY <1>0, <2>2 DEF InboxInv, ReplyInv
  <2>12. Job' = Job
    BY <2>2 DEF Job
  <2>13. StepInv'
    BY <2>1, <2>2, <2>3, <2>6, <2>7, <2>8, <2>12 DEF StepInv
  <2> QED BY <2>9, <2>10, <2>11, <2>13 DEF Inv, DiskInv
<1>12. ASSUME SaveRenames PROVE Inv'
  <2> DEFINE q == Job.plugin
  <2>1. /\ inbox # << >> /\ Job.kind = "save" /\ step = "written"
        /\ file' = [file EXCEPT ![q] = tmp[q]]
        /\ tmp' = [tmp EXCEPT ![q] = NoFile]
        /\ acked' = [acked EXCEPT ![q] = Job.data]
        /\ Return(Empty)
        /\ UNCHANGED <<proc, starts, at, mem, durable, offered>>
    BY <1>12 DEF SaveRenames, Handling
  <2>2. /\ q \in Plugins /\ Job.data \in States /\ Job.data \in offered[q]
        /\ \A p \in Plugins : at[p] # "asked"
    BY <1>b, <2>1
  <2>3. tmp[q] = Whole(Job.data)
    BY <1>0, <2>1 DEF StepInv
  <2>4. /\ Whole(Job.data) \in Files /\ Whole(Job.data).cut = "no"
        /\ Whole(Job.data).data = Job.data /\ Read(Whole(Job.data)) = Job.data
    BY <2>2, WholeFacts
  <2>5. /\ inbox' \in Seq(Jobs) /\ step' = "idle"
        /\ reply' \subseteq [plugin : Plugins, data : States \cup {Empty}]
        /\ InboxInv' /\ ReplyInv' /\ StepInv'
    BY <2>1, <2>2, ReturnInv
  <2> HIDE DEF q
  <2>6. TypeOK'
    BY <1>0, <1>a, <2>1, <2>2, <2>3, <2>4, <2>5, NoFileFacts DEF TypeOK
  <2>7. FilesInv'
    <3> SUFFICES ASSUME NEW p \in Plugins
                 PROVE  /\ acked'[p] # Unknown => Read(file'[p]) = acked'[p]
                        /\ file'[p] = durable'[p] \/ file'[p].cut = "no"
                        /\ \A f \in {file'[p], tmp'[p], durable'[p]} :
                             f = NoFile \/ f.data \in offered'[p]
      BY DEF FilesInv
    <3>1. CASE p = q
      <4>1. /\ file'[p] = Whole(Job.data) /\ acked'[p] = Job.data
            /\ tmp'[p] = NoFile /\ durable'[p] = durable[p] /\ offered' = offered
        BY <1>a, <2>1, <2>2, <2>3, <3>1
      <4> QED BY <1>0, <2>2, <2>4, <3>1, <4>1 DEF FilesInv
    <3>2. CASE p # q
      <4>1. /\ file'[p] = file[p] /\ acked'[p] = acked[p] /\ tmp'[p] = tmp[p]
            /\ durable'[p] = durable[p] /\ offered' = offered
        BY <1>a, <2>1, <3>2
      <4> QED BY <1>0, <4>1 DEF FilesInv
    <3> QED BY <3>1, <3>2
  <2> QED BY <2>5, <2>6, <2>7 DEF Inv, DiskInv
<1>13. ASSUME SaveFails PROVE Inv'
  <2>1. /\ inbox # << >> /\ Job.kind = "save" /\ Return(Empty)
        /\ UNCHANGED <<proc, starts, at, mem, file, tmp, durable, offered,
                       acked, emptied>>
    BY <1>13 DEF SaveFails, disk, history
  <2>2. /\ inbox' \in Seq(Jobs) /\ step' = "idle"
        /\ reply' \subseteq [plugin : Plugins, data : States \cup {Empty}]
        /\ InboxInv' /\ ReplyInv' /\ StepInv'
    BY <2>1, ReturnInv
  <2>3. TypeOK'
    BY <1>0, <2>1, <2>2 DEF TypeOK
  <2>4. FilesInv'
    BY <1>0, <2>1 DEF FilesInv
  <2> QED BY <2>2, <2>3, <2>4 DEF Inv, DiskInv
<1>14. ASSUME Restores PROVE Inv'
  <2>1. /\ inbox # << >> /\ Job.kind = "restore" /\ Return(Read(file[Job.plugin]))
        /\ UNCHANGED <<proc, starts, at, mem, file, tmp, durable, offered,
                       acked, emptied>>
    BY <1>14 DEF Restores, Handling, disk, history
  <2>2. Read(file[Job.plugin]) \in States \cup {Empty}
    BY <1>a, <1>b, <2>1, FileFacts
  <2>3. Read(file'[Job.plugin]) = Read(file[Job.plugin])
    BY <2>1
  <2>4. /\ inbox' \in Seq(Jobs) /\ step' = "idle"
        /\ reply' \subseteq [plugin : Plugins, data : States \cup {Empty}]
        /\ InboxInv' /\ ReplyInv' /\ StepInv'
    BY <2>1, <2>2, <2>3, ReturnInv
  <2>5. TypeOK'
    BY <1>0, <2>1, <2>4 DEF TypeOK
  <2>6. FilesInv'
    BY <1>0, <2>1 DEF FilesInv
  <2> QED BY <2>4, <2>5, <2>6 DEF Inv, DiskInv
<1>15. ASSUME PowerFails PROVE Inv'
  <2>1. /\ proc' = "down" /\ at' = [p \in Plugins |-> "off"]
        /\ mem' = [p \in Plugins |-> Empty]
        /\ inbox' = << >> /\ step' = "idle" /\ reply' = {}
        /\ durable' = file' /\ tmp' = [p \in Plugins |-> NoFile]
        /\ acked' = [p \in Plugins |->
                       IF file'[p] = file[p] THEN acked[p] ELSE Unknown]
        /\ UNCHANGED <<starts, offered, emptied>>
    BY <1>15 DEF PowerFails, Ends
  <2>2. \A p \in Plugins :
          file'[p] = file[p] \/ (durable[p] # file[p] /\
            (file'[p] = durable[p] \/ file'[p] \in CutFiles(file[p])))
    BY <1>15 DEF PowerFails
  <2>3. \A p \in Plugins :
          /\ file'[p] \in Files
          /\ file'[p] = NoFile \/ file'[p].data \in offered[p]
    <3> SUFFICES ASSUME NEW p \in Plugins
                 PROVE  /\ file'[p] \in Files
                        /\ file'[p] = NoFile \/ file'[p].data \in offered[p]
      OBVIOUS
    <3>1. /\ file[p] \in Files /\ durable[p] \in Files
          /\ file[p] = NoFile \/ file[p].data \in offered[p]
          /\ durable[p] = NoFile \/ durable[p].data \in offered[p]
          /\ file[p] = durable[p] \/ file[p].cut = "no"
      BY <1>0, <1>a DEF FilesInv
    <3>2. CASE file'[p] = file[p] \/ file'[p] = durable[p]
      BY <3>1, <3>2
    <3>3. CASE durable[p] # file[p] /\ file'[p] \in CutFiles(file[p])
      <4>1. file[p] # NoFile
        BY <3>1, <3>3 DEF NoFile
      <4>2. PICK c \in {"header", "data", "no"} : file'[p] = [file[p] EXCEPT !.cut = c]
        BY <3>3 DEF CutFiles
      <4>3. file'[p] \in Files /\ file'[p].data = file[p].data
        <5> DEFINE f == file[p]
        <5>1. f \in Files /\ f # NoFile /\ file'[p] = [f EXCEPT !.cut = c]
          BY <3>1, <4>1, <4>2
        <5> HIDE DEF f
        <5>2. [f EXCEPT !.cut = c] \in Files /\ [f EXCEPT !.cut = c].data = f.data
          BY <5>1, CutFacts
        <5> QED BY <5>1, <5>2 DEF f
      <4> QED BY <3>1, <4>1, <4>3
    <3> QED BY <2>2, <3>2, <3>3
  <2>4. file' \in [Plugins -> Files]
    BY <1>15, <2>3 DEF PowerFails
  <2>5. tmp' \in [Plugins -> Files] /\ acked' \in [Plugins -> States \cup {Empty, Unknown}]
    BY <1>a, <2>1, NoFileFacts
  <2>6. TypeOK'
    BY <1>0, <2>1, <2>4, <2>5 DEF TypeOK
  <2>7. FilesInv'
    BY <1>0, <2>1, <2>3 DEF FilesInv
  <2> QED BY <2>1, <2>6, <2>7, EndInv DEF Inv, DiskInv
<1>16. CASE UNCHANGED vars
  <2>1. TypeOK'
    BY <1>0, <1>16 DEF vars, TypeOK
  <2>2. FilesInv' /\ InboxInv' /\ ReplyInv' /\ StepInv'
    BY <1>0, <1>16 DEF vars, FilesInv, InboxInv, ReplyInv, StepInv, Job
  <2> QED BY <2>1, <2>2 DEF Inv, DiskInv
<1> QED
  BY <1>1, <1>2, <1>3, <1>4, <1>5, <1>6, <1>7, <1>8, <1>9, <1>10, <1>11,
     <1>12, <1>13, <1>14, <1>15, <1>16
  DEF Next

\* The invariant holds throughout.
LEMMA InvHolds == Spec => []Inv
BY InvInit, InvNext, PTL DEF Spec

\* Well typed, so no plugin ever runs with bytes that none has saved
\* (restore_state_atom refuses a file that was cut short), for any plugins.
THEOREM TypeCorrect == Spec => []TypeOK
BY InvHolds, PTL DEF Inv

\* The inductive invariant of files, mailbox, answers and the save handler.
THEOREM DiskInvariant == Spec => []DiskInv
BY InvHolds, PTL DEF Inv

\* A save that succeeded stays on disk, whole, until the next one takes its
\* place (save_state_atom: temporary file, flush, rename), for any number of
\* plugins, states and starts, whenever the process ends.
THEOREM SavesStay == Spec => []SavedStays
<1>1. Inv => SavedStays
  <2> SUFFICES ASSUME Inv, NEW p \in Plugins, acked[p] \in States
               PROVE  file[p] = Whole(acked[p])
    BY DEF SavedStays
  <2>1. file[p] \in Files /\ (acked[p] # Unknown => Read(file[p]) = acked[p])
    BY TypeFacts DEF Inv, DiskInv, FilesInv
  <2>2. acked[p] # Unknown
    BY WholeFacts
  <2> QED BY <2>1, <2>2, FileFacts
<1> QED BY <1>1, InvHolds, PTL

\* A plugin whose restore_state_atom is answered goes on with the last state
\* whose save succeeded.
THEOREM PluginsResume == Spec => Resumes
<1>1. ASSUME Inv, NEW p \in Plugins, Loaded(p), acked[p] # Unknown
      PROVE  mem'[p] = acked[p]
  <2>1. PICK r \in reply : r.plugin = p /\ mem' = [mem EXCEPT ![p] = r.data]
    BY <1>1 DEF Loaded
  <2>2. at[p] = "asked" /\ mem \in [Plugins -> States \cup {Empty}]
    BY <1>1, TypeFacts DEF Loaded, Inv
  <2>3. r.data = Read(file[p])
    BY <1>1, <2>1, <2>2 DEF Inv, DiskInv, ReplyInv
  <2>4. Read(file[p]) = acked[p]
    BY <1>1 DEF Inv, DiskInv, FilesInv
  <2> QED BY <2>1, <2>2, <2>3, <2>4
<1>2. Inv /\ [Next]_vars =>
        [\A p \in Plugins :
           Loaded(p) /\ acked[p] # Unknown => mem'[p] = acked[p]]_vars
  BY <1>1
<1> QED BY <1>2, InvHolds, PTL DEF Spec, Resumes

\* A plugin starts with a state that was once saved for this very plugin, or
\* afresh, also after the machine went down in the middle of a write.
THEOREM StatesAreOwn == Spec => OwnState
<1>1. ASSUME Inv, [Next]_vars, NEW p \in Plugins, Starts(p)
      PROVE  mem'[p] \in offered[p] \cup {Empty}
  <2>0. /\ TypeOK /\ at[p] = "asked" /\ at'[p] = "up"
        /\ mem \in [Plugins -> States \cup {Empty}]
        /\ at \in [Plugins -> {"off", "asked", "up", "saving", "stopped"}]
    BY <1>1, TypeFacts DEF Starts, Inv
  <2>1. \E q \in Plugins : Loaded(q) \/ LoadTimesOut(q)
    <3>1. ASSUME NEW q \in Plugins,
                 \/ Load(q) \/ StopPlugin(q) \/ StopUnsaved(q)
                 \/ PluginStopped(q) \/ Change(q) \/ WriteBack(q)
          PROVE  at'[p] # "up" \/ at'[p] = at[p]
      BY <2>0, <3>1 DEF Load, StopPlugin, StopUnsaved, PluginStopped, Change, WriteBack
    <3>2. ASSUME Exit \/ Crash \/ PowerFails PROVE at'[p] = "off"
      BY <3>2 DEF Exit, Crash, PowerFails, Ends
    <3>3. ASSUME \/ Start \/ Shutdown \/ SaveOpens \/ SaveWrites \/ SaveRenames
                 \/ SaveFails \/ Restores \/ UNCHANGED vars
          PROVE  at' = at
      BY <3>3 DEF Start, Shutdown, SaveOpens, SaveWrites, SaveRenames,
                  SaveFails, Restores, vars
    <3> QED BY <1>1, <2>0, <3>1, <3>2, <3>3 DEF Next
  <2>2. PICK q \in Plugins : Loaded(q) \/ LoadTimesOut(q)
    BY <2>1
  <2>3. q = p
    BY <2>0, <2>2 DEF Loaded, LoadTimesOut
  <2>4. CASE LoadTimesOut(q)
    BY <2>0, <2>3, <2>4 DEF LoadTimesOut
  <2>5. CASE Loaded(q)
    <3>1. PICK r \in reply : r.plugin = p /\ mem' = [mem EXCEPT ![p] = r.data]
      BY <2>3, <2>5 DEF Loaded
    <3>2. r.data = Read(file[p])
      BY <1>1, <2>0, <3>1 DEF Inv, DiskInv, ReplyInv
    <3>3. Read(file[p]) \in offered[p] \cup {Empty}
      <4>1. file[p] = NoFile \/ file[p].data \in offered[p]
        BY <1>1 DEF Inv, DiskInv, FilesInv
      <4>2. Read(file[p]) = Empty \/ Read(file[p]) = file[p].data
        BY DEF Read
      <4> QED BY <4>1, <4>2, NoFileFacts
    <3> QED BY <2>0, <3>1, <3>2, <3>3
  <2> QED BY <2>2, <2>4, <2>5
<1>2. Inv /\ [Next]_vars =>
        [\A p \in Plugins : Starts(p) => mem'[p] \in offered[p] \cup {Empty}]_vars
  BY <1>1
<1> QED BY <1>2, InvHolds, PTL DEF Spec, OwnState

-----------------------------------------------------------------------------
(* The refinement.                                                         *)

\* The states whose save is in the mailbox.
LEMMA PendingMember ==
  ASSUME NEW p, NEW d
  PROVE  d \in Pending(p) <=>
           \E i \in DOMAIN inbox : /\ inbox[i].kind = "save"
                                   /\ inbox[i].plugin = p /\ inbox[i].data = d
BY DEF Pending

\* The same in the next state.
LEMMA PendingMemberNext ==
  ASSUME NEW p, NEW d
  PROVE  d \in Pending(p)' <=>
           \E i \in DOMAIN inbox' : /\ inbox'[i].kind = "save"
                                    /\ inbox'[i].plugin = p /\ inbox'[i].data = d
BY DEF Pending

\* Sending a save makes it pending.
LEMMA PendingSend ==
  ASSUME TypeOK, NEW j \in Jobs, inbox' = Append(inbox, j), NEW p
  PROVE  Pending(p)' = IF j.kind = "save" /\ j.plugin = p
                         THEN Pending(p) \cup {j.data} ELSE Pending(p)
<1>1. /\ DOMAIN inbox' = 1 .. Len(inbox) + 1 /\ DOMAIN inbox = 1 .. Len(inbox)
      /\ \A i \in 1 .. Len(inbox) : inbox'[i] = inbox[i]
      /\ inbox'[Len(inbox) + 1] = j /\ Len(inbox) \in Nat
  BY TypeFacts, AppendFacts
<1>2. \A i : i \in DOMAIN inbox' <=> i \in DOMAIN inbox \/ i = Len(inbox) + 1
  BY <1>1
<1>3. \A d : d \in Pending(p)' <=>
             d \in Pending(p) \/ (j.kind = "save" /\ j.plugin = p /\ j.data = d)
  BY <1>1, <1>2, PendingMember, PendingMemberNext
<1> QED BY <1>3

\* Taking a request from the mailbox ends at most its own save.
LEMMA PendingReturn ==
  ASSUME TypeOK, inbox # << >>, inbox' = Tail(inbox), NEW p
  PROVE  /\ Pending(p)' \subseteq Pending(p)
         /\ Job.kind # "save" \/ Job.plugin # p => Pending(p)' = Pending(p)
<1>1. /\ inbox \in Seq(Jobs) /\ Job = inbox[1]
      /\ \A i \in DOMAIN inbox' : i + 1 \in DOMAIN inbox /\ inbox'[i] = inbox[i + 1]
  BY TypeFacts, TailFacts DEF Job
<1>2. \A i \in DOMAIN inbox : i = 1 \/ (i - 1 \in DOMAIN inbox' /\ inbox'[i - 1] = inbox[i])
  BY <1>1
<1>3. Pending(p)' \subseteq Pending(p)
  BY <1>1, PendingMember, PendingMemberNext
<1>4. ASSUME Job.kind # "save" \/ Job.plugin # p, NEW d \in Pending(p)
      PROVE  d \in Pending(p)'
  <2>1. PICK i \in DOMAIN inbox : /\ inbox[i].kind = "save"
                                  /\ inbox[i].plugin = p /\ inbox[i].data = d
    BY <1>4, PendingMember
  <2>2. i # 1
    BY <1>1, <1>4, <2>1
  <2>3. i - 1 \in DOMAIN inbox' /\ inbox'[i - 1] = inbox[i]
    BY <1>2, <2>2
  <2> QED BY <2>1, <2>3, PendingMemberNext
<1> QED BY <1>3, <1>4

\* The first boot is the vault's initial state.
LEMMA VaultInit == Init => Vault!Init
<1> SUFFICES ASSUME Init PROVE Vault!Init
  OBVIOUS
<1>1. Running = {} /\ mem = Vault!Nothing
  BY DEF Init, Running, Vault!Nothing
<1>2. PendingStates = [p \in Plugins |-> {}]
  BY DEF Init, PendingStates, Pending
<1>3. SavedStates = Vault!Nothing /\ StableStates = Vault!Nothing
  BY NoFileFacts DEF Init, SavedStates, StableStates, Vault!Nothing
<1> QED BY <1>1, <1>2, <1>3 DEF Vault!Init

\* What an action leaves alone.
LEMMA SameFiles ==
  /\ file' = file => SavedStates' = SavedStates
  /\ durable' = durable => StableStates' = StableStates
  /\ at' = at => Running' = Running
  /\ inbox' = inbox => PendingStates' = PendingStates
BY DEF SavedStates, StableStates, Running, PendingStates, Pending

\* A handler that returns: the job of its plugin is gone.
LEMMA PendingStep ==
  ASSUME TypeOK, inbox # << >>, inbox' = Tail(inbox)
  PROVE  /\ Job.kind # "save" => PendingStates' = PendingStates
         /\ Job.plugin \in Plugins
         /\ \E ds \in SUBSET PendingStates[Job.plugin] :
              PendingStates' = [PendingStates EXCEPT ![Job.plugin] = ds]
<1>1. PICK q \in Plugins : q = Job.plugin
  BY TypeFacts, TailFacts, JobFacts DEF Job
<1>2. \A p \in Plugins :
        /\ Pending(p)' \subseteq Pending(p)
        /\ Job.kind # "save" \/ q # p => Pending(p)' = Pending(p)
  BY <1>1, PendingReturn
<1>3. /\ PendingStates = [p \in Plugins |-> Pending(p)]
      /\ PendingStates' = [p \in Plugins |-> Pending(p)']
  BY DEF PendingStates
<1>4. Job.kind # "save" => PendingStates' = PendingStates
  BY <1>2, <1>3
<1> DEFINE d == Pending(q)'
<1>5. /\ d \in SUBSET PendingStates[q]
      /\ PendingStates' = [PendingStates EXCEPT ![q] = d]
  BY <1>1, <1>2, <1>3
<1> HIDE DEF d
<1>6. \E ds \in SUBSET PendingStates[q] :
        PendingStates' = [PendingStates EXCEPT ![q] = ds]
  BY <1>5, Zenon
<1> QED BY <1>1, <1>4, <1>6

\* Every step is a step of the vault, or changes nothing it sees.
LEMMA VaultNext == Inv /\ [Next]_vars => [Vault!Next]_(Vault!vars)
<1> SUFFICES ASSUME Inv, [Next]_vars
             PROVE  Vault!Next \/ UNCHANGED Vault!vars
  OBVIOUS
<1>0. /\ TypeOK /\ FilesInv /\ InboxInv /\ ReplyInv /\ StepInv
      /\ file \in [Plugins -> Files] /\ durable \in [Plugins -> Files]
      /\ at \in [Plugins -> {"off", "asked", "up", "saving", "stopped"}]
      /\ mem \in [Plugins -> States \cup {Empty}]
      /\ inbox \in Seq(Jobs)
  BY TypeFacts DEF Inv, DiskInv
<1> USE DEF Vault!vars
<1>1. ASSUME Start \/ Shutdown PROVE UNCHANGED Vault!vars
  BY <1>1, SameFiles DEF Start, Shutdown, disk
<1>2. ASSUME Exit \/ Crash PROVE Vault!Ends
  <2>1. /\ at' = [p \in Plugins |-> "off"] /\ mem' = [p \in Plugins |-> Empty]
        /\ inbox' = << >> /\ file' = file /\ durable' = durable
    BY <1>2 DEF Exit, Crash, Ends, disk
  <2>2. Running' = {}
    BY <2>1 DEF Running
  <2>3. PendingStates' = [p \in Plugins |-> {}]
    BY <2>1 DEF PendingStates, Pending
  <2> QED BY <2>1, <2>2, <2>3, SameFiles DEF Vault!Ends, Vault!Nothing
<1>3. ASSUME NEW p \in Plugins, Load(p) PROVE UNCHANGED Vault!vars
  <2> DEFINE j == [kind |-> "restore", plugin |-> p, data |-> Empty]
  <2>1. /\ at[p] = "off" /\ at' = [at EXCEPT ![p] = "asked"]
        /\ inbox' = Append(inbox, j) /\ UNCHANGED <<mem, file, durable>>
    BY <1>3 DEF Load, disk
  <2>2. j \in Jobs /\ j.kind = "restore"
    BY DEF Jobs
  <2> HIDE DEF j
  <2>3. Running' = Running
    BY <1>0, <2>1 DEF Running
  <2>4. \A q \in Plugins : Pending(q)' = Pending(q)
    BY <1>0, <2>1, <2>2, PendingSend
  <2>5. PendingStates' = PendingStates
    BY <2>4 DEF PendingStates
  <2> QED BY <2>1, <2>3, <2>5, SameFiles
<1>4. ASSUME NEW p \in Plugins, Loaded(p) \/ LoadTimesOut(p) PROVE Vault!Resume(p)
  <2>1. /\ at[p] = "asked" /\ at' = [at EXCEPT ![p] = "up"]
        /\ UNCHANGED <<inbox, file, durable>>
    BY <1>4 DEF Loaded, LoadTimesOut, disk
  <2>2. p \notin Running /\ Running' = Running \cup {p}
    BY <1>0, <2>1 DEF Running
  <2>3. mem' = [mem EXCEPT ![p] = SavedStates[p]] \/ mem' = [mem EXCEPT ![p] = Empty]
    <3>1. CASE LoadTimesOut(p)
      BY <3>1 DEF LoadTimesOut
    <3>2. CASE Loaded(p)
      <4>1. PICK r \in reply : r.plugin = p /\ mem' = [mem EXCEPT ![p] = r.data]
        BY <3>2 DEF Loaded
      <4>2. r.data = Read(file[p])
        BY <1>0, <2>1, <4>1 DEF ReplyInv
      <4> QED BY <4>1, <4>2 DEF SavedStates
    <3> QED BY <1>4, <3>1, <3>2
  <2> QED BY <2>1, <2>2, <2>3, SameFiles DEF Vault!Resume
<1>5. ASSUME NEW p \in Plugins, Change(p) PROVE Vault!Work(p)
  <2>1. /\ at[p] \in {"up", "saving"} /\ UNCHANGED <<at, inbox, file, durable>>
    BY <1>5 DEF Change, disk
  <2>2. \E d \in States \cup {Empty} : mem' = [mem EXCEPT ![p] = d]
    <3>1. CASE mem[p] < MaxState /\ mem' = [mem EXCEPT ![p] = mem[p] + 1]
      <4>1. mem[p] + 1 \in States
        BY <1>0, <3>1, CheckpointAssumption DEF States, Empty
      <4> QED BY <3>1, <4>1, Zenon
    <3>2. CASE mem' = [mem EXCEPT ![p] = Empty]
      BY <3>2
    <3> QED BY <1>5, <3>1, <3>2 DEF Change
  <2>3. p \in Running
    BY <2>1 DEF Running
  <2> QED BY <2>1, <2>2, <2>3, SameFiles DEF Vault!Work
<1>6. ASSUME NEW p \in Plugins, StopPlugin(p)
      PROVE  Vault!Snapshot(p) \/ UNCHANGED Vault!vars
  <2>0. at[p] = "up" /\ UNCHANGED <<mem, file, durable>>
    BY <1>6 DEF StopPlugin, disk
  <2>1. CASE mem[p] = Empty
    <3>1. at' = [at EXCEPT ![p] = "stopped"] /\ inbox' = inbox
      BY <1>6, <2>1 DEF StopPlugin
    <3>2. Running' = Running
      BY <1>0, <2>0, <3>1 DEF Running
    <3> QED BY <2>0, <3>1, <3>2, SameFiles
  <2>2. CASE mem[p] # Empty
    <3> DEFINE j == [kind |-> "save", plugin |-> p, data |-> mem[p]]
    <3>1. at' = [at EXCEPT ![p] = "saving"] /\ inbox' = Append(inbox, j)
      BY <1>6, <2>2 DEF StopPlugin
    <3>2. j \in Jobs /\ j.kind = "save" /\ j.plugin = p /\ j.data = mem[p]
      BY <1>0, <2>2 DEF Jobs
    <3> HIDE DEF j
    <3>3. Running' = Running /\ p \in Running
      BY <1>0, <2>0, <3>1 DEF Running
    <3>4. \A q \in Plugins : Pending(q)' = IF q = p THEN Pending(q) \cup {mem[p]}
                                           ELSE Pending(q)
      BY <1>0, <3>1, <3>2, PendingSend
    <3>5. PendingStates' = [PendingStates EXCEPT ![p] = PendingStates[p] \cup {mem[p]}]
      BY <3>4 DEF PendingStates
    <3> QED BY <2>0, <2>2, <3>3, <3>5, SameFiles DEF Vault!Snapshot
  <2> QED BY <2>1, <2>2
<1>7. ASSUME NEW p \in Plugins, StopUnsaved(p) \/ PluginStopped(p)
      PROVE  UNCHANGED Vault!vars
  <2>1. /\ at[p] \in {"up", "saving"} /\ at' = [at EXCEPT ![p] = "stopped"]
        /\ UNCHANGED <<mem, inbox, file, durable>>
    BY <1>7 DEF StopUnsaved, PluginStopped, disk
  <2>2. Running' = Running
    BY <1>0, <2>1 DEF Running
  <2> QED BY <2>1, <2>2, SameFiles
<1>8. ASSUME NEW p \in Plugins, WriteBack(p) PROVE Vault!Settle(p)
  <2>1. /\ durable' = [durable EXCEPT ![p] = file[p]]
        /\ UNCHANGED <<at, mem, inbox, file>>
    BY <1>8 DEF WriteBack
  <2>2. StableStates' = [StableStates EXCEPT ![p] = SavedStates[p]]
    BY <1>0, <2>1 DEF StableStates, SavedStates
  <2> QED BY <2>1, <2>2, SameFiles DEF Vault!Settle
<1>9. ASSUME SaveOpens \/ SaveWrites PROVE UNCHANGED Vault!vars
  BY <1>9, SameFiles DEF SaveOpens, SaveWrites
<1>10. ASSUME SaveRenames PROVE \E p \in Plugins : Vault!Save(p)
  <2> DEFINE q == Job.plugin
  <2>1. /\ inbox # << >> /\ Job.kind = "save" /\ step = "written"
        /\ file' = [file EXCEPT ![q] = tmp[q]] /\ inbox' = Tail(inbox)
        /\ UNCHANGED <<at, mem, durable>>
    BY <1>10 DEF SaveRenames, Handling, Return
  <2>2. /\ Job \in Jobs /\ Job = inbox[1] /\ 1 \in DOMAIN inbox
        /\ q \in Plugins /\ Job.data \in States
    BY <1>0, <2>1, TailFacts, JobFacts DEF Job
  <2>3. tmp[q] = Whole(Job.data) /\ Read(Whole(Job.data)) = Job.data
    BY <1>0, <2>1, <2>2, WholeFacts DEF StepInv
  <2>4. Job.data \in Pending(q)
    BY <2>1, <2>2, PendingMember
  <2>5. \E ds \in SUBSET PendingStates[q] :
          PendingStates' = [PendingStates EXCEPT ![q] = ds]
    BY <1>0, <2>1, PendingStep
  <2> DEFINE d == Job.data
  <2> HIDE DEF q, d
  <2>6. SavedStates' = [SavedStates EXCEPT ![q] = d]
    BY <1>0, <2>1, <2>2, <2>3 DEF SavedStates, d
  <2>7. d \in PendingStates[q]
    BY <2>2, <2>4 DEF PendingStates, d
  <2> QED BY <2>1, <2>2, <2>5, <2>6, <2>7, SameFiles DEF Vault!Save
<1>11. ASSUME SaveFails PROVE \E p \in Plugins : Vault!Save(p)
  <2>1. /\ inbox # << >> /\ inbox' = Tail(inbox)
        /\ UNCHANGED <<at, mem, file, durable>>
    BY <1>11 DEF SaveFails, Return, disk
  <2>2. /\ Job.plugin \in Plugins
        /\ \E ds \in SUBSET PendingStates[Job.plugin] :
             PendingStates' = [PendingStates EXCEPT ![Job.plugin] = ds]
    BY <1>0, <2>1, PendingStep
  <2> QED BY <2>1, <2>2, SameFiles DEF Vault!Save
<1>12. ASSUME Restores PROVE UNCHANGED Vault!vars
  <2>1. /\ inbox # << >> /\ Job.kind = "restore" /\ inbox' = Tail(inbox)
        /\ UNCHANGED <<at, mem, file, durable>>
    BY <1>12 DEF Restores, Handling, Return, disk
  <2>2. PendingStates' = PendingStates
    BY <1>0, <2>1, PendingStep
  <2> QED BY <2>1, <2>2, SameFiles
<1>13. ASSUME PowerFails PROVE Vault!Ends
  <2>1. /\ at' = [p \in Plugins |-> "off"] /\ mem' = [p \in Plugins |-> Empty]
        /\ inbox' = << >> /\ durable' = file'
    BY <1>13 DEF PowerFails, Ends
  <2>2. Running' = {}
    BY <2>1 DEF Running
  <2>3. PendingStates' = [p \in Plugins |-> {}]
    BY <2>1 DEF PendingStates, Pending
  <2>4. StableStates' = SavedStates'
    BY <2>1 DEF StableStates, SavedStates
  <2>5. \A p \in Plugins :
          SavedStates'[p] \in IF StableStates[p] = SavedStates[p] THEN {SavedStates[p]}
                              ELSE {SavedStates[p], StableStates[p], Empty}
    <3> SUFFICES ASSUME NEW p \in Plugins
                 PROVE  Read(file'[p]) \in
                          IF Read(durable[p]) = Read(file[p]) THEN {Read(file[p])}
                          ELSE {Read(file[p]), Read(durable[p]), Empty}
      BY DEF SavedStates, StableStates
    <3>1. file'[p] \in IF durable[p] = file[p] THEN {file[p]}
                       ELSE CutFiles(file[p]) \cup {durable[p]}
      BY <1>13 DEF PowerFails
    <3>2. CASE durable[p] = file[p]
      BY <3>1, <3>2
    <3>3. CASE durable[p] # file[p]
      <4>1. /\ file[p] \in Files /\ durable[p] \in Files /\ file[p].cut = "no"
        BY <1>0, <3>3 DEF FilesInv
      <4>2. file[p].data \in States /\ Read(file[p]) = file[p].data
        BY <4>1 DEF Files, NoFile, Read
      <4>3. Read(durable[p]) # Read(file[p])
        <5>1. file[p] = Whole(file[p].data)
          BY <4>1, <4>2, FileFacts
        <5>2. Read(durable[p]) = Read(file[p]) => durable[p] = Whole(file[p].data)
          BY <4>1, <4>2, FileFacts
        <5> QED BY <3>3, <5>1, <5>2
      <4>4. CASE file'[p] = durable[p]
        BY <4>3, <4>4
      <4>5. CASE file'[p] \in CutFiles(file[p])
        <5> DEFINE f == file[p]
        <5>1. PICK c \in {"header", "data", "no"} : file'[p] = [f EXCEPT !.cut = c]
          BY <4>5 DEF CutFiles
        <5>2. f \in Files /\ f # NoFile
          BY <4>1 DEF NoFile
        <5> HIDE DEF f
        <5>3. [f EXCEPT !.cut = c].data = f.data /\ [f EXCEPT !.cut = c].cut = c
          BY <5>2, CutFacts
        <5>4. Read(file'[p]) \in {f.data, Empty}
          BY <5>1, <5>3 DEF Read
        <5> QED BY <4>2, <4>3, <5>4 DEF f
      <4> QED BY <3>1, <3>3, <4>4, <4>5
    <3> QED BY <3>2, <3>3
  <2> QED BY <2>1, <2>2, <2>3, <2>4, <2>5 DEF Vault!Ends, Vault!Nothing
<1>14. CASE UNCHANGED vars
  BY <1>14, SameFiles DEF vars
<1> QED
  BY <1>1, <1>2, <1>3, <1>4, <1>5, <1>6, <1>7, <1>8, <1>9, <1>10, <1>11,
     <1>12, <1>13, <1>14
  DEF Next, Vault!Next

\* The checkpoint manager, the restore of load_atom and the shutdown chain
\* implement StateVault: saved states change at once, by a save of their own
\* plugin, for any number of plugins, states and starts.
THEOREM CheckpointsAreAtomic == Spec => AtomicSaves
BY VaultInit, VaultNext, InvHolds, PTL DEF Spec, AtomicSaves, Vault!Spec
=============================================================================
