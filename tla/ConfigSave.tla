------------------------------- MODULE ConfigSave -------------------------------
(***************************************************************************)
(* Editing the configuration from the application: GET returns the file    *)
(* with its modification time (appserver/confighttp.go), PUT writes a new  *)
(* file if the time is still the same (SaveConfig in yamledit.go) through  *)
(* config.yaml.tmp, a name all saves share.  Users edit the file as well.  *)
(*                                                                         *)
(* Files are numbered, and so are the editions of the configuration; the   *)
(* file named tmp or config.yaml may change under an open one.             *)
(***************************************************************************)
EXTENDS Naturals, Sequences

CONSTANT Editor

Torn  == 0      \* empty, or a mixture of two editions
NoTmp == 0

VARIABLES
  disk,      \* of each file, its edition and modification time
  conf,      \* the file named config.yaml
  tmp,       \* the file named config.yaml.tmp, or NoTmp
  edition,   \* the last edition made by anybody
  stamp,     \* the last modification time given
  page,      \* what each form has in its form: edition and base_mtime
  call,      \* the request of each form
  raced,     \* clients during whose PUT another edition arrived
  clash      \* two saves have used one tmp file

config == <<disk, conf, tmp, edition, stamp, page, call, raced, clash>>

Doing(step, mtime, e, file) == [step |-> step, mtime |-> mtime, edition |-> e, file |-> file]
NoCall == Doing("none", 0, Torn, 0)
Whole  == disk[conf].edition # Torn

ConfigTypeOK ==
  /\ edition \in Nat /\ stamp \in Nat
  /\ disk \in Seq([edition : 0..edition, mtime : 0..stamp])
  /\ conf \in 1..Len(disk) /\ tmp \in 0..Len(disk) /\ clash \in BOOLEAN /\ raced \subseteq Editor
  /\ page \in [Editor -> [edition : 0..edition, mtime : 0..stamp]]
  /\ call \in [Editor -> [step : {"none", "read", "reread", "again", "last", "open",
                                  "write", "rename", "stat"},
                          mtime : 0..stamp, edition : 0..edition, file : 0..Len(disk)]]

ConfigInit ==
  /\ disk = <<[edition |-> 1, mtime |-> 1]>>
  /\ conf = 1 /\ tmp = NoTmp /\ edition = 1 /\ stamp = 1
  /\ page = [c \in Editor |-> [edition |-> 1, mtime |-> 1]]
  /\ call = [c \in Editor |-> NoCall] /\ raced = {} /\ clash = FALSE

-----------------------------------------------------------------------------
(***************************************************************************)
(* readConfigWithMtime: Stat, ReadFile, Stat, and once more.               *)
(***************************************************************************)
Done(c) == call' = [call EXCEPT ![c] = NoCall]

BeginGet(c) ==
  /\ call[c] = NoCall
  /\ call' = [call EXCEPT ![c] = Doing("read", disk[conf].mtime, Torn, 0)]
  /\ UNCHANGED <<disk, conf, tmp, edition, stamp, page, raced, clash>>

ReadFile(c) ==
  /\ call[c].step \in {"read", "reread"}
  /\ call' = [call EXCEPT ![c] = Doing(IF @.step = "read" THEN "again" ELSE "last",
                                    @.mtime, disk[conf].edition, 0)]
  /\ UNCHANGED <<disk, conf, tmp, edition, stamp, page, raced, clash>>

Stable(c) == disk[conf].mtime = call[c].mtime

\* What is torn may be beyond parsing.
EndGet(c) ==
  /\ call[c].step \in {"again", "last"}
  /\ \/ /\ Stable(c) /\ Done(c) /\ raced' = raced \ {c}
        /\ page' = [page EXCEPT ![c] = [edition |-> call[c].edition, mtime |-> call[c].mtime]]
     \/ /\ IF Stable(c) THEN call[c].edition = Torn ELSE call[c].step = "last"
        /\ Done(c) /\ UNCHANGED <<page, raced>>
     \/ /\ ~Stable(c) /\ call[c].step = "again" /\ UNCHANGED <<page, raced>>
        /\ call' = [call EXCEPT ![c] = Doing("reread", disk[conf].mtime, Torn, 0)]
  /\ UNCHANGED <<disk, conf, tmp, edition, stamp, clash>>

-----------------------------------------------------------------------------
(***************************************************************************)
(* SaveConfig and handleConfigPut.  The read of the old file, the comments *)
(* taken from it and the backup do not decide what is written.             *)
(***************************************************************************)
Saving(c) == call[c].step \in {"open", "write", "rename", "stat"}

\* An edition arrives under the name config.yaml.
Arrives(c) == raced' = (raced \ {c}) \cup {d \in Editor \ {c} : Saving(d)}

\* Mutant: the time is not compared.
NoBase(c) == TRUE
SameBase(c) == page[c].mtime = disk[conf].mtime

BeginPut(c) ==
  /\ call[c] = NoCall /\ SameBase(c)
  /\ edition' = edition + 1
  /\ call' = [call EXCEPT ![c] = Doing("open", 0, edition + 1, 0)]
  /\ UNCHANGED <<disk, conf, tmp, stamp, page, raced, clash>>

\* Mutant: the file is written in place.
InPlace == conf
TmpFile == IF tmp = NoTmp THEN Len(disk) + 1 ELSE tmp

\* os.WriteFile truncates a tmp file that is there.
OpenTmp(c) ==
  /\ call[c].step = "open"
  /\ LET file == TmpFile
         empty == [edition |-> Torn, mtime |-> stamp + 1] IN
       /\ disk' = IF file > Len(disk) THEN Append(disk, empty)
                  ELSE [disk EXCEPT ![file] = empty]
       /\ tmp' = file
       /\ call' = [call EXCEPT ![c] = Doing("write", 0, @.edition, file)]
       /\ clash' = (clash \/ \E d \in Editor \ {c} :
                               call[d].step \in {"write", "rename"} /\ call[d].file = file)
  /\ stamp' = stamp + 1
  /\ UNCHANGED <<conf, edition, page, raced>>

\* What was longer of two writes to one file stays at its end.
WriteTmp(c) ==
  /\ call[c].step = "write"
  /\ LET file == call[c].file
         mixed == IF disk[file].edition = Torn THEN call[c].edition ELSE Torn IN
       /\ \E e \in {call[c].edition, mixed} :
            disk' = [disk EXCEPT ![file] = [edition |-> e, mtime |-> stamp + 1]]
       /\ IF file = conf THEN Arrives(c) ELSE UNCHANGED raced
  /\ stamp' = stamp + 1 /\ call' = [call EXCEPT ![c] = Doing("rename", 0, @.edition, @.file)]
  /\ UNCHANGED <<conf, tmp, edition, page, clash>>

WriteFails(c) ==
  /\ call[c].step = "write" /\ Done(c)
  /\ UNCHANGED <<disk, conf, tmp, edition, stamp, page, raced, clash>>

\* The other save of a pair may have renamed the file of both.
RenameTmp(c) ==
  /\ call[c].step = "rename"
  /\ IF tmp = NoTmp THEN Done(c) /\ UNCHANGED <<conf, tmp, raced>>
     ELSE /\ conf' = tmp /\ tmp' = NoTmp /\ Arrives(c)
          /\ call' = [call EXCEPT ![c] = Doing("stat", 0, @.edition, 0)]
  /\ UNCHANGED <<disk, edition, stamp, page, clash>>

\* The time of the answer is read after the rename.
EndPut(c) ==
  /\ call[c].step = "stat"
  /\ page' = [page EXCEPT ![c] = [edition |-> call[c].edition, mtime |-> disk[conf].mtime]]
  /\ Done(c)
  /\ UNCHANGED <<disk, conf, tmp, edition, stamp, raced, clash>>

UserEditsFile ==
  /\ edition' = edition + 1 /\ stamp' = stamp + 1
  /\ disk' = [disk EXCEPT ![conf] = [edition |-> edition + 1, mtime |-> stamp + 1]]
  /\ raced' = raced \cup {d \in Editor : Saving(d)}
  /\ UNCHANGED <<conf, tmp, page, call, clash>>

\* The forms of the application may outlive the server; a tmp file does.
ConfigDies ==
  /\ call' = [c \in Editor |-> NoCall]
  /\ UNCHANGED <<disk, conf, tmp, edition, stamp, page, raced, clash>>

ConfigNext ==
  \/ \E c \in Editor :
       \/ BeginGet(c) \/ ReadFile(c) \/ EndGet(c)
       \/ BeginPut(c) \/ OpenTmp(c) \/ WriteTmp(c) \/ WriteFails(c)
       \/ RenameTmp(c) \/ EndPut(c)
  \/ UserEditsFile \/ ConfigDies

ConfigSpec == ConfigInit /\ [][ConfigNext]_config

-----------------------------------------------------------------------------
\* Whatever fails or dies half-way, config.yaml is a whole configuration; only
\* two saves that used one tmp file can leave it in pieces.
WholeUnlessClash == Whole \/ clash

\* A save replaces the edition its client had loaded, or one that arrived while
\* a PUT of this client was under way: the comparison of times protects every
\* edit that is older than the request, until two saves have used one tmp file.
NoBlindOverwrite ==
  [][\A c \in Editor :
       (call[c].step = "rename" /\ call'[c].step = "stat")
         => disk[conf].edition = page[c].edition \/ c \in raced \/ clash]_config
=============================================================================
