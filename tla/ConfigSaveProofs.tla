---------------------------- MODULE ConfigSaveProofs ----------------------------
(***************************************************************************)
(* Proofs about the editing of the configuration, for any number of        *)
(* clients: until two saves use one tmp file, config.yaml is whole, and a  *)
(* save overwrites nothing its client could have known of.                 *)
(*                                                                         *)
(* The argument: before a clash at most one save is between opening and    *)
(* renaming the tmp file, and the file carries a modification time that    *)
(* nobody has seen under the name config.yaml.  Therefore a time that is   *)
(* found again there stands for the edition it stood for before.           *)
(***************************************************************************)
EXTENDS ConfigSave, TLAPS

Writes(c) == call[c].step \in {"write", "rename"}
Reads(c)  == call[c].step \in {"read", "reread", "again", "last"}

EditionsReal == \A c \in Editor : Saving(c) => call[c].edition # Torn

TmpApart == tmp # conf

\* One save has the tmp file, and what it wrote is in it.
OneWriter ==
  \A c \in Editor : Writes(c) =>
    /\ tmp # NoTmp /\ call[c].file = tmp
    /\ disk[tmp].edition = IF call[c].step = "write" THEN Torn ELSE call[c].edition
    /\ \A d \in Editor : Writes(d) => d = c

TmpUnseen ==
  tmp # NoTmp =>
    /\ disk[conf].mtime # disk[tmp].mtime
    /\ \A c \in Editor : /\ page[c].mtime # disk[tmp].mtime
                         /\ Reads(c) => call[c].mtime # disk[tmp].mtime

PagesTell ==
  \A c \in Editor \ raced :
    page[c].mtime = disk[conf].mtime => page[c].edition = disk[conf].edition

CallsTell ==
  \A c \in Editor :
    call[c].step \in {"again", "last"} /\ call[c].mtime = disk[conf].mtime
      => call[c].edition = disk[conf].edition

SavesKnow ==
  \A c \in Editor \ raced :
    /\ call[c].step \in {"open", "write", "rename"} => disk[conf].edition = page[c].edition
    /\ call[c].step = "stat" => disk[conf].edition = call[c].edition

Orderly == Whole /\ OneWriter /\ TmpUnseen /\ PagesTell /\ CallsTell /\ SavesKnow

ConfigInv == ConfigTypeOK /\ TmpApart /\ EditionsReal /\ (~clash => Orderly)

-----------------------------------------------------------------------------
CallSteps == {"none", "read", "reread", "again", "last", "open", "write", "rename", "stat"}
Calls == [step : CallSteps, mtime : 0..stamp, edition : 0..edition, file : 0..Len(disk)]
Pages == [edition : 0..edition, mtime : 0..stamp]

\* What ConfigTypeOK says, with names for the sets.
LEMMA TypesNamed ==
  ConfigTypeOK <=>
    /\ edition \in Nat /\ stamp \in Nat /\ disk \in Seq(Pages)
    /\ conf \in 1..Len(disk) /\ tmp \in 0..Len(disk) /\ clash \in BOOLEAN
    /\ raced \subseteq Editor
    /\ page \in [Editor -> Pages] /\ call \in [Editor -> Calls]
BY DEF ConfigTypeOK, Calls, Pages, CallSteps

\* What it says of the parts of the state.
LEMMA PartsTyped ==
  ASSUME ConfigTypeOK
  PROVE  /\ edition \in Nat /\ stamp \in Nat /\ Len(disk) \in Nat
         /\ conf \in 1..Len(disk) /\ tmp \in 0..Len(disk)
         /\ \A i \in 1..Len(disk) : disk[i].edition \in 0..edition /\ disk[i].mtime \in 0..stamp
         /\ \A c \in Editor : /\ page[c].edition \in 0..edition /\ page[c].mtime \in 0..stamp
                              /\ call[c].step \in CallSteps /\ call[c].mtime \in 0..stamp
                              /\ call[c].edition \in 0..edition /\ call[c].file \in 0..Len(disk)
<1>1. disk \in Seq(Pages) /\ page \in [Editor -> Pages] /\ call \in [Editor -> Calls]
  BY TypesNamed
<1>2. \A i \in 1..Len(disk) : disk[i] \in Pages
  BY <1>1
<1>3. \A c \in Editor : page[c] \in Pages /\ call[c] \in Calls
  BY <1>1
<1>4. /\ edition \in Nat /\ stamp \in Nat /\ Len(disk) \in Nat
      /\ conf \in 1..Len(disk) /\ tmp \in 0..Len(disk)
  BY TypesNamed
<1>5. \A i \in 1..Len(disk) : disk[i].edition \in 0..edition /\ disk[i].mtime \in 0..stamp
  BY <1>2 DEF Pages
<1>6. \A c \in Editor : /\ page[c].edition \in 0..edition /\ page[c].mtime \in 0..stamp
                        /\ call[c].step \in CallSteps /\ call[c].mtime \in 0..stamp
                        /\ call[c].edition \in 0..edition /\ call[c].file \in 0..Len(disk)
  BY <1>3 DEF Pages, Calls
<1> QED
  BY <1>4, <1>5, <1>6

\* Nothing that was typed before leaves its type when the counters advance.
LEMMA TypesGrow ==
  ASSUME ConfigTypeOK, edition' \in Nat, edition' >= edition, stamp' \in Nat, stamp' >= stamp,
         Len(disk') \in Nat, Len(disk') >= Len(disk)
  PROVE  Pages \subseteq Pages' /\ Calls \subseteq Calls'
<1> USE DEF Calls, Pages
<1>1. edition \in Nat /\ stamp \in Nat /\ Len(disk) \in Nat
  BY PartsTyped
<1>2. 0..edition \subseteq 0..edition' /\ 0..stamp \subseteq 0..stamp'
  BY <1>1
<1>3. 0..Len(disk) \subseteq 0..Len(disk')
  BY <1>1
<1> QED
  BY <1>2, <1>3

\* One request goes on; the others do not change.
LEMMA OneCall ==
  ASSUME ConfigTypeOK, Calls \subseteq Calls', NEW c \in Editor, NEW r \in Calls',
         call' = [call EXCEPT ![c] = r]
  PROVE  /\ call' \in [Editor -> Calls'] /\ call'[c] = r
         /\ \A d \in Editor : d # c => call'[d] = call[d]
<1>1. call \in [Editor -> Calls]
  BY TypesNamed
<1> QED
  BY <1>1

\* The step of a request alone, where nothing else of it matters.
LEMMA OneDone ==
  ASSUME ConfigTypeOK, Calls \subseteq Calls', NEW c \in Editor, Done(c),
         stamp' \in Nat, edition' \in Nat, Len(disk') \in Nat
  PROVE  /\ call' \in [Editor -> Calls'] /\ call'[c].step = "none"
         /\ \A d \in Editor : d # c => call'[d] = call[d]
<1>1. NoCall \in Calls' /\ NoCall.step = "none"
  BY DEF NoCall, Doing, Calls, CallSteps, Torn
<1>2. call' = [call EXCEPT ![c] = NoCall]
  BY DEF Done
<1> QED
  BY <1>1, <1>2, OneCall

\* A file that is written stays a file.
LEMMA OneFile ==
  ASSUME NEW S, NEW d \in Seq(S), NEW i, NEW x \in S
  PROVE  /\ [d EXCEPT ![i] = x] \in Seq(S) /\ Len([d EXCEPT ![i] = x]) = Len(d)
         /\ \A j \in 1..Len(d) : [d EXCEPT ![i] = x][j] = IF i = j THEN x ELSE d[j]
<1> DEFINE n == [d EXCEPT ![i] = x]
<1>1. n = [j \in 1..Len(d) |-> IF i = j THEN x ELSE d[j]]
  OBVIOUS
<1>2. Len(d) \in Nat /\ \A j \in 1..Len(d) : d[j] \in S
  OBVIOUS
<1> HIDE DEF n
<1>3. n \in Seq(S) /\ Len(n) = Len(d)
  BY <1>1, <1>2
<1> QED
  BY <1>1, <1>3 DEF n

\* Sequences of the old files are sequences of the new.
LEMMA SeqGrows ==
  ASSUME NEW S, NEW T, S \subseteq T, NEW d \in Seq(S)
  PROVE  d \in Seq(T)
OBVIOUS

\* The configuration starts whole.
LEMMA InitConfig == ConfigInit => ConfigInv
<1> SUFFICES ASSUME ConfigInit PROVE ConfigInv
  OBVIOUS
<1> USE DEF ConfigInit, NoTmp, Torn
<1>1. /\ Len(disk) = 1 /\ disk[1] = [edition |-> 1, mtime |-> 1]
      /\ disk \in Seq([edition : 0..1, mtime : 0..1])
  OBVIOUS
<1>2. /\ NoCall \in Calls /\ NoCall.step = "none"
      /\ [edition |-> 1, mtime |-> 1] \in Pages
  BY <1>1 DEF Calls, CallSteps, Pages, NoCall, Doing
<1>3. ConfigTypeOK
  <2>1. disk \in Seq(Pages)
    BY <1>2
  <2>2. page \in [Editor -> Pages]
    BY <1>2
  <2>3. call \in [Editor -> Calls]
    BY <1>2
  <2>4. edition \in Nat /\ stamp \in Nat /\ clash \in BOOLEAN /\ raced \subseteq Editor
    OBVIOUS
  <2>5. conf \in 1..Len(disk) /\ tmp \in 0..Len(disk)
    BY <1>1
  <2> HIDE DEF ConfigInit, NoTmp, Torn
  <2> QED
    BY <2>1, <2>2, <2>3, <2>4, <2>5, TypesNamed
<1>4. \A c \in Editor : call[c].step = "none" /\ page[c] = [edition |-> 1, mtime |-> 1]
  BY <1>2
<1>5. TmpApart /\ EditionsReal
  BY <1>4 DEF TmpApart, EditionsReal, Saving
<1>6. Orderly
  BY <1>1, <1>4 DEF Orderly, Whole, OneWriter, TmpUnseen, PagesTell, CallsTell, SavesKnow,
     Writes, Reads
<1> QED
  BY <1>3, <1>5, <1>6 DEF ConfigInv

-----------------------------------------------------------------------------
\* The type of a state in which the files are the same.
LEMMA SameFilesTyped ==
  ASSUME ConfigTypeOK, UNCHANGED <<disk, conf, tmp, edition, stamp, clash>>,
         raced' \subseteq Editor, page' \in [Editor -> Pages], call' \in [Editor -> Calls']
  PROVE  ConfigTypeOK'
BY DEF ConfigTypeOK, Calls, Pages, CallSteps

\* A request begins to read, reads, and asks for the time once more.
LEMMA ReadKeeps ==
  ASSUME ConfigInv, NEW c \in Editor, NEW s \in {"read", "reread", "again", "last"},
         NEW m \in 0..stamp, NEW e \in 0..edition,
         call' = [call EXCEPT ![c] = Doing(s, m, e, 0)],
         UNCHANGED <<disk, conf, tmp, edition, stamp, page, raced, clash>>,
         m = disk[conf].mtime \/ (Reads(c) /\ m = call[c].mtime),
         s \in {"again", "last"} => e = disk[conf].edition
  PROVE  ConfigInv'
<1>1. ConfigTypeOK /\ Calls \subseteq Calls'
  BY DEF ConfigInv, Calls
<1>2. /\ call' \in [Editor -> Calls']
      /\ call'[c].step = s /\ call'[c].mtime = m /\ call'[c].edition = e
      /\ \A d \in Editor : d # c => call'[d] = call[d]
  <2>1. s \in CallSteps /\ 0 \in 0..Len(disk')
    BY <1>1, PartsTyped DEF CallSteps
  <2>2. m \in 0..stamp' /\ e \in 0..edition'
    OBVIOUS
  <2> DEFINE r == Doing(s, m, e, 0)
  <2>3. r \in Calls' /\ r.step = s /\ r.mtime = m /\ r.edition = e
    BY <2>1, <2>2 DEF Doing, Calls
  <2>4. call' = [call EXCEPT ![c] = r]
    OBVIOUS
  <2> HIDE DEF r
  <2> QED
    BY <1>1, <2>3, <2>4, OneCall
<1>3. ConfigTypeOK'
  BY <1>1, <1>2, TypesNamed, SameFilesTyped
<1>4. TmpApart' /\ EditionsReal'
  BY <1>2 DEF ConfigInv, TmpApart, EditionsReal, Saving
<1>5. ASSUME ~clash, Orderly PROVE Orderly'
  BY <1>2, <1>5 DEF Orderly, Whole, OneWriter, TmpUnseen, PagesTell, CallsTell,
     SavesKnow, Writes, Reads
<1> QED
  BY <1>3, <1>4, <1>5 DEF ConfigInv

LEMMA BeginGetKeeps ==
  ASSUME ConfigInv, NEW c \in Editor, BeginGet(c)
  PROVE  ConfigInv'
<1>1. disk[conf].mtime \in 0..stamp /\ Torn \in 0..edition
  BY PartsTyped DEF ConfigInv, Torn
<1> QED
  BY <1>1, ReadKeeps DEF BeginGet

LEMMA ReadFileKeeps ==
  ASSUME ConfigInv, NEW c \in Editor, ReadFile(c)
  PROVE  ConfigInv'
<1> DEFINE s == IF call[c].step = "read" THEN "again" ELSE "last"
<1>1. /\ disk[conf].edition \in 0..edition /\ call[c].mtime \in 0..stamp
      /\ s \in {"again", "last"}
  BY PartsTyped DEF ConfigInv
<1>2. /\ call' = [call EXCEPT ![c] = Doing(s, call[c].mtime, disk[conf].edition, 0)]
      /\ UNCHANGED <<disk, conf, tmp, edition, stamp, page, raced, clash>> /\ Reads(c)
  BY DEF ReadFile, Reads
<1> HIDE DEF s
<1> QED
  BY <1>1, <1>2, ReadKeeps

\* A request ends without a result.
LEMMA DoneKeeps ==
  ASSUME ConfigInv, NEW c \in Editor, Done(c),
         UNCHANGED <<disk, conf, tmp, edition, stamp, page, raced, clash>>
  PROVE  ConfigInv'
<1>1. ConfigTypeOK /\ Calls \subseteq Calls'
  BY DEF ConfigInv, Calls
<1>2. /\ call' \in [Editor -> Calls'] /\ call'[c].step = "none"
      /\ \A d \in Editor : d # c => call'[d] = call[d]
  BY <1>1, PartsTyped, OneDone
<1>3. ConfigTypeOK'
  BY <1>1, <1>2, TypesNamed, SameFilesTyped
<1>4. TmpApart' /\ EditionsReal'
  BY <1>2 DEF ConfigInv, TmpApart, EditionsReal, Saving
<1>5. ASSUME ~clash, Orderly PROVE Orderly'
  BY <1>2, <1>5 DEF Orderly, Whole, OneWriter, TmpUnseen, PagesTell, CallsTell,
     SavesKnow, Writes, Reads
<1> QED
  BY <1>3, <1>4, <1>5 DEF ConfigInv

\* A request ends and its client has a page.
LEMMA PageKeeps ==
  ASSUME ConfigInv, NEW c \in Editor, NEW e \in 0..edition, NEW m \in 0..stamp,
         UNCHANGED <<disk, conf, tmp, edition, stamp, clash>>, Done(c),
         page' = [page EXCEPT ![c] = [edition |-> e, mtime |-> m]],
         raced' = raced \ {c} \/ raced' = raced,
         m = disk[conf].mtime \/ (Reads(c) /\ m = call[c].mtime),
         ~clash /\ Orderly /\ c \notin raced' /\ m = disk[conf].mtime => e = disk[conf].edition
  PROVE  ConfigInv'
<1>1. ConfigTypeOK /\ Calls \subseteq Calls'
  BY DEF ConfigInv, Calls
<1>2. /\ call' \in [Editor -> Calls'] /\ call'[c].step = "none"
      /\ \A d \in Editor : d # c => call'[d] = call[d]
  BY <1>1, PartsTyped, OneDone
<1>3. /\ page' \in [Editor -> Pages] /\ page'[c].edition = e /\ page'[c].mtime = m
      /\ \A d \in Editor : d # c => page'[d] = page[d]
  <2>1. [edition |-> e, mtime |-> m] \in Pages /\ page \in [Editor -> Pages]
    BY <1>1, TypesNamed DEF Pages
  <2> QED
    BY <2>1
<1>4. ConfigTypeOK'
  BY <1>1, <1>2, <1>3, TypesNamed, SameFilesTyped
<1>5. TmpApart' /\ EditionsReal'
  BY <1>2 DEF ConfigInv, TmpApart, EditionsReal, Saving
<1>6. ASSUME ~clash, Orderly PROVE Orderly'
  <2>1. Whole' /\ OneWriter' /\ CallsTell' /\ SavesKnow'
    BY <1>2, <1>3, <1>6 DEF Orderly, Whole, OneWriter, CallsTell, SavesKnow, Writes
  <2>2. TmpUnseen'
    BY <1>2, <1>3, <1>6 DEF Orderly, TmpUnseen, Reads
  <2>3. PagesTell'
    BY <1>3, <1>6 DEF Orderly, PagesTell
  <2> QED
    BY <2>1, <2>2, <2>3 DEF Orderly
<1> QED
  BY <1>4, <1>5, <1>6 DEF ConfigInv

LEMMA EndGetKeeps ==
  ASSUME ConfigInv, NEW c \in Editor, EndGet(c)
  PROVE  ConfigInv'
<1>1. /\ call[c].mtime \in 0..stamp /\ call[c].edition \in 0..edition /\ Reads(c)
      /\ disk[conf].mtime \in 0..stamp /\ Torn \in 0..edition
  BY PartsTyped DEF ConfigInv, EndGet, Reads, Torn
<1>2. CASE /\ Stable(c) /\ Done(c) /\ raced' = raced \ {c}
           /\ page' = [page EXCEPT ![c] = [edition |-> call[c].edition, mtime |-> call[c].mtime]]
  <2>1. Orderly /\ call[c].mtime = disk[conf].mtime => call[c].edition = disk[conf].edition
    BY DEF EndGet, Orderly, CallsTell
  <2> QED
    BY <1>1, <1>2, <2>1, PageKeeps DEF EndGet
<1>3. CASE Done(c) /\ UNCHANGED <<page, raced>>
  BY <1>3, DoneKeeps DEF EndGet
<1>4. CASE /\ UNCHANGED <<page, raced>>
           /\ call' = [call EXCEPT ![c] = Doing("reread", disk[conf].mtime, Torn, 0)]
  BY <1>1, <1>4, ReadKeeps DEF EndGet
<1> QED
  BY <1>2, <1>3, <1>4 DEF EndGet

-----------------------------------------------------------------------------
\* A save begins with the edition its client had.
LEMMA BeginPutKeeps ==
  ASSUME ConfigInv, NEW c \in Editor, BeginPut(c)
  PROVE  ConfigInv'
<1>1. /\ ConfigTypeOK /\ edition \in Nat /\ stamp \in Nat /\ Len(disk) \in Nat
      /\ edition' = edition + 1 /\ UNCHANGED <<disk, conf, tmp, stamp, page, raced, clash>>
      /\ call' = [call EXCEPT ![c] = Doing("open", 0, edition + 1, 0)]
      /\ page[c].mtime = disk[conf].mtime
  BY PartsTyped DEF ConfigInv, BeginPut, SameBase
<1>2. Calls \subseteq Calls' /\ Pages \subseteq Pages'
  BY <1>1, TypesGrow
<1>3. /\ call' \in [Editor -> Calls'] /\ call'[c].step = "open" /\ call'[c].edition = edition + 1
      /\ \A d \in Editor : d # c => call'[d] = call[d]
  <2>1. /\ "open" \in CallSteps /\ 0 \in 0..stamp' /\ edition + 1 \in 0..edition'
        /\ 0 \in 0..Len(disk')
    BY <1>1 DEF CallSteps
  <2> DEFINE r == Doing("open", 0, edition + 1, 0)
  <2>2. r \in Calls' /\ r.step = "open" /\ r.edition = edition + 1
    BY <2>1 DEF Doing, Calls
  <2>3. call' = [call EXCEPT ![c] = r]
    BY <1>1
  <2> HIDE DEF r
  <2> QED
    BY <1>1, <1>2, <2>2, <2>3, OneCall
<1>4. ConfigTypeOK'
  <2>1. disk' \in Seq(Pages') /\ page' \in [Editor -> Pages']
    BY <1>1, <1>2, TypesNamed, SeqGrows
  <2>2. edition' \in Nat
    BY <1>1
  <2> QED
    BY <1>1, <1>3, <2>1, <2>2, TypesNamed DEF ConfigTypeOK, Calls, Pages, CallSteps
<1>5. TmpApart' /\ EditionsReal'
  BY <1>1, <1>3 DEF ConfigInv, TmpApart, EditionsReal, Saving, Torn
<1>6. ASSUME ~clash, Orderly PROVE Orderly'
  BY <1>1, <1>3, <1>6 DEF Orderly, Whole, OneWriter, TmpUnseen, PagesTell, CallsTell,
     SavesKnow, Writes, Reads
<1> QED
  BY <1>1, <1>4, <1>5, <1>6 DEF ConfigInv

\* The tmp file is opened: its time is new.
LEMMA OpenTmpKeeps ==
  ASSUME ConfigInv, NEW c \in Editor, OpenTmp(c)
  PROVE  ConfigInv'
<1> DEFINE empty == [edition |-> Torn, mtime |-> stamp + 1]
<1>1. /\ ConfigTypeOK /\ edition \in Nat /\ stamp \in Nat /\ Len(disk) \in Nat
      /\ call[c].step = "open" /\ call[c].edition \in 0..edition
      /\ conf \in 1..Len(disk) /\ tmp \in 0..Len(disk) /\ conf # tmp
  BY PartsTyped DEF ConfigInv, OpenTmp, TmpApart
<1>2. /\ stamp' = stamp + 1 /\ UNCHANGED <<conf, edition, page, raced>> /\ tmp' = TmpFile
      /\ disk' = IF TmpFile > Len(disk) THEN Append(disk, empty)
                 ELSE [disk EXCEPT ![TmpFile] = empty]
      /\ call' = [call EXCEPT ![c] = Doing("write", 0, call[c].edition, TmpFile)]
      /\ clash' = (clash \/ \E d \in Editor \ {c} : Writes(d) /\ call[d].file = TmpFile)
  BY DEF OpenTmp, Writes
<1>3. /\ TmpFile \in 1..(Len(disk) + 1) /\ TmpFile # conf
      /\ TmpFile > Len(disk) => TmpFile = Len(disk) + 1
  BY <1>1 DEF TmpFile, NoTmp
<1>4. /\ Len(disk') >= Len(disk) /\ Len(disk') \in Nat /\ TmpFile \in 1..Len(disk')
      /\ disk'[TmpFile] = empty /\ disk'[conf] = disk[conf]
      /\ disk' \in Seq(Pages')
  <2>1. Pages \subseteq Pages'
    BY <1>1, <1>2 DEF Pages
  <2>2. disk \in Seq(Pages') /\ empty \in Pages'
    <3>1. empty \in Pages'
      BY <1>1, <1>2 DEF Pages, Torn
    <3> QED
      BY <1>1, <2>1, <3>1, TypesNamed, SeqGrows
  <2>3. CASE TmpFile > Len(disk)
    <3>1. disk' = Append(disk, empty) /\ TmpFile = Len(disk) + 1
      BY <1>2, <1>3, <2>3
    <3> HIDE DEF empty
    <3> QED
      BY <1>1, <2>2, <3>1
  <2>4. CASE ~(TmpFile > Len(disk))
    <3>1. disk' = [disk EXCEPT ![TmpFile] = empty] /\ TmpFile \in 1..Len(disk)
      BY <1>1, <1>2, <1>3, <2>4
    <3> HIDE DEF empty
    <3> QED
      BY <1>1, <1>3, <2>2, <3>1, OneFile
  <2> QED
    BY <2>3, <2>4
<1>5. Calls \subseteq Calls' /\ Pages \subseteq Pages'
  BY <1>1, <1>2, <1>4, TypesGrow
<1>6. /\ call' \in [Editor -> Calls'] /\ call'[c].step = "write" /\ call'[c].file = TmpFile
      /\ call'[c].edition = call[c].edition
      /\ \A d \in Editor : d # c => call'[d] = call[d]
  <2>1. /\ "write" \in CallSteps /\ 0 \in 0..stamp' /\ call[c].edition \in 0..edition'
        /\ TmpFile \in 0..Len(disk')
    BY <1>1, <1>2, <1>4 DEF CallSteps
  <2> DEFINE r == Doing("write", 0, call[c].edition, TmpFile)
  <2>2. /\ r \in Calls' /\ r.step = "write" /\ r.file = TmpFile
        /\ r.edition = call[c].edition
    BY <2>1 DEF Doing, Calls
  <2>3. call' = [call EXCEPT ![c] = r]
    BY <1>2
  <2> HIDE DEF r
  <2> QED
    BY <1>1, <1>5, <2>2, <2>3, OneCall
<1>7. ConfigTypeOK'
  <2>1. page' \in [Editor -> Pages'] /\ raced' \subseteq Editor
    BY <1>1, <1>2, <1>5, TypesNamed
  <2>2. edition' \in Nat /\ stamp' \in Nat /\ conf' \in 1..Len(disk') /\ tmp' \in 0..Len(disk')
    BY <1>1, <1>2, <1>4
  <2>3. clash' \in BOOLEAN
    BY <1>2
  <2> QED
    BY <1>4, <1>6, <2>1, <2>2, <2>3 DEF ConfigTypeOK, Calls, Pages, CallSteps
<1>8. TmpApart' /\ EditionsReal'
  BY <1>1, <1>2, <1>3, <1>6 DEF ConfigInv, TmpApart, EditionsReal, Saving
<1>9. ASSUME ~clash' PROVE Orderly'
  <2>1. Orderly
    BY <1>2, <1>9 DEF ConfigInv
  <2>2. \A d \in Editor : d # c => ~Writes(d)
    BY <1>2, <1>9, <2>1 DEF Orderly, OneWriter, TmpFile
  <2>3. Whole'
    BY <1>2, <1>4, <2>1 DEF Orderly, Whole
  <2>4. OneWriter'
    BY <1>1, <1>2, <1>3, <1>4, <1>6, <2>2 DEF OneWriter, Writes, NoTmp
  <2>5. TmpUnseen'
    <3>1. \A x \in 0..stamp : x # stamp + 1
      BY <1>1
    <3>2. /\ disk[conf].mtime \in 0..stamp
          /\ \A d \in Editor : page[d].mtime \in 0..stamp /\ call[d].mtime \in 0..stamp
      BY <1>1, PartsTyped
    <3>3. disk'[tmp'].mtime = stamp + 1
      BY <1>2, <1>4
    <3> QED
      BY <1>2, <1>4, <1>6, <3>1, <3>2, <3>3 DEF TmpUnseen, Reads
  <2>6. PagesTell' /\ CallsTell' /\ SavesKnow'
    BY <1>1, <1>2, <1>4, <1>6, <2>1 DEF Orderly, PagesTell, CallsTell, SavesKnow
  <2> QED
    BY <2>1, <2>3, <2>4, <2>5, <2>6 DEF Orderly
<1> QED
  BY <1>7, <1>8, <1>9 DEF ConfigInv

\* The file is written: before a clash it is the tmp file, and what is in it is
\* the edition of this save.
LEMMA WriteTmpKeeps ==
  ASSUME ConfigInv, NEW c \in Editor, WriteTmp(c)
  PROVE  ConfigInv'
<1> DEFINE file == call[c].file
<1>1. /\ ConfigTypeOK /\ edition \in Nat /\ stamp \in Nat /\ Len(disk) \in Nat
      /\ call[c].step = "write" /\ call[c].edition \in 0..edition /\ file \in 0..Len(disk)
      /\ conf \in 1..Len(disk) /\ tmp \in 0..Len(disk) /\ conf # tmp
  BY PartsTyped DEF ConfigInv, WriteTmp, TmpApart
<1>2. /\ stamp' = stamp + 1 /\ UNCHANGED <<conf, tmp, edition, page, clash>>
      /\ call' = [call EXCEPT ![c] = Doing("rename", 0, call[c].edition, file)]
      /\ raced' = raced \/ Arrives(c)
      /\ file # conf => raced' = raced
  BY DEF WriteTmp
<1>3. PICK e \in {call[c].edition, IF disk[file].edition = Torn THEN call[c].edition ELSE Torn} :
        disk' = [disk EXCEPT ![file] = [edition |-> e, mtime |-> stamp + 1]]
  BY DEF WriteTmp
<1>4. e \in 0..edition /\ (disk[file].edition = Torn => e = call[c].edition)
  BY <1>1, <1>3 DEF Torn
<1> DEFINE new == [edition |-> e, mtime |-> stamp + 1]
<1>5. /\ disk' \in Seq(Pages') /\ Len(disk') = Len(disk)
      /\ \A i \in 1..Len(disk) : disk'[i] = IF file = i THEN new ELSE disk[i]
  <2>1. Pages \subseteq Pages'
    BY <1>1, <1>2 DEF Pages
  <2>2. new \in Pages'
    BY <1>1, <1>2, <1>4 DEF Pages
  <2>3. disk \in Seq(Pages')
    BY <1>1, <2>1, TypesNamed, SeqGrows
  <2>4. disk' = [disk EXCEPT ![file] = new]
    BY <1>3
  <2> HIDE DEF new, file
  <2> QED
    BY <2>2, <2>3, <2>4, OneFile
<1>6. Calls \subseteq Calls' /\ Pages \subseteq Pages'
  BY <1>1, <1>2, <1>5, TypesGrow
<1>7. /\ call' \in [Editor -> Calls'] /\ call'[c].step = "rename" /\ call'[c].file = file
      /\ call'[c].edition = call[c].edition
      /\ \A d \in Editor : d # c => call'[d] = call[d]
  <2>1. /\ "rename" \in CallSteps /\ 0 \in 0..stamp' /\ call[c].edition \in 0..edition'
        /\ file \in 0..Len(disk')
    BY <1>1, <1>2, <1>5 DEF CallSteps
  <2> DEFINE r == Doing("rename", 0, call[c].edition, file)
  <2>2. /\ r \in Calls' /\ r.step = "rename" /\ r.file = file
        /\ r.edition = call[c].edition
    BY <2>1 DEF Doing, Calls
  <2>3. call' = [call EXCEPT ![c] = r]
    BY <1>2
  <2> HIDE DEF r
  <2> QED
    BY <1>1, <1>6, <2>2, <2>3, OneCall
<1>8. ConfigTypeOK'
  <2>1. page' \in [Editor -> Pages'] /\ raced' \subseteq Editor
    BY <1>1, <1>2, <1>6, TypesNamed DEF Arrives
  <2>2. /\ edition' \in Nat /\ stamp' \in Nat /\ conf' \in 1..Len(disk') /\ tmp' \in 0..Len(disk')
        /\ clash' \in BOOLEAN
    BY <1>1, <1>2, <1>5, TypesNamed
  <2> QED
    BY <1>5, <1>7, <2>1, <2>2 DEF ConfigTypeOK, Calls, Pages, CallSteps
<1>9. TmpApart' /\ EditionsReal'
  BY <1>1, <1>2, <1>7 DEF ConfigInv, TmpApart, EditionsReal, Saving
<1>10. ASSUME ~clash' PROVE Orderly'
  <2>1. Orderly
    BY <1>2, <1>10 DEF ConfigInv
  <2>2. /\ tmp # NoTmp /\ file = tmp /\ e = call[c].edition
        /\ \A d \in Editor : Writes(d) => d = c
    BY <1>1, <1>4, <2>1 DEF Orderly, OneWriter, Writes
  <2>3. disk'[conf] = disk[conf] /\ disk'[tmp] = new /\ raced' = raced
    BY <1>1, <1>2, <1>5, <2>2 DEF NoTmp
  <2>4. Whole'
    BY <1>2, <2>1, <2>3 DEF Orderly, Whole
  <2>5. OneWriter'
    BY <1>1, <1>2, <1>7, <2>2, <2>3 DEF OneWriter, Writes
  <2>6. TmpUnseen'
    <3>1. \A x \in 0..stamp : x # stamp + 1
      BY <1>1
    <3>2. /\ disk[conf].mtime \in 0..stamp
          /\ \A d \in Editor : page[d].mtime \in 0..stamp /\ call[d].mtime \in 0..stamp
      BY <1>1, PartsTyped
    <3>3. disk'[tmp'].mtime = stamp + 1
      BY <1>2, <2>3
    <3> HIDE DEF file, new
    <3> QED
      BY <1>2, <1>7, <2>3, <3>1, <3>2, <3>3 DEF TmpUnseen, Reads
  <2>7. PagesTell' /\ CallsTell' /\ SavesKnow'
    <3> HIDE DEF file, new
    <3> QED
      BY <1>1, <1>2, <1>7, <2>1, <2>3 DEF Orderly, PagesTell, CallsTell, SavesKnow
  <2> QED
    BY <2>4, <2>5, <2>6, <2>7 DEF Orderly
<1> QED
  BY <1>8, <1>9, <1>10 DEF ConfigInv

\* The tmp file becomes config.yaml, with a time that nobody has seen there.
LEMMA RenameTmpKeeps ==
  ASSUME ConfigInv, NEW c \in Editor, RenameTmp(c)
  PROVE  ConfigInv'
<1>1. CASE tmp = NoTmp
  <2>1. Done(c) /\ UNCHANGED <<disk, conf, tmp, edition, stamp, page, raced, clash>>
    BY <1>1 DEF RenameTmp
  <2> QED
    BY <2>1, DoneKeeps
<1>2. CASE tmp # NoTmp
  <2>1. /\ ConfigTypeOK /\ edition \in Nat /\ stamp \in Nat /\ Len(disk) \in Nat
        /\ call[c].step = "rename" /\ call[c].edition \in 0..edition
        /\ conf \in 1..Len(disk) /\ tmp \in 1..Len(disk)
    BY <1>2, PartsTyped DEF ConfigInv, RenameTmp, NoTmp
  <2>2. /\ conf' = tmp /\ tmp' = NoTmp /\ UNCHANGED <<disk, edition, stamp, page, clash>>
        /\ call' = [call EXCEPT ![c] = Doing("stat", 0, call[c].edition, 0)]
        /\ raced' = (raced \ {c}) \cup {d \in Editor \ {c} : Saving(d)}
    BY <1>2 DEF RenameTmp, Arrives
  <2>3. Calls \subseteq Calls'
    BY <2>2 DEF Calls
  <2>4. /\ call' \in [Editor -> Calls'] /\ call'[c].step = "stat"
        /\ call'[c].edition = call[c].edition
        /\ \A d \in Editor : d # c => call'[d] = call[d]
    <3> DEFINE r == Doing("stat", 0, call[c].edition, 0)
    <3>1. "stat" \in CallSteps /\ 0 \in 0..stamp' /\ call[c].edition \in 0..edition' /\ 0 \in 0..Len(disk')
      BY <2>1, <2>2 DEF CallSteps
    <3>2. r \in Calls' /\ r.step = "stat" /\ r.edition = call[c].edition
      BY <3>1 DEF Doing, Calls
    <3>3. call' = [call EXCEPT ![c] = r]
      BY <2>2
    <3> HIDE DEF r
    <3> QED
      BY <2>1, <2>3, <3>2, <3>3, OneCall
  <2>5. ConfigTypeOK'
    <3>1. /\ page' \in [Editor -> Pages'] /\ disk' \in Seq(Pages')
          /\ raced' \subseteq Editor /\ clash' \in BOOLEAN
      BY <2>1, <2>2, TypesNamed DEF Pages
    <3>2. edition' \in Nat /\ stamp' \in Nat /\ conf' \in 1..Len(disk') /\ tmp' \in 0..Len(disk')
      BY <2>1, <2>2 DEF NoTmp
    <3> QED
      BY <2>4, <3>1, <3>2 DEF ConfigTypeOK, Calls, Pages, CallSteps
  <2>6. TmpApart' /\ EditionsReal'
    BY <2>1, <2>2, <2>4 DEF ConfigInv, TmpApart, EditionsReal, Saving, NoTmp
  <2>7. ASSUME ~clash' PROVE Orderly'
    <3>1. Orderly
      BY <2>2, <2>7 DEF ConfigInv
    <3>2. /\ disk[tmp].edition = call[c].edition
          /\ \A d \in Editor : Writes(d) => d = c
      BY <2>1, <3>1 DEF Orderly, OneWriter, Writes
    <3>3. Whole'
      BY <2>1, <2>2, <3>2 DEF Whole, ConfigInv, EditionsReal, Saving
    <3>4. OneWriter' /\ TmpUnseen'
      BY <2>2, <2>4, <3>2 DEF OneWriter, TmpUnseen, Writes
    <3>5. PagesTell' /\ CallsTell'
      BY <1>2, <2>2, <2>4, <3>1 DEF Orderly, TmpUnseen, PagesTell, CallsTell, Reads
    <3>6. SavesKnow'
      BY <2>2, <2>4, <3>2 DEF SavesKnow, Saving
    <3> QED
      BY <3>3, <3>4, <3>5, <3>6 DEF Orderly
  <2> QED
    BY <2>5, <2>6, <2>7 DEF ConfigInv
<1> QED
  BY <1>1, <1>2

\* The answer of a save carries the time the file has now.
LEMMA EndPutKeeps ==
  ASSUME ConfigInv, NEW c \in Editor, EndPut(c)
  PROVE  ConfigInv'
<1>1. call[c].edition \in 0..edition /\ disk[conf].mtime \in 0..stamp
  BY PartsTyped DEF ConfigInv
<1>2. Orderly /\ c \notin raced => call[c].edition = disk[conf].edition
  BY DEF EndPut, Orderly, SavesKnow
<1> QED
  BY <1>1, <1>2, PageKeeps DEF EndPut

\* Users edit the file: no time that was seen is the time of their edition.
LEMMA UserEditsKeeps ==
  ASSUME ConfigInv, UserEditsFile
  PROVE  ConfigInv'
<1> DEFINE new == [edition |-> edition + 1, mtime |-> stamp + 1]
<1>1. /\ ConfigTypeOK /\ edition \in Nat /\ stamp \in Nat /\ Len(disk) \in Nat
      /\ conf \in 1..Len(disk) /\ tmp \in 0..Len(disk) /\ conf # tmp
  BY PartsTyped DEF ConfigInv, TmpApart
<1>2. /\ edition' = edition + 1 /\ stamp' = stamp + 1 /\ UNCHANGED <<conf, tmp, page, call, clash>>
      /\ disk' = [disk EXCEPT ![conf] = new]
      /\ raced' = raced \cup {d \in Editor : Saving(d)}
  BY DEF UserEditsFile
<1>3. /\ disk' \in Seq(Pages') /\ Len(disk') = Len(disk)
      /\ \A i \in 1..Len(disk) : disk'[i] = IF conf = i THEN new ELSE disk[i]
  <2>1. Pages \subseteq Pages'
    BY <1>1, <1>2 DEF Pages
  <2>2. new \in Pages'
    BY <1>1, <1>2 DEF Pages
  <2>3. disk \in Seq(Pages')
    BY <1>1, <2>1, TypesNamed, SeqGrows
  <2> HIDE DEF new
  <2> QED
    BY <1>2, <2>2, <2>3, OneFile
<1>4. Calls \subseteq Calls' /\ Pages \subseteq Pages'
  BY <1>1, <1>2, <1>3, TypesGrow
<1>5. ConfigTypeOK'
  <2>1. page' \in [Editor -> Pages'] /\ call' \in [Editor -> Calls'] /\ raced' \subseteq Editor
    BY <1>1, <1>2, <1>4, TypesNamed
  <2>2. /\ edition' \in Nat /\ stamp' \in Nat /\ conf' \in 1..Len(disk') /\ tmp' \in 0..Len(disk')
        /\ clash' \in BOOLEAN
    BY <1>1, <1>2, <1>3, TypesNamed
  <2> QED
    BY <1>3, <2>1, <2>2 DEF ConfigTypeOK, Calls, Pages, CallSteps
<1>6. TmpApart' /\ EditionsReal'
  BY <1>1, <1>2 DEF ConfigInv, TmpApart, EditionsReal, Saving
<1>7. ASSUME ~clash' PROVE Orderly'
  <2>1. Orderly
    BY <1>2, <1>7 DEF ConfigInv
  <2>2. /\ disk'[conf].mtime = stamp + 1 /\ disk'[conf].edition = edition + 1
        /\ \A i \in 1..Len(disk) : i # conf => disk'[i] = disk[i]
    BY <1>1, <1>3
  <2>3. Whole'
    BY <1>1, <1>2, <2>2 DEF Whole, Torn
  <2>4. OneWriter'
    BY <1>1, <1>2, <2>1, <2>2 DEF Orderly, OneWriter, Writes, NoTmp
  <2>5. /\ \A x \in 0..stamp : x # stamp + 1
        /\ \A d \in Editor : page[d].mtime \in 0..stamp /\ call[d].mtime \in 0..stamp
        /\ \A i \in 1..Len(disk) : disk[i].mtime \in 0..stamp
    BY <1>1, PartsTyped
  <2> HIDE DEF new
  <2>6. TmpUnseen'
    <3>1. tmp # NoTmp => tmp \in 1..Len(disk)
      BY <1>1 DEF NoTmp
    <3> QED
      BY <1>1, <1>2, <2>1, <2>2, <2>5, <3>1 DEF Orderly, TmpUnseen, Reads
  <2>7. PagesTell' /\ CallsTell'
    BY <1>2, <2>2, <2>5 DEF PagesTell, CallsTell
  <2>8. SavesKnow'
    BY <1>2 DEF SavesKnow, Saving
  <2> QED
    BY <2>3, <2>4, <2>6, <2>7, <2>8 DEF Orderly
<1> QED
  BY <1>5, <1>6, <1>7 DEF ConfigInv

\* The server dies with all its requests.
LEMMA ConfigDiesKeeps ==
  ASSUME ConfigInv, ConfigDies
  PROVE  ConfigInv'
<1>1. /\ ConfigTypeOK /\ UNCHANGED <<disk, conf, tmp, edition, stamp, page, raced, clash>>
      /\ call' = [c \in Editor |-> NoCall]
  BY DEF ConfigInv, ConfigDies
<1>2. NoCall \in Calls' /\ NoCall.step = "none"
  BY <1>1, PartsTyped DEF NoCall, Doing, Calls, CallSteps, Torn
<1>3. call' \in [Editor -> Calls'] /\ \A c \in Editor : call'[c].step = "none"
  BY <1>1, <1>2
<1>4. ConfigTypeOK'
  BY <1>1, <1>3, TypesNamed, SameFilesTyped
<1>5. TmpApart' /\ EditionsReal'
  BY <1>1, <1>3 DEF ConfigInv, TmpApart, EditionsReal, Saving
<1>6. ASSUME ~clash, Orderly PROVE Orderly'
  BY <1>1, <1>3, <1>6 DEF Orderly, Whole, OneWriter, TmpUnseen, PagesTell, CallsTell,
     SavesKnow, Writes, Reads
<1> QED
  BY <1>1, <1>4, <1>5, <1>6 DEF ConfigInv

-----------------------------------------------------------------------------
\* Every step keeps the invariant.
LEMMA NextConfig == ConfigInv /\ [ConfigNext]_config => ConfigInv'
<1> SUFFICES ASSUME ConfigInv, [ConfigNext]_config PROVE ConfigInv'
  OBVIOUS
<1>1. CASE UNCHANGED config
  BY <1>1 DEF config, ConfigInv, ConfigTypeOK, TmpApart, EditionsReal, Saving, Orderly, Whole,
     OneWriter, TmpUnseen, PagesTell, CallsTell,
     SavesKnow, Writes, Reads
<1>2. CASE UserEditsFile \/ ConfigDies
  BY <1>2, UserEditsKeeps, ConfigDiesKeeps
<1>3. ASSUME NEW c \in Editor, BeginGet(c) \/ ReadFile(c) \/ EndGet(c) PROVE ConfigInv'
  BY <1>3, BeginGetKeeps, ReadFileKeeps, EndGetKeeps
<1>4. ASSUME NEW c \in Editor, BeginPut(c) \/ OpenTmp(c) \/ WriteTmp(c) PROVE ConfigInv'
  BY <1>4, BeginPutKeeps, OpenTmpKeeps, WriteTmpKeeps
<1>5. ASSUME NEW c \in Editor, RenameTmp(c) \/ EndPut(c) \/ WriteFails(c) PROVE ConfigInv'
  BY <1>5, RenameTmpKeeps, EndPutKeeps, DoneKeeps DEF WriteFails
<1> QED
  BY <1>1, <1>2, <1>3, <1>4, <1>5 DEF ConfigNext

\* Until two saves use one tmp file, config.yaml is whole, whatever fails and
\* whenever the server dies.
THEOREM ConfigIsWhole == ConfigSpec => []WholeUnlessClash
<1>1. ConfigInv => WholeUnlessClash
  BY DEF ConfigInv, Orderly, WholeUnlessClash
<1> QED
  BY <1>1, InitConfig, NextConfig, PTL DEF ConfigSpec

\* A save replaces what its client had loaded, but for editions that arrived
\* while a PUT of this client was under way.
THEOREM SavesAreNotBlind == ConfigSpec => NoBlindOverwrite
<1>1. ConfigInv /\ [ConfigNext]_config =>
        [\A c \in Editor :
           (call[c].step = "rename" /\ call'[c].step = "stat")
             => disk[conf].edition = page[c].edition \/ c \in raced \/ clash]_config
  BY DEF ConfigInv, Orderly, SavesKnow
<1> QED
  BY <1>1, InitConfig, NextConfig, PTL DEF ConfigSpec, NoBlindOverwrite
=============================================================================
