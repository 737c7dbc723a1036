--------------------------- MODULE SchedulerProofs ---------------------------
(***************************************************************************)
(* Theorems about Scheduler and the tokens under it, for every number of   *)
(* accounts and calendars, every threshold, and every number of edits and  *)
(* faults.                                                                 *)
(*                                                                         *)
(* DiskUsable needs to know that an unsaved token is good and in one place *)
(* only (Unshared), that nobody holds a token of the future (Traceable),   *)
(* and that a file that is never rotated is good whoever writes it         *)
(* (PlainFile).  PoisonIsShort follows from Counted.                       *)
(***************************************************************************)
EXTENDS Scheduler, TLAPS

\* What every token step preserves.
TokensInv ==
  /\ TokensTypeOK /\ Traceable /\ Unshared /\ PlainFile /\ DiskUsable

\* What any process or user does to tokens other than the daemon's start and end.
TokenStep ==
  \/ \E p \in Process, a \in Account : Refresh(p, a) /\ a \notin unsaved[p]
  \/ \E p \in Process, a \in Account : Persist(p, a)
  \/ \E a \in Account : BuildProvider("app", {a}) /\ Idle
  \/ Forget("app")
  \/ \E a \in Account : Revoke(a) \/ Authorise(a)

USE DEF NoToken, Process

\* A refresh keeps the tokens traceable, unshared and usable.
LEMMA RefreshKeeps ==
  ASSUME TokensInv, NEW p \in Process, NEW a \in Account, Refresh(p, a)
  PROVE  TokensInv'
<1> USE TokensAssumption DEF TokensInv
<1>1. CASE a \in Rotating
  <2> DEFINE new == issued[a] + 1
  <2>1. /\ issued[a] < MaxTokens /\ issued[a] \in Nat
        /\ new \in Token /\ new > issued[a]
    BY <1>1 DEF Refresh, TokensTypeOK, Token
  <2>2. /\ issued' = [issued EXCEPT ![a] = new]
        /\ good' = [good EXCEPT ![a] = (@ \ {held[p][a]}) \cup {new}]
        /\ held' = [held EXCEPT ![p][a] = new]
        /\ unsaved' = [unsaved EXCEPT ![p] = @ \cup {a}]
        /\ disk' = disk /\ excused' = excused
    BY <1>1 DEF Refresh
  <2>3. TokensTypeOK'
    BY <2>1, <2>2 DEF TokensTypeOK
  <2>4. Traceable'
    <3> SUFFICES ASSUME NEW b \in Account
                 PROVE  /\ good'[b] \subseteq 1..issued'[b] /\ disk'[b] <= issued'[b]
                        /\ \A q \in Process : held'[q][b] <= issued'[b]
      BY DEF Traceable
    <3>1. CASE b # a
      BY <3>1, <2>2 DEF Traceable, TokensTypeOK
    <3>2. CASE b = a
      <4>1. issued'[a] = new /\ good'[a] \subseteq good[a] \cup {new}
        BY <2>2 DEF TokensTypeOK
      <4>2. good[a] \subseteq 1..issued[a]
        BY DEF Traceable
      <4>3. good'[a] \subseteq 1..new
        BY <4>1, <4>2, <2>1
      <4>4. disk'[a] <= new
        BY <2>1, <2>2 DEF Traceable, TokensTypeOK, Token
      <4>5. \A q \in Process : held'[q][a] <= new
        BY <2>1, <2>2 DEF Traceable, TokensTypeOK, Token
      <4> QED
        BY <3>2, <4>1, <4>3, <4>4, <4>5
    <3> QED
      BY <3>1, <3>2
  <2>5. Unshared'
    <3> SUFFICES ASSUME NEW q \in Process, NEW b \in unsaved'[q]
                 PROVE  /\ held'[q][b] # 0
                        /\ held'[q][b] \in good'[b] \/ b \in excused'
                        /\ b \in Rotating => /\ disk'[b] # held'[q][b]
                             /\ \A r \in Process \ {q} : held'[r][b] # held'[q][b]
      BY DEF Unshared, Works
    <3>0. b \in Account /\ (b \in unsaved[q] \/ (q = p /\ b = a))
      BY <2>2 DEF TokensTypeOK
    <3>1. CASE b # a
      <4>1. b \in unsaved[q] /\ good'[b] = good[b] /\ \A r \in Process : held'[r][b] = held[r][b]
        BY <3>0, <3>1, <2>2 DEF TokensTypeOK
      <4> QED
        BY <4>1, <2>2 DEF Unshared, Works
    <3>2. CASE b = a /\ q = p
      <4>1. held'[q][b] = new /\ new \in good'[a] /\ disk[a] < new
        BY <3>2, <2>1, <2>2 DEF TokensTypeOK, Traceable, Token
      <4>2. \A r \in Process \ {p} : held'[r][a] = held[r][a] /\ held[r][a] < new
        BY <2>1, <2>2 DEF TokensTypeOK, Traceable, Token
      <4>3. new # 0 /\ disk[a] # new /\ \A r \in Process \ {p} : held[r][a] # new
        BY <4>1, <4>2, <2>1 DEF Token, TokensTypeOK
      <4> QED
        BY <3>2, <4>1, <4>2, <4>3, <2>2
    <3>3. CASE b = a /\ q # p
      <4>1. a \in unsaved[q] /\ held'[q][a] = held[q][a]
        BY <3>3, <3>0, <2>2 DEF TokensTypeOK
      <4>2. /\ held[q][a] # 0
            /\ held[q][a] \in good[a] \/ a \in excused
            /\ disk[a] # held[q][a] /\ held[p][a] # held[q][a]
        BY <4>1, <3>3, <1>1 DEF Unshared, Works
      <4>3. held[q][a] # new
        BY <2>1 DEF TokensTypeOK, Traceable, Token
      <4>4. held[q][a] \in good[a] => held[q][a] \in good'[a]
        BY <4>2, <2>2 DEF TokensTypeOK
      <4>5. \A r \in Process \ {q} : r = p /\ held'[r][a] = new
        BY <3>3, <2>2 DEF TokensTypeOK
      <4> QED
        BY <3>3, <4>1, <4>2, <4>3, <4>4, <4>5, <2>2
    <3> QED
      BY <3>1, <3>2, <3>3
  <2>6. PlainFile'
    BY <1>1, <2>2 DEF PlainFile, TokensTypeOK
  <2>7. DiskUsable'
    BY <2>2 DEF DiskUsable, TokensTypeOK
  <2> QED
    BY <2>3, <2>4, <2>5, <2>6, <2>7
<1>2. CASE a \notin Rotating
  <2>1. /\ UNCHANGED <<disk, held, good, issued, excused>>
        /\ unsaved' = [unsaved EXCEPT ![p] = @ \cup {a}] /\ Works(p, a)
    BY <1>2 DEF Refresh
  <2>2. held[p][a] # 0
    BY <2>1 DEF Works, Traceable, TokensTypeOK, Token
  <2>3. TokensTypeOK' /\ Traceable' /\ PlainFile'
    BY <2>1 DEF TokensTypeOK, Traceable, PlainFile
  <2>4. Unshared'
    BY <1>2, <2>1, <2>2 DEF Unshared, Works, TokensTypeOK
  <2>5. DiskUsable'
    BY <2>1 DEF DiskUsable, TokensTypeOK
  <2> QED
    BY <2>3, <2>4, <2>5
<1> QED
  BY <1>1, <1>2

\* Saving puts a good token in the file, and no other process has it unsaved.
LEMMA PersistKeeps ==
  ASSUME TokensInv, NEW p \in Process, NEW a \in Account, Persist(p, a)
  PROVE  TokensInv'
<1> USE TokensAssumption DEF TokensInv
<1>1. /\ a \in unsaved[p] /\ disk' = [disk EXCEPT ![a] = held[p][a]]
      /\ unsaved' = [unsaved EXCEPT ![p] = @ \ {a}]
      /\ UNCHANGED <<held, good, issued, excused>>
  BY DEF Persist
<1>2. held[p][a] \in Token /\ (held[p][a] \in good[a] \/ a \in excused)
  BY <1>1 DEF Unshared, Works, TokensTypeOK
<1>3. TokensTypeOK'
  BY <1>1, <1>2 DEF TokensTypeOK
<1>4. Traceable'
  BY <1>1 DEF Traceable, TokensTypeOK
<1>5. Unshared'
  <2> SUFFICES ASSUME NEW q \in Process, NEW b \in unsaved'[q]
               PROVE  /\ held[q][b] # 0
                      /\ held[q][b] \in good[b] \/ b \in excused
                      /\ b \in Rotating => /\ disk'[b] # held[q][b]
                           /\ \A r \in Process \ {q} : held[r][b] # held[q][b]
    BY <1>1 DEF Unshared, Works
  <2>1. b \in unsaved[q] /\ (b = a => q # p)
    BY <1>1 DEF TokensTypeOK
  <2>2. b = a /\ b \in Rotating => held[p][a] # held[q][b]
    BY <2>1 DEF Unshared
  <2>3. disk'[b] = IF b = a THEN held[p][a] ELSE disk[b]
    BY <1>1, <2>1 DEF TokensTypeOK
  <2> QED
    BY <2>1, <2>2, <2>3 DEF Unshared, Works
<1>6. PlainFile'
  BY <1>1, <1>2 DEF PlainFile, TokensTypeOK
<1>7. DiskUsable'
  BY <1>1, <1>2 DEF DiskUsable, TokensTypeOK
<1> QED
  BY <1>3, <1>4, <1>5, <1>6, <1>7

\* A process that holds no unsaved token may load files.
LEMMA BuildKeeps ==
  ASSUME TokensInv, NEW p \in Process, NEW A \in SUBSET Account,
         unsaved[p] = {}, BuildProvider(p, A)
  PROVE  TokensInv'
<1> USE DEF TokensInv
<1>1. /\ held' = [held EXCEPT ![p] = [a \in Account |-> IF a \in A THEN disk[a] ELSE @[a]]]
      /\ UNCHANGED <<disk, unsaved, good, issued, excused>>
  BY DEF BuildProvider
<1>2. \A q \in Process, b \in Account :
        held'[q][b] = IF q = p /\ b \in A THEN disk[b] ELSE held[q][b]
  BY <1>1 DEF TokensTypeOK
<1>3. TokensTypeOK'
  BY <1>1 DEF TokensTypeOK
<1>4. Traceable'
  BY <1>1, <1>2 DEF Traceable
<1>5. Unshared'
  <2> SUFFICES ASSUME NEW q \in Process, NEW b \in unsaved[q]
               PROVE  /\ held'[q][b] # 0
                      /\ held'[q][b] \in good[b] \/ b \in excused
                      /\ b \in Rotating => /\ disk[b] # held'[q][b]
                           /\ \A r \in Process \ {q} : held'[r][b] # held'[q][b]
    BY <1>1 DEF Unshared, Works
  <2>1. q # p /\ b \in Account
    BY DEF TokensTypeOK
  <2> QED
    BY <1>2, <2>1 DEF Unshared, Works
<1>6. PlainFile' /\ DiskUsable'
  BY <1>1 DEF PlainFile, DiskUsable
<1> QED
  BY <1>3, <1>4, <1>5, <1>6

\* A process that ends leaves the file, and an excuse where it should not have.
LEMMA ForgetKeeps ==
  ASSUME TokensInv, NEW p \in Process, Forget(p)
  PROVE  TokensInv'
<1> USE TokensAssumption DEF TokensInv
<1>1. /\ held' = [held EXCEPT ![p] = [a \in Account |-> 0]]
      /\ unsaved' = [unsaved EXCEPT ![p] = {}]
      /\ excused' = excused \cup (unsaved[p] \cap Rotating)
      /\ UNCHANGED <<disk, good, issued>>
  BY DEF Forget
<1>2. /\ \A q \in Process, b \in Account :
           held'[q][b] = IF q = p THEN 0 ELSE held[q][b]
      /\ \A q \in Process : unsaved'[q] = IF q = p THEN {} ELSE unsaved[q]
  BY <1>1 DEF TokensTypeOK
<1>3. TokensTypeOK'
  BY <1>1 DEF TokensTypeOK
<1>4. Traceable'
  BY <1>1, <1>2 DEF Traceable, TokensTypeOK, Token
<1>5. Unshared'
  <2> SUFFICES ASSUME NEW q \in Process, NEW b \in unsaved'[q]
               PROVE  /\ held'[q][b] # 0
                      /\ held'[q][b] \in good[b] \/ b \in excused'
                      /\ b \in Rotating => /\ disk[b] # held'[q][b]
                           /\ \A r \in Process \ {q} : held'[r][b] # held'[q][b]
    BY <1>1 DEF Unshared, Works
  <2>1. q # p /\ b \in unsaved[q] /\ b \in Account
    BY <1>2 DEF TokensTypeOK
  <2> QED
    BY <1>1, <1>2, <2>1 DEF Unshared, Works
<1>6. PlainFile'
  BY <1>1 DEF PlainFile
<1>7. DiskUsable'
  <2> SUFFICES ASSUME NEW a \in Account, disk[a] \notin good[a], a \notin excused'
               PROVE  \E q \in Process : a \in unsaved'[q]
    BY <1>1 DEF DiskUsable
  <2>1. a \in Rotating /\ a \notin excused /\ a \notin unsaved[p]
    BY <1>1 DEF PlainFile
  <2>2. PICK q \in Process : a \in unsaved[q]
    BY <2>1 DEF DiskUsable
  <2> QED
    BY <1>2, <2>1, <2>2
<1> QED
  BY <1>3, <1>4, <1>5, <1>6, <1>7

\* A revocation excuses what it spoils.
LEMMA RevokeKeeps ==
  ASSUME TokensInv, NEW a \in Account, Revoke(a)
  PROVE  TokensInv'
<1> USE TokensAssumption DEF TokensInv
<1>1. /\ good' = [good EXCEPT ![a] = {}] /\ excused' = excused \cup {a}
      /\ UNCHANGED <<disk, held, unsaved, issued>>
  BY DEF Revoke
<1>2. \A b \in Account : good'[b] = IF b = a THEN {} ELSE good[b]
  BY <1>1 DEF TokensTypeOK
<1>3. TokensTypeOK' /\ Traceable'
  BY <1>1, <1>2 DEF TokensTypeOK, Traceable
<1>4. Unshared'
  <2>1. \A p \in Process : unsaved[p] \subseteq Account
    BY DEF TokensTypeOK
  <2> QED
    BY <1>1, <1>2, <2>1 DEF Unshared, Works
<1>5. PlainFile' /\ DiskUsable'
  BY <1>1, <1>2 DEF PlainFile, DiskUsable
<1> QED
  BY <1>3, <1>4, <1>5

\* A new token is good, and newer than any that a process holds.
LEMMA AuthoriseKeeps ==
  ASSUME TokensInv, NEW a \in Account, Authorise(a)
  PROVE  TokensInv'
<1> USE TokensAssumption DEF TokensInv
<1> DEFINE new == issued[a] + 1
<1>1. /\ issued[a] < MaxTokens /\ issued' = [issued EXCEPT ![a] = new]
      /\ good' = [good EXCEPT ![a] = @ \cup {new}]
      /\ disk' = [disk EXCEPT ![a] = new]
      /\ excused' = IF \E p \in Process : a \in unsaved[p] THEN excused ELSE excused \ {a}
      /\ UNCHANGED <<held, unsaved>>
  BY DEF Authorise
<1>2. new \in Token /\ new \in Nat /\ issued[a] \in Nat /\ new > issued[a]
  BY <1>1 DEF TokensTypeOK, Token
<1>3. \A b \in Account : /\ good[b] \subseteq good'[b] /\ new \in good'[a]
                         /\ issued'[b] = (IF b = a THEN new ELSE issued[b])
                         /\ disk'[b] = (IF b = a THEN new ELSE disk[b])
                         /\ good'[b] = (IF b = a THEN good[b] \cup {new} ELSE good[b])
  BY <1>1 DEF TokensTypeOK
<1>4. TokensTypeOK'
  BY <1>1, <1>2 DEF TokensTypeOK
<1>5. Traceable'
  <2> SUFFICES ASSUME NEW b \in Account
               PROVE  /\ good'[b] \subseteq 1..issued'[b] /\ disk'[b] <= issued'[b]
                      /\ \A q \in Process : held[q][b] <= issued'[b]
    BY <1>1 DEF Traceable
  <2>1. good[b] \subseteq 1..issued[b] /\ disk[b] <= issued[b]
        /\ \A q \in Process : held[q][b] <= issued[b]
    BY DEF Traceable
  <2>2. issued[b] \in Nat /\ \A q \in Process : held[q][b] \in Nat
    BY DEF TokensTypeOK, Token
  <2>3. CASE b = a
    <3>1. \A q \in Process : held[q][a] <= new
      BY <1>2, <2>1, <2>2, <2>3
    <3>2. good[a] \cup {new} \subseteq 1..new
      BY <1>2, <2>1, <2>3
    <3>3. good'[b] = good[b] \cup {new} /\ issued'[b] = new /\ disk'[b] = new
      BY <1>3, <2>3
    <3>6. new <= new
      BY <1>2
    <3>4. \A q \in Process : held[q][b] <= new
      BY <2>3, <3>1
    <3>5. good[b] \cup {new} \subseteq 1..new
      BY <2>3, <3>2
    <3> HIDE DEF new
    <3> QED
      BY <3>3, <3>4, <3>5, <3>6
  <2>4. CASE b # a
    BY <1>3, <2>1, <2>4
  <2> QED
    BY <2>3, <2>4
<1>6. Unshared'
  <2> SUFFICES ASSUME NEW q \in Process, NEW b \in unsaved[q]
               PROVE  /\ held[q][b] # 0
                      /\ held[q][b] \in good'[b] \/ b \in excused'
                      /\ b \in Rotating => /\ disk'[b] # held[q][b]
                           /\ \A r \in Process \ {q} : held[r][b] # held[q][b]
    BY <1>1 DEF Unshared, Works
  <2>1. b \in Account /\ (b \in excused => b \in excused')
    BY <1>1 DEF TokensTypeOK
  <2>2. held[q][a] # new
    BY <1>2 DEF TokensTypeOK, Traceable, Token
  <2> QED
    BY <1>3, <2>1, <2>2 DEF Unshared, Works
<1>7. PlainFile' /\ DiskUsable'
  <2>1. \A b \in Account : b # a /\ b \in excused => b \in excused'
    BY <1>1
  <2>2. disk'[a] \in good'[a]
    BY <1>3
  <2> QED
    BY <1>1, <1>3, <2>1, <2>2 DEF PlainFile, DiskUsable
<1> QED
  BY <1>4, <1>5, <1>6, <1>7

\* No token step helps a daemon whose token has expired: new tokens are not its own.
LEMMA DeadStaysDead ==
  ASSUME TokensInv, TokenStep, NEW a \in Account, ~Works("daemon", a)
  PROVE  ~Works("daemon", a)'
<1> USE DEF TokensInv
<1>0. /\ held["daemon"][a] <= issued[a] /\ issued[a] \in Nat
      /\ held["daemon"][a] \in Nat /\ held["daemon"][a] \notin good[a]
      /\ 0 \notin good[a]
  BY DEF Traceable, TokensTypeOK, Token, Works
<1>1. ASSUME NEW p \in Process, NEW b \in Account, Refresh(p, b)
      PROVE  held'["daemon"][a] \notin good'[a]
  <2>1. CASE b \in Rotating
    <3>1. /\ good' = [good EXCEPT ![b] = (@ \ {held[p][b]}) \cup {issued[b] + 1}]
          /\ held' = [held EXCEPT ![p][b] = issued[b] + 1]
      BY <1>1, <2>1 DEF Refresh
    <3>2. p = "daemon" => a # b
      BY <1>1, <1>0 DEF Refresh, Works
    <3>3. held'["daemon"][a] = held["daemon"][a]
      BY <3>1, <3>2 DEF TokensTypeOK
    <3>4. good'[a] \subseteq good[a] \cup {issued[a] + 1}
      BY <3>1 DEF TokensTypeOK
    <3> QED
      BY <1>0, <3>3, <3>4
  <2>2. CASE b \notin Rotating
    BY <1>0, <1>1, <2>2 DEF Refresh
  <2> QED
    BY <2>1, <2>2
<1>2. ASSUME NEW b \in Account, BuildProvider("app", {b})
      PROVE  held'["daemon"][a] \notin good'[a]
  BY <1>0, <1>2 DEF BuildProvider, TokensTypeOK
<1>3. ASSUME Forget("app")
      PROVE  held'["daemon"][a] \notin good'[a]
  BY <1>0, <1>3 DEF Forget, TokensTypeOK
<1>4. ASSUME NEW b \in Account, Revoke(b)
      PROVE  held'["daemon"][a] \notin good'[a]
  <2>1. good'[a] \subseteq good[a] /\ held' = held
    BY <1>4 DEF Revoke, TokensTypeOK
  <2> QED
    BY <1>0, <2>1
<1>5. ASSUME NEW b \in Account, Authorise(b)
      PROVE  held'["daemon"][a] \notin good'[a]
  <2>1. good'[a] \subseteq good[a] \cup {issued[a] + 1} /\ held' = held
    BY <1>5 DEF Authorise, TokensTypeOK
  <2> QED
    BY <1>0, <2>1
<1>6. ASSUME NEW p \in Process, NEW b \in Account, Persist(p, b)
      PROVE  held'["daemon"][a] \notin good'[a]
  BY <1>0, <1>6 DEF Persist
<1> QED
  BY <1>1, <1>2, <1>3, <1>4, <1>5, <1>6 DEF TokenStep, Works

\* All of it in one: a token step keeps the invariant of the tokens.
LEMMA TokenStepKeeps ==
  ASSUME TokensInv, TokenStep
  PROVE  TokensInv'
<1>1. ASSUME NEW a \in Account, BuildProvider("app", {a}), Idle
      PROVE  TokensInv'
  <2>1. unsaved["app"] = {}
    BY <1>1 DEF TokensInv, Unshared, TokensTypeOK, Idle
  <2> QED
    BY <1>1, <2>1, BuildKeeps
<1> QED
  BY <1>1, RefreshKeeps, PersistKeeps, ForgetKeeps, RevokeKeeps, AuthoriseKeeps
     DEF TokenStep

-----------------------------------------------------------------------------
\* The errors of a pass blame an account only if its token has expired.
LEMMA BlameIsRight ==
  ASSUME NEW c \in Calendar,
         NEW err \in SyncErrors(c) \cup FullResyncErrors(c)
  PROVE  /\ originAuthExpired(err) => ~Works("daemon", Owner[c])
         /\ \A b \in collectTargetAuthErrors(err) : ~Works("daemon", b)
<1>1. \A b : Target(b) # Expired /\ Target(b) # Failed /\ Expired # Failed
  BY DEF Target, Expired, Failed
<1>2. \A b, d : Target(b) = Target(d) => b = d
  BY DEF Target
<1>3. CASE err = {Failed} \/ err \in Refused(Owner[c])
  BY <1>1, <1>3 DEF Refused, originAuthExpired, collectTargetAuthErrors
<1>4. CASE \E T \in TargetErrors(Owner[c]), F \in {{}, {Failed}} : err = T \cup F
  <2>1. PICK B \in SUBSET {b \in Account \ {Owner[c]} : ~Works("daemon", b)},
             F \in {{}, {Failed}} : err = {Target(b) : b \in B} \cup F
    BY <1>4 DEF TargetErrors, wrapTargetAuth
  <2> QED
    BY <1>1, <1>2, <2>1 DEF originAuthExpired, collectTargetAuthErrors
<1> QED
  BY <1>3, <1>4 DEF SyncErrors, FullResyncErrors

-----------------------------------------------------------------------------
\* The inductive invariant of the composition.
Inv ==
  /\ TypeOK /\ TokensInv /\ Down
  /\ OnlyExpiredPaused /\ PausedIsReported /\ Counted

\* What the token actions and the daemon's own leave alone.
AppStep ==
  \/ AppAnswers
  \/ \E a \in Account :
       \/ DaemonRefresh(a) \/ DaemonPersist(a)
       \/ AppRequest(a) \/ AppRefresh(a) \/ AppPersist(a)
       \/ UserRevokes(a) \/ UserAuthorises(a)

\* A fault is paid for from a bounded budget.
LEMMA PayTyped ==
  ASSUME faults \in 0..MaxFaults, NEW n \in Nat, Pay(n)
  PROVE  faults' \in 0..MaxFaults /\ faults' = faults + n
BY SchedulerAssumption DEF Pay

\* What SetCalendarError and the marks leave in the table.
LEMMA MarkedFacts ==
  ASSUME status \in [Calendar -> Status], NEW err
  PROVE  /\ Marked(err) \in [Calendar -> Status]
         /\ \A c \in Calendar : Marked(err)[c] =
              IF Owner[c] \in NewlyExpired(err) /\ status[c] # "absent"
              THEN "reauth" ELSE status[c]
         /\ NewlyExpired(err) \subseteq Account
BY DEF Marked, Reports, Status, NewlyExpired, collectTargetAuthErrors

\* A row written over the marks, for a calendar of an account that is not marked.
LEMMA RowWritten ==
  ASSUME status \in [Calendar -> Status], NEW err, NEW c \in Calendar,
         NEW s \in Status \ {"absent"},
         status' = [Marked(err) EXCEPT ![c] = s]
  PROVE  /\ status' \in [Calendar -> Status] /\ status'[c] = s
         /\ \A d \in Calendar \ {c} : status'[d] = Marked(err)[d]
BY MarkedFacts

\* An origin is never among its own targets.
LEMMA NotItsOwnTarget ==
  ASSUME NEW c \in Calendar, NEW err \in SyncErrors(c) \cup FullResyncErrors(c)
  PROVE  Owner[c] \notin collectTargetAuthErrors(err)
<1>1. \A b : Target(b) # Expired /\ Target(b) # Failed
  BY DEF Target, Expired, Failed
<1>2. \A b, d : Target(b) = Target(d) => b = d
  BY DEF Target
<1>3. CASE err = {Failed} \/ err \in Refused(Owner[c])
  BY <1>1, <1>3 DEF Refused, collectTargetAuthErrors
<1>4. CASE \E T \in TargetErrors(Owner[c]), F \in {{}, {Failed}} : err = T \cup F
  <2>1. PICK B \in SUBSET {b \in Account \ {Owner[c]} : ~Works("daemon", b)},
             F \in {{}, {Failed}} : err = {Target(b) : b \in B} \cup F
    BY <1>4 DEF TargetErrors, wrapTargetAuth
  <2> QED
    BY <1>1, <1>2, <2>1 DEF collectTargetAuthErrors
<1> QED
  BY <1>3, <1>4 DEF SyncErrors, FullResyncErrors

\* One pass over a calendar: its account may be paused, with a row that says so;
\* the targets that are paused have a row that says so, or none at all.
LEMMA PauseReported ==
  ASSUME Inv, pc = "tick", NEW c \in Calendar, Owner[c] \notin paused,
         NEW err \in SyncErrors(c), NEW s \in Status \ {"absent"},
         status' = [Marked(err) EXCEPT ![c] = s],
         \/ paused' = paused \cup NewlyExpired(err)
         \/ s = "reauth" /\ paused' = paused \cup NewlyExpired(err) \cup {Owner[c]}
  PROVE  \A a \in paused' : \/ \E d \in Of(a) : status'[d] = "reauth"
                            \/ \A d \in Of(a) : status'[d] = "absent"
<1>1. /\ status'[c] = s
      /\ \A d \in Calendar \ {c} : status'[d] = Marked(err)[d]
  BY RowWritten DEF Inv, TypeOK
<1>2. \A d \in Calendar : Marked(err)[d] =
        IF Owner[d] \in NewlyExpired(err) /\ status[d] # "absent"
        THEN "reauth" ELSE status[d]
  BY MarkedFacts DEF Inv, TypeOK
<1>3. Owner[c] \notin NewlyExpired(err)
  BY NotItsOwnTarget DEF NewlyExpired
<1> SUFFICES ASSUME NEW a \in paused'
             PROVE  \/ \E d \in Of(a) : status'[d] = "reauth"
                    \/ \A d \in Of(a) : status'[d] = "absent"
  OBVIOUS
<1>4. CASE a = Owner[c] /\ s = "reauth"
  BY <1>1, <1>4 DEF Of
<1>5. CASE a \in NewlyExpired(err)
  BY <1>1, <1>2, <1>3, <1>5 DEF Of
<1>6. CASE a \in paused
  <2>1. \A d \in Of(a) : d # c /\ d \in Calendar /\ Owner[d] = a
    BY <1>6 DEF Of
  <2>2. a \notin NewlyExpired(err)
    BY <1>6 DEF NewlyExpired
  <2>3. \A d \in Of(a) : status'[d] = status[d]
    BY <1>1, <1>2, <2>1, <2>2
  <2> QED
    BY <1>6, <2>3 DEF Inv, PausedIsReported
<1> QED
  BY <1>4, <1>5, <1>6

\* A product grows with its factor.
LEMMA Times ==
  ASSUME NEW m \in Nat, NEW n \in Nat
  PROVE  /\ Threshold * m \in Nat
         /\ m <= n => Threshold * m <= Threshold * n
         /\ m < n => Threshold * m + Threshold <= Threshold * n
<1>1. Threshold \in Nat
  BY SchedulerAssumption
<1>2. Threshold * m \in Nat
  BY <1>1
<1>3. ASSUME m <= n PROVE Threshold * m <= Threshold * n
  <2>1. PICK k \in Nat : n = m + k
    BY <1>3
  <2>2. Threshold * n = Threshold * m + Threshold * k /\ Threshold * k \in Nat
    BY <1>1, <2>1
  <2> QED
    BY <1>2, <2>2
<1>4. ASSUME m < n PROVE Threshold * m + Threshold <= Threshold * n
  <2>1. PICK k \in Nat : n = m + 1 + k
    BY <1>4
  <2>2. Threshold * n = Threshold * m + Threshold + Threshold * k /\ Threshold * k \in Nat
    BY <1>1, <2>1
  <2> QED
    BY <1>1, <1>2, <2>2
<1> QED
  BY <1>2, <1>3, <1>4

\* A listing of a working account that was not handled to its end met a failure.
LEMMA FailedUnlessExpired ==
  ASSUME NEW c \in Calendar, NEW err \in FullResyncErrors(c),
         Works("daemon", Owner[c]), ~Completes(err)
  PROVE  Failed \in err
<1>1. CASE err = {Failed}
  BY <1>1
<1>2. CASE \E T \in TargetErrors(Owner[c]), F \in {{}, {Failed}} : err = T \cup F
  <2>1. PICK B \in SUBSET {b \in Account \ {Owner[c]} : ~Works("daemon", b)},
             F \in {{}, {Failed}} : err = {Target(b) : b \in B} \cup F
    BY <1>2 DEF TargetErrors, wrapTargetAuth
  <2>2. {Target(b) : b \in B} \subseteq Targets
    BY DEF Targets
  <2> QED
    BY <2>1, <2>2 DEF Completes, onlyTargetAuthErrors
<1> QED
  BY <1>1, <1>2 DEF FullResyncErrors, Refused

\* The streak of a calendar that was listed, or whose account expired, is over.
LEMMA StreakReset ==
  ASSUME Inv, NEW c \in Calendar, NEW err, streak' = Streak(c, err),
         Completes(err) \/ ~Works("daemon", Owner[c]),
         failures' = [failures EXCEPT ![c] = 0],
         faults' \in 0..MaxFaults, faults' >= faults
  PROVE  streak' \in [Calendar -> Nat] /\ Counted'
<1> USE SchedulerAssumption
<1>1. streak' = [streak EXCEPT ![c] = 0]
  BY DEF Streak
<1>2. /\ streak \in [Calendar -> Nat] /\ faults \in Nat /\ faults' \in Nat
      /\ failures \in [Calendar -> Nat]
  BY DEF Inv, TypeOK
<1>3. PICK p \in Nat, q \in Nat : p = Threshold * faults /\ q = Threshold * faults' /\ p <= q
  BY <1>2, Times
<1>6. p <= q
  BY <1>3
<1>4. \A d \in Calendar : streak[d] <= failures[d] + p
  BY <1>3 DEF Inv, Counted
<1>5. \A d \in Calendar : streak'[d] <= failures'[d] + q
  <2> SUFFICES ASSUME NEW d \in Calendar PROVE streak'[d] <= failures'[d] + q
    OBVIOUS
  <2>1. CASE d = c
    <3>1. streak[c] \in Nat /\ failures[c] \in Nat /\ streak[c] <= failures[c] + p
      BY <1>2, <1>4
    <3>2. streak'[d] = 0 /\ failures'[d] = 0
      BY <1>1, <1>2, <2>1
    <3> QED
      BY <1>6, <3>2
  <2>2. CASE d # c
    <3>1. streak[d] \in Nat /\ failures[d] \in Nat /\ streak[d] <= failures[d] + p
      BY <1>2, <1>4
    <3>2. streak'[d] = streak[d] /\ failures'[d] = failures[d]
      BY <1>1, <1>2, <2>2
    <3> QED
      BY <1>6, <3>1, <3>2
  <2> QED
    BY <2>1, <2>2
<1> QED
  BY <1>1, <1>2, <1>3, <1>5 DEF Counted

\* A failure that the map counts lengthens a streak by one at most.
LEMMA StreakGrows ==
  ASSUME Inv, NEW c \in Calendar, NEW err, streak' = Streak(c, err),
         failures' = [failures EXCEPT ![c] = @ + 1],
         faults' \in 0..MaxFaults, faults' >= faults
  PROVE  streak' \in [Calendar -> Nat] /\ Counted'
<1> USE SchedulerAssumption
<1>1. \E n \in {0, streak[c] + 1} : streak' = [streak EXCEPT ![c] = n]
  BY DEF Streak, Inv, TypeOK
<1>2. /\ streak \in [Calendar -> Nat] /\ faults \in Nat /\ faults' \in Nat
      /\ failures \in [Calendar -> Nat]
  BY DEF Inv, TypeOK
<1>3. PICK p \in Nat, q \in Nat : p = Threshold * faults /\ q = Threshold * faults' /\ p <= q
  BY <1>2, Times
<1>6. p <= q
  BY <1>3
<1>4. \A d \in Calendar : streak[d] <= failures[d] + p
  BY <1>3 DEF Inv, Counted
<1>5. \A d \in Calendar : streak'[d] <= failures'[d] + q
  <2> SUFFICES ASSUME NEW d \in Calendar PROVE streak'[d] <= failures'[d] + q
    OBVIOUS
  <2>1. CASE d = c
    <3>1. streak[c] \in Nat /\ failures[c] \in Nat /\ streak[c] <= failures[c] + p
      BY <1>2, <1>4
    <3>2. /\ streak'[d] = 0 \/ streak'[d] = streak[c] + 1
          /\ failures'[d] = failures[c] + 1
      BY <1>1, <1>2, <2>1
    <3> QED
      BY <1>6, <2>1, <3>1, <3>2
  <2>2. CASE d # c
    <3>1. streak[d] \in Nat /\ failures[d] \in Nat /\ streak[d] <= failures[d] + p
      BY <1>2, <1>4
    <3>2. streak'[d] = streak[d] /\ failures'[d] = failures[d]
      BY <1>1, <1>2, <2>2
    <3> QED
      BY <1>6, <3>1, <3>2
  <2> QED
    BY <2>1, <2>2
<1> QED
  BY <1>1, <1>2, <1>3, <1>5 DEF Counted

\* A forced listing that fails is a fault, which makes up for the map's reset.
LEMMA StreakForced ==
  ASSUME Inv, NEW c \in Calendar, NEW err, streak' = Streak(c, err),
         failures' = [failures EXCEPT ![c] = 0],
         faults' \in 0..MaxFaults, faults' > faults
  PROVE  streak' \in [Calendar -> Nat] /\ Counted'
<1> USE SchedulerAssumption
<1>1. \E n \in {0, streak[c] + 1} : streak' = [streak EXCEPT ![c] = n]
  BY DEF Streak, Inv, TypeOK
<1>2. /\ streak \in [Calendar -> Nat] /\ faults \in Nat /\ faults' \in Nat
      /\ failures \in [Calendar -> 0..(Threshold - 1)]
  BY DEF Inv, TypeOK
<1>3. PICK p \in Nat, q \in Nat :
        p = Threshold * faults /\ q = Threshold * faults' /\ p + Threshold <= q
  BY <1>2, Times
<1>7. p + Threshold <= q
  BY <1>3
<1>4. \A d \in Calendar : streak[d] <= failures[d] + p
  BY <1>3 DEF Inv, Counted
<1>5. \A d \in Calendar : failures[d] \in Nat /\ failures[d] + 1 <= Threshold
  BY <1>2
<1>6. \A d \in Calendar : streak'[d] <= failures'[d] + q
  <2> SUFFICES ASSUME NEW d \in Calendar PROVE streak'[d] <= failures'[d] + q
    OBVIOUS
  <2>1. CASE d = c
    <3>1. streak[c] \in Nat /\ failures[c] \in Nat /\ streak[c] <= failures[c] + p
      BY <1>2, <1>4
    <3>2. /\ streak'[d] = 0 \/ streak'[d] = streak[c] + 1
          /\ failures'[d] = 0
      BY <1>1, <1>2, <2>1
    <3> QED
      BY <1>5, <1>7, <2>1, <3>1, <3>2
  <2>2. CASE d # c
    <3>1. streak[d] \in Nat /\ failures[d] \in Nat /\ streak[d] <= failures[d] + p
      BY <1>2, <1>4
    <3>2. streak'[d] = streak[d] /\ failures'[d] = failures[d]
      BY <1>1, <1>2, <2>2
    <3> QED
      BY <1>2, <1>7, <3>1, <3>2
  <2> QED
    BY <2>1, <2>2
<1> QED
  BY <1>1, <1>2, <1>3, <1>6 DEF Counted

\* Reconcile does not touch the map of failures: it ends a streak or pays.
LEMMA StreakKept ==
  ASSUME Inv, NEW c \in Calendar, NEW err, streak' = Streak(c, err),
         failures' = failures, faults' \in 0..MaxFaults, faults' >= faults,
         \/ Completes(err) \/ ~Works("daemon", Owner[c])
         \/ faults' > faults
  PROVE  streak' \in [Calendar -> Nat] /\ Counted'
<1> USE SchedulerAssumption
<1>1. \E n \in {0, streak[c] + 1} :
        /\ streak' = [streak EXCEPT ![c] = n]
        /\ n = 0 \/ faults' > faults
  BY DEF Streak, Inv, TypeOK
<1>2. /\ streak \in [Calendar -> Nat] /\ faults \in Nat /\ faults' \in Nat
      /\ failures \in [Calendar -> Nat] /\ Threshold \in Nat \ {0}
  BY DEF Inv, TypeOK
<1>3. PICK p \in Nat, q \in Nat :
        /\ p = Threshold * faults /\ q = Threshold * faults' /\ p <= q
        /\ faults' > faults => p + Threshold <= q
  BY <1>2, Times
<1>6. p <= q /\ (faults' > faults => p + Threshold <= q)
  BY <1>3
<1>4. \A d \in Calendar : streak[d] <= failures[d] + p
  BY <1>3 DEF Inv, Counted
<1>5. \A d \in Calendar : streak'[d] <= failures'[d] + q
  <2> SUFFICES ASSUME NEW d \in Calendar PROVE streak'[d] <= failures[d] + q
    OBVIOUS
  <2>1. streak[d] \in Nat /\ failures[d] \in Nat /\ streak[d] <= failures[d] + p
    BY <1>2, <1>4
  <2>2. \/ streak'[d] = streak[d] \/ streak'[d] = 0
        \/ streak'[d] = streak[d] + 1 /\ faults' > faults
    BY <1>1, <1>2
  <2>3. CASE streak'[d] = streak[d]
    BY <1>6, <2>1, <2>3
  <2>4. CASE streak'[d] = 0
    BY <1>6, <2>1, <2>4
  <2>5. CASE streak'[d] = streak[d] + 1 /\ faults' > faults
    <3>1. p + Threshold <= q /\ Threshold \in Nat /\ Threshold >= 1
      BY <1>2, <1>6, <2>5
    <3> QED
      BY <1>6, <2>1, <2>5, <3>1
  <2> QED
    BY <2>2, <2>3, <2>4, <2>5
<1> QED
  BY <1>1, <1>2, <1>3, <1>5 DEF Counted

\* SyncCalendar, outcome by outcome.
LEMMA SyncKeeps ==
  ASSUME Inv, SyncCalendar
  PROVE  Inv'
<1> USE SchedulerAssumption
<1> DEFINE c == at
<1>1. c \in Calendar /\ Owner[c] \in Account /\ pc = "tick" /\ Owner[c] \notin paused
  BY DEF Inv, TypeOK, SyncCalendar, Last, Calendar
<1>2. PICK err \in SyncErrors(c) :
        \/ Succeeds(c, err) \/ OriginExpired(c, err)
        \/ Fails(c, err) \/ FailsOnceMore(c, err)
  BY DEF SyncCalendar
<1>3. /\ at' = at + 1 /\ UNCHANGED <<tokens, pc, edits>>
  BY DEF SyncCalendar
<1>4. at' \in 1..Last
  BY <1>1, <1>3 DEF Inv, TypeOK, Calendar, Last
<1>5. TokensInv'
  BY <1>3 DEF Inv, TokensInv, tokens, TokensTypeOK, Traceable, Unshared, Works,
              PlainFile, DiskUsable
<1>6. NewlyExpired(err) \subseteq Account
  BY MarkedFacts DEF Inv, TypeOK
<1>7. \A b \in NewlyExpired(err) : ~Works("daemon", b)
  BY <1>1, BlameIsRight DEF NewlyExpired
<1>8. \A a : Works("daemon", a)' <=> Works("daemon", a)
  BY <1>3 DEF tokens, Works
<1>9. SyncCost(c, err) \in Nat /\ \A e : ResyncCost(e) \in Nat
  BY DEF SyncCost, ResyncCost
<1>10. ASSUME faults' \in 0..MaxFaults, failures' \in [Calendar -> 0..(Threshold - 1)],
              cursor' \in [Calendar -> Cursor], streak' \in [Calendar -> Nat], Counted',
              NEW s \in Status \ {"absent"},
              status' = [Marked(err) EXCEPT ![c] = s],
              \/ paused' = paused \cup NewlyExpired(err)
              \/ /\ s = "reauth" /\ ~Works("daemon", Owner[c])
                 /\ paused' = paused \cup NewlyExpired(err) \cup {Owner[c]}
       PROVE  Inv'
  <2>1. status' \in [Calendar -> Status]
    BY <1>1, <1>10, RowWritten DEF Inv, TypeOK
  <2>2. paused' \subseteq Account
    BY <1>1, <1>6, <1>10 DEF Inv, TypeOK
  <2>3. TypeOK'
    BY <1>3, <1>4, <1>5, <1>10, <2>1, <2>2 DEF Inv, TypeOK, TokensInv
  <2>4. OnlyExpiredPaused'
    BY <1>7, <1>8, <1>10 DEF Inv, OnlyExpiredPaused
  <2>5. PausedIsReported'
    BY <1>1, <1>10, PauseReported DEF PausedIsReported, Of
  <2>6. Down'
    BY <1>1, <1>3 DEF Down
  <2> QED
    BY <1>5, <1>10, <2>3, <2>4, <2>5, <2>6 DEF Inv
<1>11. Cursor' = Cursor
  BY DEF Cursor
<1>12. \A e : SetCursor(c, e) \in [Calendar -> Cursor]
  BY DEF Inv, TypeOK, SetCursor, Cursor
<1>13. faults \in 0..MaxFaults
  BY DEF Inv, TypeOK
<1>18. 0 \in 0..(Threshold - 1) /\ failures \in [Calendar -> 0..(Threshold - 1)]
  BY DEF Inv, TypeOK
<1>14. CASE Succeeds(c, err)
  <2>1. /\ failures' = [failures EXCEPT ![c] = 0]
        /\ status' = [Marked(err) EXCEPT ![c] = "ok"]
        /\ paused' = paused \cup NewlyExpired(err)
        /\ cursor' = SetCursor(c, err) /\ streak' = Streak(c, err) /\ faults' = faults
        /\ Completes(err)
    BY <1>14 DEF Succeeds
  <2>2. failures' \in [Calendar -> 0..(Threshold - 1)]
    BY <1>18, <2>1
  <2>5. faults' \in 0..MaxFaults /\ faults' >= faults
    BY <1>13, <2>1
  <2>3. streak' \in [Calendar -> Nat] /\ Counted'
    BY <1>1, <2>1, <2>5, StreakReset
  <2>4. "ok" \in Status \ {"absent"}
    BY DEF Status
  <2> QED
    BY <1>10, <1>12, <2>1, <2>2, <2>3, <2>4, <2>5
<1>15. CASE OriginExpired(c, err)
  <2>1. /\ failures' = [failures EXCEPT ![c] = 0]
        /\ status' = [Marked(err) EXCEPT ![c] = "reauth"]
        /\ paused' = paused \cup NewlyExpired(err) \cup {Owner[c]}
        /\ cursor' = cursor /\ streak' = Streak(c, err) /\ Pay(SyncCost(c, err))
        /\ originAuthExpired(err)
    BY <1>15 DEF OriginExpired
  <2>2. failures' \in [Calendar -> 0..(Threshold - 1)]
    BY <1>18, <2>1
  <2>3. faults' \in 0..MaxFaults /\ faults' >= faults
    BY <1>9, <1>13, <2>1, PayTyped
  <2>4. ~Works("daemon", Owner[c])
    BY <1>1, <2>1, BlameIsRight
  <2>5. streak' \in [Calendar -> Nat] /\ Counted'
    BY <1>1, <2>1, <2>3, <2>4, StreakReset
  <2>6. "reauth" \in Status \ {"absent"}
    BY DEF Status
  <2>7. cursor' \in [Calendar -> Cursor]
    BY <2>1 DEF Inv, TypeOK
  <2> QED
    BY <1>10, <2>1, <2>2, <2>3, <2>4, <2>5, <2>6, <2>7
<1>16. CASE Fails(c, err)
  <2>1. /\ failures' = [failures EXCEPT ![c] = @ + 1] /\ ~Exhausted(c)
        /\ status' = [Marked(err) EXCEPT ![c] = "error"]
        /\ paused' = paused \cup NewlyExpired(err)
        /\ cursor' = cursor /\ streak' = Streak(c, err) /\ Pay(SyncCost(c, err))
    BY <1>16 DEF Fails
  <2>2. failures' \in [Calendar -> 0..(Threshold - 1)]
    BY <1>1, <2>1 DEF Inv, TypeOK, Exhausted
  <2>3. faults' \in 0..MaxFaults /\ faults' >= faults
    BY <1>9, <1>13, <2>1, PayTyped
  <2>4. streak' \in [Calendar -> Nat] /\ Counted'
    BY <1>1, <2>1, <2>3, StreakGrows
  <2>5. "error" \in Status \ {"absent"}
    BY DEF Status
  <2>6. cursor' \in [Calendar -> Cursor]
    BY <2>1 DEF Inv, TypeOK
  <2> QED
    BY <1>10, <2>1, <2>2, <2>3, <2>4, <2>5, <2>6
<1>17. CASE FailsOnceMore(c, err)
  <2>1. /\ failures' = [failures EXCEPT ![c] = 0] /\ Exhausted(c)
        /\ paused' = paused \cup NewlyExpired(err)
    BY <1>17 DEF FailsOnceMore
  <2>2. PICK again \in FullResyncErrors(c) :
          /\ status' = [Marked(err) EXCEPT ![c] = IF again = {} THEN "ok" ELSE "error"]
          /\ cursor' = SetCursor(c, again) /\ streak' = Streak(c, again)
          /\ Pay(SyncCost(c, err) + ResyncCost(again))
    BY <1>17 DEF FailsOnceMore
  <2>3. failures' \in [Calendar -> 0..(Threshold - 1)]
    BY <1>18, <2>1
  <2>4. /\ faults' \in 0..MaxFaults /\ faults' >= faults
        /\ Failed \in again => faults' > faults
    <3>1. SyncCost(c, err) + ResyncCost(again) \in Nat
      BY <1>9
    <3>2. Failed \in again => ResyncCost(again) = 1
      BY DEF ResyncCost
    <3> QED
      BY <1>9, <1>13, <2>2, <3>1, <3>2, PayTyped
  <2>5. streak' \in [Calendar -> Nat] /\ Counted'
    <3>1. CASE Completes(again) \/ ~Works("daemon", Owner[c])
      BY <1>1, <2>1, <2>2, <2>4, <3>1, StreakReset
    <3>2. CASE ~Completes(again) /\ Works("daemon", Owner[c])
      BY <1>1, <2>1, <2>2, <2>4, <3>2, StreakForced, FailedUnlessExpired
    <3> QED
      BY <3>1, <3>2
  <2>6. (IF again = {} THEN "ok" ELSE "error") \in Status \ {"absent"}
    BY DEF Status
  <2> QED
    BY <1>10, <1>12, <2>1, <2>2, <2>3, <2>4, <2>5, <2>6
<1> QED
  BY <1>2, <1>14, <1>15, <1>16, <1>17

\* Steps that leave the tokens alone keep what is known of them.
LEMMA TokensUntouched ==
  ASSUME TokensInv, UNCHANGED tokens
  PROVE  TokensInv' /\ \A a : Works("daemon", a)' <=> Works("daemon", a)
BY DEF TokensInv, tokens, TokensTypeOK, Traceable, Unshared, Works, PlainFile, DiskUsable

\* Token actions of the app server, of users, and of the daemon within a call.
LEMMA AppStepKeeps ==
  ASSUME Inv, AppStep
  PROVE  Inv'
<1> USE SchedulerAssumption
<1>1. ASSUME TokenStep, UNCHANGED engine, edits' \in 0..MaxEdits,
             faults' \in 0..MaxFaults, faults' >= faults,
             pc = "down" => held'["daemon"] = held["daemon"] /\ unsaved'["daemon"] = unsaved["daemon"]
      PROVE  Inv'
  <2>1. TokensInv'
    BY <1>1, TokenStepKeeps DEF Inv
  <2>2. TypeOK'
    BY <1>1, <2>1 DEF Inv, TypeOK, engine, TokensInv
  <2>3. Down'
    BY <1>1 DEF Inv, Down, engine
  <2>4. OnlyExpiredPaused'
    BY <1>1, DeadStaysDead DEF Inv, OnlyExpiredPaused, engine, TypeOK
  <2>5. PausedIsReported'
    BY <1>1 DEF Inv, PausedIsReported, engine
  <2>6. Counted'
    <3>1. faults \in Nat /\ faults' \in Nat
      BY <1>1 DEF Inv, TypeOK
    <3>2. PICK p \in Nat, q \in Nat :
            p = Threshold * faults /\ q = Threshold * faults' /\ p <= q
      BY <1>1, <3>1, Times
    <3>3. \A c \in Calendar : streak[c] \in Nat /\ failures[c] \in Nat
      BY DEF Inv, TypeOK
    <3> QED
      BY <1>1, <3>2, <3>3 DEF Inv, Counted, engine
  <2> QED
    BY <2>1, <2>2, <2>3, <2>4, <2>5, <2>6 DEF Inv
<1>2. edits \in 0..MaxEdits /\ faults \in 0..MaxFaults
  BY DEF Inv, TypeOK
<1>11. ASSUME Edit
       PROVE  /\ UNCHANGED engine /\ edits' \in 0..MaxEdits
              /\ faults' \in 0..MaxFaults /\ faults' >= faults
  <2>1. edits \in Nat /\ edits < MaxEdits /\ edits' = edits + 1 /\ MaxEdits \in Nat
    BY <1>2, <1>11 DEF Edit
  <2>2. UNCHANGED engine /\ faults' = faults
    BY <1>11 DEF Edit
  <2>3. faults >= faults
    BY <1>2
  <2> QED
    BY <1>2, <2>1, <2>2, <2>3
<1>3. ASSUME NEW a \in Account, DaemonRefresh(a)
      PROVE  Inv'
  BY <1>1, <1>2, <1>3 DEF DaemonRefresh, TokenStep
<1>4. ASSUME NEW a \in Account, DaemonPersist(a)
      PROVE  Inv'
  <2>1. pc # "down"
    BY <1>4 DEF DaemonPersist, Persist, Inv, Down
  <2> QED
    BY <1>1, <1>2, <1>4, <2>1 DEF DaemonPersist, TokenStep
<1>5. ASSUME NEW a \in Account, AppRequest(a)
      PROVE  Inv'
  <2>1. held'["daemon"] = held["daemon"] /\ unsaved' = unsaved
    BY <1>5 DEF AppRequest, BuildProvider, Inv, TypeOK, TokensTypeOK
  <2>2. TokenStep
    BY <1>5 DEF AppRequest, TokenStep
  <2> QED
    BY <1>1, <1>5, <1>11, <2>1, <2>2 DEF AppRequest
<1>6. ASSUME NEW a \in Account, AppRefresh(a)
      PROVE  Inv'
  <2>1. held'["daemon"] = held["daemon"] /\ unsaved'["daemon"] = unsaved["daemon"]
    BY <1>6 DEF AppRefresh, Refresh, Inv, TypeOK, TokensTypeOK
  <2> QED
    BY <1>1, <1>2, <1>6, <2>1 DEF AppRefresh, TokenStep
<1>7. ASSUME NEW a \in Account, AppPersist(a)
      PROVE  Inv'
  <2>1. held'["daemon"] = held["daemon"] /\ unsaved'["daemon"] = unsaved["daemon"]
    BY <1>7 DEF AppPersist, Persist, Inv, TypeOK, TokensTypeOK
  <2> QED
    BY <1>1, <1>2, <1>7, <2>1 DEF AppPersist, TokenStep
<1>8. ASSUME AppAnswers
      PROVE  Inv'
  <2>1. held'["daemon"] = held["daemon"] /\ unsaved'["daemon"] = unsaved["daemon"]
    BY <1>8 DEF AppAnswers, Forget, Inv, TypeOK, TokensTypeOK
  <2>2. faults' \in 0..MaxFaults /\ faults' >= faults
    BY <1>2, <1>8, PayTyped DEF AppAnswers
  <2> QED
    BY <1>1, <1>2, <1>8, <2>1, <2>2 DEF AppAnswers, TokenStep
<1>9. ASSUME NEW a \in Account, UserRevokes(a)
      PROVE  Inv'
  <2>1. held' = held /\ unsaved' = unsaved
    BY <1>9 DEF UserRevokes, Revoke
  <2>2. TokenStep
    BY <1>9 DEF UserRevokes, TokenStep
  <2> QED
    BY <1>1, <1>9, <1>11, <2>1, <2>2 DEF UserRevokes
<1>10. ASSUME NEW a \in Account, UserAuthorises(a)
       PROVE  Inv'
  <2>1. held' = held /\ unsaved' = unsaved
    BY <1>10 DEF UserAuthorises, Authorise
  <2>2. TokenStep
    BY <1>10 DEF UserAuthorises, TokenStep
  <2> QED
    BY <1>1, <1>10, <1>11, <2>1, <2>2 DEF UserAuthorises
<1> QED
  BY <1>3, <1>4, <1>5, <1>6, <1>7, <1>8, <1>9, <1>10 DEF AppStep

\* Reconcile lists a calendar anew; its streak ends or is charged to a fault.
LEMMA ReconcileKeeps ==
  ASSUME Inv, ReconcileCalendar
  PROVE  Inv'
<1> USE SchedulerAssumption
<1> DEFINE c == at
<1>1. c \in Calendar /\ Owner[c] \in Account /\ pc = "reconcile"
  BY DEF Inv, TypeOK, ReconcileCalendar, Last, Calendar
<1>2. PICK err \in FullResyncErrors(c) :
        cursor' = SetCursor(c, err) /\ streak' = Streak(c, err) /\ Pay(ResyncCost(err))
  BY DEF ReconcileCalendar
<1>3. /\ status' = [status EXCEPT ![c] = IF @ = "absent" THEN "ok" ELSE @]
      /\ at' = at + 1
      /\ UNCHANGED <<tokens, pc, paused, failures, edits>>
  BY DEF ReconcileCalendar
<1>4. at' \in 1..Last
  BY <1>1, <1>3 DEF Inv, TypeOK, Calendar, Last
<1>5. TokensInv' /\ \A a : Works("daemon", a)' <=> Works("daemon", a)
  BY <1>3, TokensUntouched DEF Inv
<1>6. faults \in 0..MaxFaults /\ ResyncCost(err) \in Nat
  BY DEF Inv, TypeOK, ResyncCost
<1>7. /\ faults' \in 0..MaxFaults /\ faults' >= faults
      /\ Failed \in err => faults' > faults
  <2>1. Failed \in err => ResyncCost(err) = 1
    BY DEF ResyncCost
  <2> QED
    BY <1>2, <1>6, <2>1, PayTyped
<1>8. streak' \in [Calendar -> Nat] /\ Counted'
  BY <1>1, <1>2, <1>3, <1>7, StreakKept, FailedUnlessExpired
<1>9. cursor' \in [Calendar -> Cursor]
  BY <1>2 DEF Inv, TypeOK, SetCursor, Cursor
<1>10. status' \in [Calendar -> Status]
  BY <1>3 DEF Inv, TypeOK, Status
<1>11. TypeOK'
  BY <1>3, <1>4, <1>5, <1>7, <1>8, <1>9, <1>10 DEF Inv, TypeOK, TokensInv
<1>12. Down' /\ PausedIsReported'
  BY <1>1, <1>3 DEF Down, PausedIsReported
<1>13. OnlyExpiredPaused'
  BY <1>3, <1>5 DEF Inv, OnlyExpiredPaused
<1> QED
  BY <1>5, <1>8, <1>11, <1>12, <1>13 DEF Inv

\* The tables and loops of a daemon that starts, stops, or makes its maps anew.
LEMMA OtherStepsKeep ==
  ASSUME Inv,
         Skip \/ EndTick \/ Tick \/ EndReconcile \/ Stop \/ Start \/ \E c \in Calendar : Spoil(c)
  PROVE  Inv'
<1> USE SchedulerAssumption
<1>1. CASE Skip \/ EndTick \/ Tick
  <2>1. /\ UNCHANGED <<tokens, paused, failures, cursor, status, streak, edits, faults>>
        /\ pc \in {"tick", "wait"} /\ pc' \in {"tick", "wait", "reconcile"}
    BY <1>1 DEF Skip, EndTick, Tick
  <2>2. at' \in 1..Last
    BY <1>1 DEF Skip, EndTick, Tick, Inv, TypeOK, Last
  <2>3. TokensInv' /\ \A a : Works("daemon", a)' <=> Works("daemon", a)
    BY <2>1, TokensUntouched DEF Inv
  <2>4. TypeOK'
    BY <2>1, <2>2, <2>3 DEF Inv, TypeOK, TokensInv
  <2>5. Down' /\ OnlyExpiredPaused'
    BY <2>1, <2>3 DEF Inv, Down, OnlyExpiredPaused
  <2>6. PausedIsReported'
    BY <2>1 DEF Inv, PausedIsReported
  <2>7. Counted'
    BY <2>1 DEF Inv, Counted
  <2> QED
    BY <2>3, <2>4, <2>5, <2>6, <2>7 DEF Inv
<1>2. ASSUME TokensInv', FreshMaps, UNCHANGED <<cursor, status, edits>>,
             pc' \in {"tick", "down"}, at' = 1, faults' \in 0..MaxFaults,
             pc' = "down" => /\ \A a \in Account : held'["daemon"][a] = 0
                             /\ unsaved'["daemon"] = {}
      PROVE  Inv'
  <2>1. Zero \in [Calendar -> 0..(Threshold - 1)] /\ Zero \in [Calendar -> Nat]
    BY DEF Zero
  <2>2. TypeOK'
    BY <1>2, <2>1 DEF Inv, TypeOK, TokensInv, FreshMaps, Last
  <2>3. Down' /\ OnlyExpiredPaused' /\ PausedIsReported'
    BY <1>2 DEF Down, OnlyExpiredPaused, PausedIsReported, FreshMaps
  <2>4. Counted'
    <3>1. faults' \in Nat
      BY <1>2
    <3>2. PICK q \in Nat : q = Threshold * faults'
      BY <3>1, Times
    <3>3. \A c \in Calendar : streak'[c] = 0 /\ failures'[c] = 0
      BY <1>2 DEF FreshMaps, Zero
    <3>4. 0 <= 0 + q
      BY <3>2
    <3>5. \A c \in Calendar : streak'[c] <= failures'[c] + q
      BY <3>3, <3>4
    <3> QED
      BY <3>2, <3>5 DEF Counted
  <2> QED
    BY <1>2, <2>2, <2>3, <2>4 DEF Inv
<1>3. CASE EndReconcile
  <2>1. TokensInv' /\ faults' \in 0..MaxFaults
    BY <1>3, TokensUntouched DEF EndReconcile, Inv, TypeOK
  <2> QED
    BY <1>2, <1>3, <2>1 DEF EndReconcile
<1>4. CASE Stop
  <2>1. TokensInv'
    BY <1>4, ForgetKeeps DEF Stop, Inv
  <2>2. faults' \in 0..MaxFaults
    BY <1>4, PayTyped DEF Stop, Inv, TypeOK
  <2>3. /\ \A a \in Account : held'["daemon"][a] = 0
        /\ unsaved'["daemon"] = {}
    BY <1>4 DEF Stop, Forget, Inv, TypeOK, TokensTypeOK
  <2> QED
    BY <1>2, <1>4, <2>1, <2>2, <2>3 DEF Stop
<1>5. CASE Start
  <2>1. unsaved["daemon"] = {} /\ paused = {}
    BY <1>5 DEF Start, Inv, Down
  <2>2. TokensInv'
    BY <1>5, <2>1, BuildKeeps DEF Start, Inv
  <2>3. TypeOK'
    BY <1>5, <2>2 DEF Start, Inv, TypeOK, TokensInv
  <2>4. Down' /\ OnlyExpiredPaused' /\ PausedIsReported'
    BY <1>5, <2>1 DEF Start, Down, OnlyExpiredPaused, PausedIsReported
  <2>5. Counted'
    BY <1>5 DEF Start, Inv, Counted
  <2> QED
    BY <2>2, <2>3, <2>4, <2>5 DEF Inv
<1>6. ASSUME NEW c \in Calendar, Spoil(c)
      PROVE  Inv'
  <2>1. /\ UNCHANGED <<tokens, pc, at, paused, failures, status, streak, faults>>
        /\ cursor' \in [Calendar -> Cursor] /\ edits' \in 0..MaxEdits
    BY <1>6 DEF Spoil, Inv, TypeOK, Cursor
  <2>2. TokensInv' /\ \A a : Works("daemon", a)' <=> Works("daemon", a)
    BY <2>1, TokensUntouched DEF Inv
  <2>3. TypeOK'
    BY <2>1, <2>2 DEF Inv, TypeOK, TokensInv
  <2>4. Down' /\ OnlyExpiredPaused'
    BY <2>1, <2>2 DEF Inv, Down, OnlyExpiredPaused, tokens
  <2>5. PausedIsReported' /\ Counted'
    BY <2>1 DEF Inv, PausedIsReported, Counted
  <2> QED
    BY <2>2, <2>3, <2>4, <2>5 DEF Inv
<1> QED
  BY <1>1, <1>3, <1>4, <1>5, <1>6

\* The invariant holds of a first start.
LEMMA InitHolds == Init => Inv
<1> SUFFICES ASSUME Init PROVE Inv
  OBVIOUS
<1> USE SchedulerAssumption, TokensAssumption
<1>1. TokensTypeOK
  BY DEF Init, TokensInit, TokensTypeOK, Token
<1>2. Traceable /\ Unshared /\ PlainFile /\ DiskUsable
  BY DEF Init, TokensInit, Traceable, Unshared, PlainFile, DiskUsable, Works
<1>3. Zero \in [Calendar -> 0..(Threshold - 1)] /\ Zero \in [Calendar -> Nat]
  BY DEF Zero
<1>4. status \in [Calendar -> Status]
  BY DEF Init, Status
<1>5. TypeOK
  BY <1>1, <1>3, <1>4 DEF Init, TypeOK, Cursor, Last
<1>6. Down /\ OnlyExpiredPaused /\ PausedIsReported
  BY DEF Init, TokensInit, Down, OnlyExpiredPaused, PausedIsReported
<1>7. Counted
  BY DEF Init, Counted, Zero
<1> QED
  BY <1>1, <1>2, <1>5, <1>6, <1>7 DEF Inv, TokensInv

\* Every step preserves it.
LEMMA NextKeeps == Inv /\ [Next]_vars => Inv'
<1> SUFFICES ASSUME Inv, [Next]_vars PROVE Inv'
  OBVIOUS
<1>1. CASE UNCHANGED vars
  <2>1. TokensInv' /\ \A a : Works("daemon", a)' <=> Works("daemon", a)
    BY <1>1, TokensUntouched DEF Inv, vars
  <2>2. TypeOK'
    BY <1>1, <2>1 DEF Inv, TypeOK, TokensInv, vars
  <2> QED
    BY <1>1, <2>1, <2>2 DEF Inv, vars, Down, OnlyExpiredPaused, PausedIsReported, Counted, tokens
<1>2. CASE Next
  BY <1>2, SyncKeeps, ReconcileKeeps, OtherStepsKeep, AppStepKeeps DEF Next, Run, AppStep
<1> QED
  BY <1>1, <1>2

\* What the composition keeps true in every behaviour.
LEMMA SchedulerInvariant == Spec => []Inv
  BY InitHolds, NextKeeps, PTL DEF Spec

-----------------------------------------------------------------------------
\* Every table, map and token of the composition keeps its type.
THEOREM SchedulerTypeCorrect == Spec => []TypeOK
<1>1. Inv => TypeOK
  BY DEF Inv
<1> QED
  BY <1>1, SchedulerInvariant, PTL

\* Only an account whose own token has expired is paused, whatever mixture of
\* errors the passes over its and other accounts' calendars return.
THEOREM NobodyElseIsPaused == Spec => []OnlyExpiredPaused
<1>1. Inv => OnlyExpiredPaused
  BY DEF Inv
<1> QED
  BY <1>1, SchedulerInvariant, PTL

\* A paused account shows it in the table, unless it has no row there.
THEOREM PauseIsReported == Spec => []PausedIsReported
<1>1. Inv => PausedIsReported
  BY DEF Inv
<1> QED
  BY <1>1, SchedulerInvariant, PTL

\* A poisoned cursor is given up after Threshold failures, for every Threshold.
THEOREM PoisonIsCounted == Spec => []PoisonIsShort
<1>1. Inv => PoisonIsShort
  <2> SUFFICES ASSUME Inv, NEW c \in Calendar
               PROVE  streak[c] < Threshold * (1 + faults)
    BY DEF PoisonIsShort
  <2>1. PICK f \in Nat, t \in Nat : f = faults /\ t = Threshold
    BY SchedulerAssumption DEF Inv, TypeOK
  <2>2. t * (1 + f) = t + t * f /\ t * f \in Nat
    BY <2>1
  <2>3. /\ streak[c] \in Nat /\ failures[c] \in 0..(t - 1)
        /\ streak[c] <= failures[c] + t * f
    BY <2>1 DEF Inv, TypeOK, Counted
  <2> QED
    BY <2>1, <2>2, <2>3
<1> QED
  BY <1>1, SchedulerInvariant, PTL

\* Refreshes by two processes, new authorisations and restarts in any order never
\* leave a file without access by themselves.
THEOREM FileStaysUsable == Spec => []DiskUsable
<1>1. Inv => DiskUsable
  BY DEF Inv, TokensInv
<1> QED
  BY <1>1, SchedulerInvariant, PTL
=============================================================================
