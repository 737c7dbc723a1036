-------------------------------- MODULE Tokens --------------------------------
(***************************************************************************)
(* OAuth tokens: the file an account's token is kept in (auth/tokens.go),  *)
(* what the processes of calsync hold in memory (clients/clients.go), and  *)
(* what the provider still honours.  A token stands for the refresh token; *)
(* the access tokens made from it are cached in memory for about an hour.  *)
(*                                                                         *)
(* The daemon reads the file once, when it starts.  The app server reads   *)
(* it at the start of a request that probes an account (doctor) or lists   *)
(* its calendars.  Both write it back after each refresh.  `calsync auth   *)
(* add` and the authorisation of the app write a new token.                *)
(***************************************************************************)
EXTENDS Naturals

CONSTANTS
  Account,
  Rotating,     \* accounts whose provider replaces the token at each refresh
  MaxTokens     \* bound: tokens issued for one account

ASSUME TokensAssumption ==
  Rotating \subseteq Account /\ MaxTokens \in Nat \ {0}

Process == {"daemon", "app"}
Token   == 1..MaxTokens
NoToken == 0

VARIABLES
  disk,      \* [Account -> Token]: tokens/<id>.json
  held,      \* [Process -> [Account -> Token or NoToken]]: base of the source
  unsaved,   \* [Process -> SUBSET Account]: refreshed, and not yet persisted
  good,      \* [Account -> SUBSET Token]: tokens the provider honours
  issued,    \* [Account -> Token]: the last one it issued
  excused    \* accounts with a revocation, or a refresh that died unsaved,
             \* since they were authorised

tokens == <<disk, held, unsaved, good, issued, excused>>

TokensTypeOK ==
  /\ disk \in [Account -> Token]
  /\ held \in [Process -> [Account -> Token \cup {NoToken}]]
  /\ unsaved \in [Process -> SUBSET Account]
  /\ good \in [Account -> SUBSET Token]
  /\ issued \in [Account -> Token]
  /\ excused \subseteq Account

TokensInit ==
  /\ disk = [a \in Account |-> 1] /\ issued = [a \in Account |-> 1]
  /\ good = [a \in Account |-> {1}]
  /\ held = [p \in Process |-> [a \in Account |-> NoToken]]
  /\ unsaved = [p \in Process |-> {}]
  /\ excused = {}

Works(p, a) == held[p][a] \in good[a]

\* A process builds the providers of the accounts A from their files.
BuildProvider(p, A) ==
  /\ held' = [held EXCEPT ![p] = [a \in Account |-> IF a \in A THEN disk[a] ELSE @[a]]]
  /\ UNCHANGED <<disk, unsaved, good, issued, excused>>

\* The access token is over and the provider makes a new one, from a token it
\* honours.  A rotated token is the only one of its line from then on.
Refresh(p, a) ==
  /\ Works(p, a)
  /\ IF a \in Rotating
     THEN LET new == issued[a] + 1 IN
          /\ issued[a] < MaxTokens
          /\ issued' = [issued EXCEPT ![a] = new]
          /\ good' = [good EXCEPT ![a] = (@ \ {held[p][a]}) \cup {new}]
          /\ held' = [held EXCEPT ![p][a] = new]
     ELSE UNCHANGED <<issued, good, held>>
  /\ unsaved' = [unsaved EXCEPT ![p] = @ \cup {a}]
  /\ UNCHANGED <<disk, excused>>

\* Mutant: a token is taken for unchanged when only its refresh token changed.
KeepsOld(p, a) ==
  /\ a \in unsaved[p]
  /\ unsaved' = [unsaved EXCEPT ![p] = @ \ {a}]
  /\ UNCHANGED <<disk, held, good, issued, excused>>

\* Every call that needs the token tries to save it until the file has it.
Persist(p, a) ==
  /\ a \in unsaved[p]
  /\ disk' = [disk EXCEPT ![a] = held[p][a]]
  /\ unsaved' = [unsaved EXCEPT ![p] = @ \ {a}]
  /\ UNCHANGED <<held, good, issued, excused>>

\* The process ends, with what it did not save.
Forget(p) ==
  /\ held' = [held EXCEPT ![p] = [a \in Account |-> NoToken]]
  /\ unsaved' = [unsaved EXCEPT ![p] = {}]
  /\ excused' = excused \cup (unsaved[p] \cap Rotating)
  /\ UNCHANGED <<disk, good, issued>>

\* The user, an administrator or the provider withdraws the consent.
Revoke(a) ==
  /\ good[a] # {}
  /\ good' = [good EXCEPT ![a] = {}] /\ excused' = excused \cup {a}
  /\ UNCHANGED <<disk, held, unsaved, issued>>

\* A new consent; the tokens of an older one stay good until they are revoked.
Authorise(a) ==
  /\ issued[a] < MaxTokens
  /\ LET new == issued[a] + 1 IN
       /\ issued' = [issued EXCEPT ![a] = new]
       /\ good' = [good EXCEPT ![a] = @ \cup {new}]
       /\ disk' = [disk EXCEPT ![a] = new]
  /\ excused' = IF \E p \in Process : a \in unsaved[p] THEN excused ELSE excused \ {a}
  /\ UNCHANGED <<held, unsaved>>

\* No process holds a token that was not issued, or an unsaved one that another
\* process or the file has; saving it puts a good one in the file.  Without
\* rotation the file is good all along.
Traceable ==
  \A a \in Account :
    /\ good[a] \subseteq 1..issued[a] /\ disk[a] <= issued[a]
    /\ \A p \in Process : held[p][a] <= issued[a]
Unshared ==
  \A p \in Process : \A a \in unsaved[p] :
    /\ held[p][a] # NoToken
    /\ Works(p, a) \/ a \in excused
    /\ a \in Rotating => /\ disk[a] # held[p][a]
                         /\ \A q \in Process \ {p} : held[q][a] # held[p][a]
PlainFile == \A a \in Account \ Rotating : disk[a] \in good[a] \/ a \in excused

\* A restart never loses access by itself: as long as nobody withdrew the
\* consent, no process died between a rotation and its Save, and no Save is
\* outstanding, the file holds a token the provider honours.  Two processes
\* that refresh the same account may cut each other off, but not the file.
DiskUsable ==
  \A a \in Account :
    disk[a] \in good[a] \/ a \in excused \/ \E p \in Process : a \in unsaved[p]
=============================================================================
