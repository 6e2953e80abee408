----------------------- MODULE CredentialStoreProofs ------------------------
(***************************************************************************)
(* For any number of processes, profiles and tokens: the types, that       *)
(* updates of the shared file that do not overlap leave the other profiles *)
(* alone, and that a command finds the last login or logout.               *)
(***************************************************************************)
EXTENDS CredentialStore, TLAPS

-----------------------------------------------------------------------------
(* What makes the properties inductive. *)

\* A process whose view is current and that is about to write has the file
\* as it is now, with its own change.
ViewsAreCurrent ==
  \A c \in fresh : pc[c] \in {"write", "unlink"} => values[c] = Changed(c)

\* As long as the keychain answers, the file is never written: commands that
\* may look at it find nothing there.
KeychainServes ==
  ~moved /\ available =>
    /\ keychain = latest /\ file = NoFile
    /\ \A c \in Processes :
         /\ pc[c] \notin {"read", "write", "unlink"}
         /\ pc[c] = "exists" =>
              /\ command[c].name # "login"
              /\ command[c].name = "load" => wanted[c] = None

\* As long as it does not answer, every update is an update of the file.
FileServes ==
  ~moved /\ ~available =>
    /\ written = latest
    /\ \A c \in Processes : pc[c] # "forget"

StoreInv == TypeOK /\ UpdatesStand /\ ViewsAreCurrent

LoadInv == StoreInv /\ KeychainServes /\ FileServes /\ LoadsLatest

-----------------------------------------------------------------------------
\* A command of each kind has these fields.
LEMMA CommandFields ==
  ASSUME TypeOK, NEW c \in Processes, pc[c] # "idle"
  PROVE  /\ command[c] \in Commands
         /\ command[c].profile \in Profiles /\ command[c].allow \in BOOLEAN
         /\ command[c].token \in Stored
         /\ command[c].name \in {"login", "logout", "load"}
         /\ command[c].name = "login" <=> command[c].token # None
<1>1. command[c] \in Commands
  BY DEF TypeOK, ProcessesOK, WritesOK
<1>2. CASE command[c] \in [name: {"login"}, profile: Profiles, allow: BOOLEAN, token: Tokens]
  BY <1>1, <1>2, NoneAssumption DEF Stored
<1>3. CASE command[c] \in [name: {"logout", "load"}, profile: Profiles, allow: BOOLEAN,
                           token: {None}]
  BY <1>1, <1>3, NoneAssumption DEF Stored
<1>. QED
  BY <1>1, <1>2, <1>3 DEF Commands

LEMMA NoFileType == NoFile \in [Profiles -> Stored]
BY DEF NoFile, Stored

\* The map a save or delete writes back is one of profiles and tokens.
LEMMA ChangedType ==
  ASSUME TypeOK, NEW c \in Processes, pc[c] # "idle"
  PROVE  Changed(c) \in [Profiles -> Stored]
BY CommandFields DEF TypeOK, CopiesOK, Changed, Profile

\* What a save writes back is not the file without profiles.
LEMMA SavedIsSome ==
  ASSUME TypeOK, NEW c \in Processes, pc[c] # "idle", command[c].name = "login"
  PROVE  Changed(c) # NoFile
<1>1. Changed(c)[Profile(c)] = command[c].token
  BY CommandFields DEF TypeOK, CopiesOK, Changed, Profile
<1>2. NoFile[Profile(c)] = None
  BY CommandFields DEF NoFile, Profile
<1>. QED
  BY <1>1, <1>2, CommandFields

LEMMA AnswerTypes ==
  /\ \A flag \in BOOLEAN : Removed(flag) \in Answers
  /\ Stored \subseteq Answers /\ None \in Stored
  /\ {"raised", "killed", "os-keychain", "restricted-file"} \subseteq Answers
BY DEF Removed, Answers, Stored

-----------------------------------------------------------------------------
(* Types. *)

LEMMA InitTypes == Init => TypeOK
<1>. SUFFICES ASSUME Init PROVE TypeOK
  OBVIOUS
<1>1. CopiesOK
  BY NoFileType DEF Init, CopiesOK
<1>2. FlagsOK
  BY DEF Init, FlagsOK
<1>3. ProcessesOK
  BY MaxCommandsAssumption, AnswerTypes DEF Init, ProcessesOK
<1>4. WritesOK
  BY DEF Init, WritesOK
<1>. QED
  BY <1>1, <1>2, <1>3, <1>4 DEF TypeOK

LEMMA StartTypes ==
  ASSUME TypeOK, NEW c \in Processes, StartCommand(c)
  PROVE  TypeOK'
<1>1. PICK it \in Commands : command' = [command EXCEPT ![c] = it]
  BY DEF StartCommand
<1>2. it # None
  BY NoneAssumption
<1>3. commands' \in 0..MaxCommands
  BY MaxCommandsAssumption DEF StartCommand, TypeOK, ProcessesOK
<1>4. CopiesOK'
  BY NoFileType DEF StartCommand, TypeOK, CopiesOK, copyVars
<1>5. FlagsOK'
  BY DEF StartCommand, TypeOK, FlagsOK
<1>6. ProcessesOK'
  BY <1>1, <1>3, AnswerTypes DEF StartCommand, TypeOK, ProcessesOK
<1>7. WritesOK'
  BY <1>1, <1>2 DEF StartCommand, TypeOK, ProcessesOK, CopiesOK, WritesOK
<1>. QED
  BY <1>4, <1>5, <1>6, <1>7 DEF TypeOK

LEMMA KeychainTypes ==
  ASSUME TypeOK, NEW c \in Processes,
         SaveToKeychain(c) \/ LoadFromKeychain(c) \/ FindInKeychain(c) \/ ForgetInKeychain(c)
  PROVE  TypeOK'
<1>. pc[c] # "idle"
  BY DEF SaveToKeychain, LoadFromKeychain, FindInKeychain, ForgetInKeychain, At
<1>. USE CommandFields, AnswerTypes DEF TypeOK
<1>1. CASE SaveToKeychain(c)
  <2>1. CopiesOK'
    BY <1>1 DEF SaveToKeychain, CopiesOK, Updates, Profile
  <2>2. FlagsOK'
    BY <1>1 DEF SaveToKeychain, FlagsOK
  <2>3. ProcessesOK' /\ WritesOK'
    BY <1>1 DEF SaveToKeychain, ProcessesOK, WritesOK, FileOr, GoTo, Answer
  <2>. QED
    BY <2>1, <2>2, <2>3
<1>2. CASE LoadFromKeychain(c)
  <2>1. CopiesOK' /\ FlagsOK'
    BY <1>2 DEF LoadFromKeychain, CopiesOK, FlagsOK, copyVars
  <2>2. keychain[Profile(c)] \in Stored /\ latest[Profile(c)] \in Stored
    BY DEF CopiesOK, Profile
  <2>3. ProcessesOK' /\ WritesOK'
    BY <1>2, <2>2 DEF LoadFromKeychain, ProcessesOK, WritesOK, FileOr, GoTo, Answer
  <2>. QED
    BY <2>1, <2>3
<1>3. CASE FindInKeychain(c)
  <2>1. CopiesOK' /\ FlagsOK'
    BY <1>3 DEF FindInKeychain, CopiesOK, FlagsOK, copyVars, historyVars
  <2>3. ProcessesOK' /\ WritesOK'
    BY <1>3 DEF FindInKeychain, ProcessesOK, WritesOK, FileOr, GoTo, Answer, historyVars
  <2>. QED
    BY <2>1, <2>3
<1>4. CASE ForgetInKeychain(c)
  <2>. DEFINE there == available /\ keychain[Profile(c)] # None
  <2>1. CopiesOK'
    BY <1>4 DEF ForgetInKeychain, CopiesOK, Updates, Profile
  <2>2. FlagsOK'
    <3>1. removed' = [removed EXCEPT ![c] = there] /\ there \in BOOLEAN
      BY <1>4 DEF ForgetInKeychain
    <3>2. removed' \in [Processes -> BOOLEAN]
      BY <3>1 DEF FlagsOK
    <3>. QED
      BY <1>4, <3>2 DEF ForgetInKeychain, FlagsOK
  <2>3. Removed(there) \in Answers
    BY DEF Removed, Answers
  <2>4. ProcessesOK' /\ WritesOK'
    BY <1>4, <2>3 DEF ForgetInKeychain, ProcessesOK, WritesOK, FileOr, GoTo, Answer
  <2>. QED
    BY <2>1, <2>2, <2>4
<1>. QED
  BY <1>1, <1>2, <1>3, <1>4

LEMMA FileTypes ==
  ASSUME TypeOK, NEW c \in Processes,
         FileExists(c) \/ ReadFile(c) \/ WriteFile(c) \/ UnlinkFile(c)
  PROVE  TypeOK'
<1>. pc[c] # "idle"
  BY DEF FileExists, ReadFile, WriteFile, UnlinkFile
<1>. USE CommandFields, AnswerTypes, NoFileType DEF TypeOK
<1>0. Profile(c) \in Profiles /\ latest[Profile(c)] \in Stored /\ file[Profile(c)] \in Stored
  BY DEF CopiesOK, Profile
<1>00. Changed(c) \in [Profiles -> Stored]
  BY ChangedType
<1>1. CASE FileExists(c)
  <2>1. wanted' \in [Processes -> Stored]
    BY <1>0, <1>1 DEF FileExists, Looks, ProcessesOK
  <2>2. CopiesOK'
    BY <1>00, <1>1 DEF FileExists, CopiesOK, copyVars
  <2>3. FlagsOK'
    BY <1>1 DEF FileExists, FlagsOK
  <2>4. removed[c] \in BOOLEAN
    BY DEF FlagsOK
  <2>5. Removed(removed[c]) \in Answers
    BY <2>4
  <2>6. command[c].name = "login" => Changed(c) # NoFile
    BY SavedIsSome
  <2>7. ProcessesOK'
    BY <1>1, <2>1, <2>5 DEF FileExists, ProcessesOK, GoTo, Answer
  <2>8. WritesOK'
    BY <1>1, <2>6 DEF FileExists, ProcessesOK, CopiesOK, WritesOK, GoTo, Answer
  <2>. QED
    BY <2>2, <2>3, <2>7, <2>8
<1>2. CASE ReadFile(c)
  <2>1. wanted' \in [Processes -> Stored]
    BY <1>0, <1>2 DEF ReadFile, Looks, ProcessesOK
  <2>2. CopiesOK'
    BY <1>00, <1>2 DEF ReadFile, CopiesOK, copyVars
  <2>3. FlagsOK'
    BY <1>2 DEF ReadFile, FlagsOK
  <2>7. ProcessesOK'
    BY <1>0, <1>2, <2>1 DEF ReadFile, ProcessesOK, GoTo, Answer
  <2>8. WritesOK'
    BY <1>2 DEF ReadFile, AnyLeft, ProcessesOK, CopiesOK, WritesOK, GoTo, Answer
  <2>. QED
    BY <2>2, <2>3, <2>7, <2>8
<1>3. removed[c] \in BOOLEAN
  BY DEF FlagsOK
<1>4. Removed(removed[c]) \in Answers
  BY <1>3
<1>6. CASE WriteFile(c)
  <2>1. CopiesOK'
    BY <1>0, <1>6 DEF WriteFile, CopiesOK, Replaces, Updates
  <2>2. FlagsOK'
    BY <1>6 DEF WriteFile, FlagsOK, Replaces
  <2>3. ProcessesOK' /\ WritesOK'
    BY <1>4, <1>6 DEF WriteFile, ProcessesOK, WritesOK, Replaces, Done, Answer
  <2>. QED
    BY <2>1, <2>2, <2>3
<1>7. CASE UnlinkFile(c)
  <2>1. CopiesOK'
    BY <1>0, <1>7 DEF UnlinkFile, CopiesOK, Replaces, Updates
  <2>2. FlagsOK'
    BY <1>7 DEF UnlinkFile, FlagsOK, Replaces
  <2>3. ProcessesOK' /\ WritesOK'
    BY <1>4, <1>7 DEF UnlinkFile, ProcessesOK, WritesOK, Replaces, Done, Answer
  <2>. QED
    BY <2>1, <2>2, <2>3
<1>. QED
  BY <1>1, <1>2, <1>6, <1>7

LEMMA StepTypes == TypeOK /\ [Next]_vars => TypeOK'
<1>. SUFFICES ASSUME TypeOK, [Next]_vars PROVE TypeOK'
  OBVIOUS
<1>. USE DEF TypeOK, CopiesOK, FlagsOK, ProcessesOK, WritesOK
<1>1. CASE UNCHANGED vars
  BY <1>1 DEF vars, copyVars, processVars, historyVars
<1>2. CASE KeychainMoves
  BY <1>2 DEF KeychainMoves, copyVars, processVars
<1>3. ASSUME NEW c \in Processes, CommandStep(c) PROVE TypeOK'
  <2>1. CASE Kill(c)
    BY <2>1, AnswerTypes DEF Kill, Answer, copyVars, historyVars
  <2>. QED
    BY <1>3, <2>1, StartTypes, KeychainTypes, FileTypes DEF CommandStep
<1>. QED
  BY <1>1, <1>2, <1>3 DEF Next

\* Every behaviour stays within the types, and save and delete never write a
\* file of no profiles nor unlink one of some (save 47-53, delete 113-118).
THEOREM TypeCorrect == Spec => []TypeOK
BY InitTypes, StepTypes, PTL DEF Spec

-----------------------------------------------------------------------------
(* Updates of the file stand. *)

LEMMA InitStore == Init => StoreInv
<1>. SUFFICES ASSUME Init PROVE StoreInv
  OBVIOUS
<1>1. UpdatesStand /\ ViewsAreCurrent
  BY DEF Init, UpdatesStand, ViewsAreCurrent
<1>. QED
  BY <1>1, InitTypes DEF StoreInv

\* The steps that do not change the file keep current views current.
LEMMA StepKeepsViews ==
  ASSUME StoreInv, NEW c \in Processes, CommandStep(c), UNCHANGED <<file, written, overlapped>>
  PROVE  ViewsAreCurrent'
<1>. USE DEF StoreInv, TypeOK, ProcessesOK, CopiesOK, ViewsAreCurrent, Changed, Profile
<1>1. CASE StartCommand(c)
  BY <1>1 DEF StartCommand
<1>2. CASE SaveToKeychain(c) \/ LoadFromKeychain(c) \/ FindInKeychain(c) \/ ForgetInKeychain(c)
  BY <1>2 DEF SaveToKeychain, LoadFromKeychain, FindInKeychain, ForgetInKeychain, FileOr, GoTo,
              Answer, historyVars
<1>3. CASE FileExists(c) \/ ReadFile(c)
  <2>1. fresh' \subseteq fresh \cup {c}
    BY <1>3 DEF FileExists, ReadFile
  <2>2. \A d \in Processes \ {c} : pc'[d] = pc[d] /\ values'[d] = values[d]
    BY <1>3 DEF FileExists, ReadFile, GoTo, Answer
  <2>3. file' = file /\ command' = command
    BY <1>3 DEF FileExists, ReadFile
  <2>4. pc'[c] \in {"write", "unlink"} => values'[c] = Changed(c)
    BY <1>3 DEF FileExists, ReadFile, GoTo, Answer
  <2>. QED
    BY <2>1, <2>2, <2>3, <2>4
<1>4. CASE WriteFile(c) \/ UnlinkFile(c) \/ Kill(c)
  BY <1>4 DEF WriteFile, UnlinkFile, Kill, Replaces, Answer, Done, historyVars
<1>. QED
  BY <1>1, <1>2, <1>3, <1>4 DEF CommandStep

\* A change of the file by a process with a current view is the change of
\* one profile.
LEMMA ReplaceKeepsOthers ==
  ASSUME StoreInv, NEW c \in Processes, Replaces(c),
         \/ pc[c] = "write" /\ file' = values[c]
         \/ pc[c] = "unlink" /\ file' = NoFile
  PROVE  UpdatesStand' /\ ViewsAreCurrent'
<1>1. file' = values[c]
  BY DEF StoreInv, TypeOK, WritesOK
<1>2. ASSUME ~overlapped'
      PROVE  file' = written'
  <2>1. ~overlapped /\ c \in fresh
    BY <1>2 DEF Replaces
  <2>2. file = written /\ values[c] = Changed(c)
    BY <2>1 DEF StoreInv, UpdatesStand, ViewsAreCurrent
  <2>. QED
    BY <1>1, <2>2 DEF Changed, Replaces
<1>. QED
  BY <1>2 DEF UpdatesStand, ViewsAreCurrent, Replaces

LEMMA StepStore == StoreInv /\ [Next]_vars => StoreInv'
<1>. SUFFICES ASSUME StoreInv, [Next]_vars PROVE UpdatesStand' /\ ViewsAreCurrent'
  BY StepTypes DEF StoreInv
<1>1. CASE UNCHANGED vars
  BY <1>1 DEF vars, copyVars, processVars, historyVars, StoreInv, UpdatesStand,
              ViewsAreCurrent, Changed, Profile
<1>2. CASE KeychainMoves
  BY <1>2 DEF KeychainMoves, copyVars, processVars, StoreInv, UpdatesStand,
              ViewsAreCurrent, Changed, Profile
<1>3. ASSUME NEW c \in Processes, CommandStep(c)
      PROVE  UpdatesStand' /\ ViewsAreCurrent'
  <2>1. CASE UNCHANGED <<file, written, overlapped>>
    BY <1>3, <2>1, StepKeepsViews DEF StoreInv, UpdatesStand
  <2>2. CASE ~UNCHANGED <<file, written, overlapped>>
    <3>1. WriteFile(c) \/ UnlinkFile(c)
      BY <1>3, <2>2 DEF CommandStep, StartCommand, SaveToKeychain, LoadFromKeychain,
           FindInKeychain, ForgetInKeychain, FileExists, ReadFile, Kill, copyVars, historyVars
    <3>. QED
      BY <2>2, <3>1, ReplaceKeepsOthers DEF WriteFile, UnlinkFile
  <2>. QED
    BY <2>1, <2>2
<1>. QED
  BY <1>1, <1>2, <1>3 DEF Next

\* However many processes save and delete profiles, fail to write or are
\* killed: as long as none replaced a file it had not seen, the file holds
\* the last update of each profile.
THEOREM UpdatesAlwaysStand == Spec => []UpdatesStand
<1>1. StoreInv => UpdatesStand
  BY DEF StoreInv
<1>. QED
  BY <1>1, InitStore, StepStore, PTL DEF Spec

-----------------------------------------------------------------------------
(* Loads find the last update. *)

LEMMA InitLoad == Init => LoadInv
<1>. SUFFICES ASSUME Init PROVE LoadInv
  OBVIOUS
<1>1. KeychainServes /\ FileServes /\ LoadsLatest
  BY DEF Init, KeychainServes, FileServes, LoadsLatest
<1>. QED
  BY <1>1, InitStore DEF LoadInv

\* No command moves the keychain, and commands of other processes go on.
LEMMA CommandStepFrame ==
  ASSUME TypeOK, NEW c \in Processes, CommandStep(c)
  PROVE  /\ moved' = moved /\ available' = available
         /\ \A d \in Processes \ {c} :
              /\ pc'[d] = pc[d] /\ command'[d] = command[d]
              /\ answer'[d] = answer[d] /\ wanted'[d] = wanted[d]
         /\ overlapped => overlapped'
<1>. USE DEF TypeOK, ProcessesOK
<1>1. CASE StartCommand(c)
  BY <1>1 DEF StartCommand
<1>2. CASE SaveToKeychain(c)
  BY <1>2 DEF SaveToKeychain, FileOr, GoTo, Answer
<1>3. CASE LoadFromKeychain(c)
  BY <1>3 DEF LoadFromKeychain, FileOr, GoTo, Answer
<1>4. CASE FindInKeychain(c)
  BY <1>4 DEF FindInKeychain, FileOr, GoTo, Answer, historyVars
<1>5. CASE ForgetInKeychain(c)
  <2>1. UNCHANGED <<moved, available, command, overlapped, wanted>>
    BY <1>5 DEF ForgetInKeychain
  <2>2. \A d \in Processes \ {c} : pc'[d] = pc[d] /\ answer'[d] = answer[d]
    BY <1>5 DEF ForgetInKeychain, FileOr, GoTo, Answer
  <2>. QED
    BY <2>1, <2>2
<1>6. CASE FileExists(c) \/ ReadFile(c)
  <2>1. UNCHANGED <<moved, available, command, overlapped>>
    BY <1>6 DEF FileExists, ReadFile
  <2>2. \A d \in Processes \ {c} : wanted'[d] = wanted[d]
    BY <1>6 DEF FileExists, ReadFile, Looks
  <2>3. \A d \in Processes \ {c} : pc'[d] = pc[d] /\ answer'[d] = answer[d]
    BY <1>6 DEF FileExists, ReadFile, GoTo, Answer
  <2>. QED
    BY <2>1, <2>2, <2>3
<1>7. CASE WriteFile(c) \/ UnlinkFile(c)
  <2>1. UNCHANGED <<moved, available, command, wanted>>
    BY <1>7 DEF WriteFile, UnlinkFile
  <2>2. overlapped => overlapped'
    BY <1>7, Zenon DEF WriteFile, UnlinkFile, Replaces
  <2>3. \A d \in Processes \ {c} : pc'[d] = pc[d] /\ answer'[d] = answer[d]
    BY <1>7 DEF WriteFile, UnlinkFile, Done, Answer
  <2>. QED
    BY <2>1, <2>2, <2>3
<1>8. CASE Kill(c)
  BY <1>8 DEF Kill, Answer, historyVars
<1>. QED
  BY <1>1, <1>2, <1>3, <1>4, <1>5, <1>6, <1>7, <1>8 DEF CommandStep

\* While the keychain answers, every update is an update of the keychain.
LEMMA StepKeychainServes ==
  ASSUME LoadInv, NEW c \in Processes, CommandStep(c)
  PROVE  KeychainServes'
<1>. TypeOK
  BY DEF LoadInv, StoreInv
<1>. SUFFICES ASSUME ~moved, available
              PROVE  /\ keychain' = latest' /\ file' = NoFile
                     /\ pc'[c] \notin {"read", "write", "unlink"}
                     /\ pc'[c] = "exists" =>
                          /\ command'[c].name # "login"
                          /\ command'[c].name = "load" => wanted'[c] = None
  BY CommandStepFrame DEF KeychainServes, LoadInv
<1>1. /\ keychain = latest /\ file = NoFile
      /\ pc[c] \notin {"read", "write", "unlink"}
      /\ pc[c] = "exists" => /\ command[c].name # "login"
                             /\ command[c].name = "load" => wanted[c] = None
  BY DEF LoadInv, KeychainServes
<1>. USE <1>1 DEF TypeOK, ProcessesOK
<1>2. CASE StartCommand(c)
  BY <1>2 DEF StartCommand, copyVars
<1>3. CASE SaveToKeychain(c)
  BY <1>3 DEF SaveToKeychain, Answer, Updates
<1>4. CASE LoadFromKeychain(c)
  BY <1>4 DEF LoadFromKeychain, At, FileOr, GoTo, Answer, copyVars
<1>5. CASE FindInKeychain(c)
  BY <1>5 DEF FindInKeychain, At, FileOr, GoTo, Answer, copyVars, historyVars
<1>6. CASE ForgetInKeychain(c)
  BY <1>6 DEF ForgetInKeychain, At, FileOr, GoTo, Answer, Updates
<1>7. CASE FileExists(c)
  BY <1>7 DEF FileExists, Answer, copyVars
<1>8. CASE Kill(c)
  BY <1>8 DEF Kill, Answer, copyVars, historyVars
<1>. QED
  BY <1>2, <1>3, <1>4, <1>5, <1>6, <1>7, <1>8 DEF CommandStep, ReadFile, WriteFile, UnlinkFile

\* While it does not answer, every update is an update of the file.
LEMMA StepFileServes ==
  ASSUME LoadInv, NEW c \in Processes, CommandStep(c)
  PROVE  FileServes'
<1>. TypeOK
  BY DEF LoadInv, StoreInv
<1>. SUFFICES ASSUME ~moved, ~available
              PROVE  written' = latest' /\ pc'[c] # "forget"
  BY CommandStepFrame DEF FileServes, LoadInv
<1>1. written = latest /\ pc[c] # "forget"
  BY DEF LoadInv, FileServes
<1>. USE <1>1 DEF TypeOK, ProcessesOK
<1>2. CASE StartCommand(c) \/ Kill(c)
  BY <1>2 DEF StartCommand, Kill, Answer, historyVars
<1>3. CASE SaveToKeychain(c) \/ LoadFromKeychain(c) \/ FindInKeychain(c)
  BY <1>3 DEF SaveToKeychain, LoadFromKeychain, FindInKeychain, FileOr, GoTo, Answer, historyVars
<1>4. CASE FileExists(c) \/ ReadFile(c)
  BY <1>4 DEF FileExists, ReadFile, GoTo, Answer
<1>5. CASE WriteFile(c) \/ UnlinkFile(c)
  BY <1>5 DEF WriteFile, UnlinkFile, Replaces, Updates, Done, Answer
<1>. QED
  BY <1>2, <1>3, <1>4, <1>5 DEF CommandStep, ForgetInKeychain, At

\* A load that answers answers with what it was to find.
LEMMA StepLoadsLatest ==
  ASSUME LoadInv, NEW c \in Processes, CommandStep(c)
  PROVE  LoadsLatest'
<1>. TypeOK
  BY DEF LoadInv, StoreInv
<1>. SUFFICES ASSUME pc'[c] = "idle", command'[c].name = "load",
                     answer'[c] \notin {"raised", "killed"},
                     ~moved, ~overlapped, available \/ command'[c].allow
              PROVE  answer'[c] = wanted'[c]
  BY CommandStepFrame DEF LoadsLatest, LoadInv, Profile
<1>. USE DEF TypeOK, ProcessesOK
<1>1. CASE LoadFromKeychain(c)
  <2>1. pc[c] = "keychain"
    BY <1>1 DEF LoadFromKeychain, At
  <2>2. available /\ keychain = latest
    BY <1>1, <2>1 DEF LoadFromKeychain, FileOr, GoTo, LoadInv, KeychainServes
  <2>3. answer'[c] = keychain[Profile(c)] \/ (answer'[c] = None /\ keychain[Profile(c)] = None)
    BY <1>1, <2>1, <2>2 DEF LoadFromKeychain, FileOr, GoTo, Answer
  <2>. QED
    BY <1>1, <2>2, <2>3 DEF LoadFromKeychain
<1>2. CASE FileExists(c) /\ available
  <2>1. file = NoFile /\ wanted[c] = None
    BY <1>2 DEF FileExists, LoadInv, KeychainServes
  <2>2. answer'[c] = None /\ wanted'[c] = wanted[c]
    BY <1>2, <2>1 DEF FileExists, Looks, Answer
  <2>. QED
    BY <2>1, <2>2
<1>3. CASE (FileExists(c) \/ ReadFile(c)) /\ ~available
  <2>1. pc[c] # "idle" /\ Profile(c) \in Profiles
    BY <1>3, CommandFields DEF FileExists, ReadFile, Profile
  <2>2. file = latest
    BY <1>3 DEF LoadInv, FileServes, StoreInv, UpdatesStand
  <2>3. answer'[c] = file[Profile(c)]
    BY <1>3, <2>1 DEF FileExists, ReadFile, GoTo, Answer, NoFile
  <2>4. wanted'[c] = latest[Profile(c)]
    BY <1>3 DEF FileExists, ReadFile, Looks
  <2>. QED
    BY <2>2, <2>3, <2>4
<1>4. CASE ReadFile(c) /\ available
  BY <1>4 DEF ReadFile, LoadInv, KeychainServes
<1>5. CASE WriteFile(c) \/ UnlinkFile(c)
  <2>1. command[c].name # "load"
    BY <1>5 DEF WriteFile, UnlinkFile, WritesOK
  <2>. QED
    BY <1>5, <2>1 DEF WriteFile, UnlinkFile
<1>6. CASE SaveToKeychain(c) \/ FindInKeychain(c) \/ ForgetInKeychain(c)
  BY <1>6 DEF SaveToKeychain, FindInKeychain, ForgetInKeychain, At
<1>7. CASE StartCommand(c) \/ Kill(c)
  BY <1>7 DEF StartCommand, Kill, Answer
<1>. QED
  BY <1>1, <1>2, <1>3, <1>4, <1>5, <1>6, <1>7 DEF CommandStep

LEMMA StepLoad == LoadInv /\ [Next]_vars => LoadInv'
<1>. SUFFICES ASSUME LoadInv, [Next]_vars
              PROVE  KeychainServes' /\ FileServes' /\ LoadsLatest'
  BY StepStore DEF LoadInv
<1>. USE DEF LoadInv
<1>1. CASE UNCHANGED vars
  BY <1>1 DEF vars, copyVars, processVars, historyVars, KeychainServes, FileServes, LoadsLatest
<1>2. CASE KeychainMoves
  BY <1>2 DEF KeychainMoves, KeychainServes, FileServes, LoadsLatest
<1>3. ASSUME NEW c \in Processes, CommandStep(c)
      PROVE  KeychainServes' /\ FileServes' /\ LoadsLatest'
  BY <1>3, StepKeychainServes, StepFileServes, StepLoadsLatest
<1>. QED
  BY <1>1, <1>2, <1>3 DEF Next

\* Any number of commands, in any interleaving: a command finds the last
\* login or logout of its profile, as long as the keychain neither comes nor
\* goes, no two updates of the file overlap, and it may look there.
THEOREM LoadsAlwaysLatest == Spec => []LoadsLatest
<1>1. LoadInv => LoadsLatest
  BY DEF LoadInv
<1>. QED
  BY <1>1, InitLoad, StepLoad, PTL DEF Spec

=============================================================================
