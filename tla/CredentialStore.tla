--------------------------- MODULE CredentialStore --------------------------
(***************************************************************************)
(* CredentialStore of cli/src/geyser_cli/credentials.py, as the commands   *)
(* of the CLI use it: login saves, logout deletes, every other command     *)
(* loads.  Each command is a process of its own; they share the keychain   *)
(* and one file of profiles, which they read, change and replace without   *)
(* a lock.  The keychain comes and goes; a process can be killed anywhere. *)
(*                                                                         *)
(* A profile maps to the token saved for it, or to None.  _write_file is   *)
(* only called with at least one profile, so the file with none is the     *)
(* file that is not there.                                                 *)
(***************************************************************************)
EXTENDS Naturals

CONSTANTS
  None,
  Processes,   \* where commands run, one at a time each
  Profiles,
  Tokens,
  MaxCommands  \* bound on the commands started

ASSUME MaxCommandsAssumption == MaxCommands \in Nat

VARIABLES
  keychain,    \* [Profiles -> a token or None]
  available,   \* the keychain answers; otherwise each call raises KeyringError
  file,        \* credentials.json
  pc,          \* where each process is
  command,     \* the command it runs, or ran last
  values,      \* the profiles it read from the file, with its own change
  removed,     \* the variable of delete
  answer,      \* how the command ended
  commands,    \* how many were started
  latest,      \* history: the last update of each profile, in either copy
  written,     \* history: the last update of each profile in the file
  fresh,       \* history: processes whose view of the file is still current
  overlapped,  \* history: a process wrote over a file it had not seen
  moved,       \* history: the keychain came or went
  wanted       \* history: the latest update when a load looked

copyVars    == <<keychain, file>>
processVars == <<pc, command, values, removed, answer, commands>>
historyVars == <<latest, written, fresh, overlapped, moved, wanted>>
vars == <<copyVars, available, processVars, historyVars>>

NoFile == [p \in Profiles |-> None]

Commands ==
       [name: {"login"}, profile: Profiles, allow: BOOLEAN, token: Tokens]
  \cup [name: {"logout", "load"}, profile: Profiles, allow: BOOLEAN, token: {None}]

\* None is no token and no command.
ASSUME NoneAssumption == None \notin Tokens /\ None \notin Commands

-----------------------------------------------------------------------------
Init ==
  /\ keychain = NoFile /\ available \in BOOLEAN /\ file = NoFile
  /\ pc = [c \in Processes |-> "idle"]
  /\ command = [c \in Processes |-> None]
  /\ values = [c \in Processes |-> NoFile]
  /\ removed = [c \in Processes |-> FALSE]
  /\ answer = [c \in Processes |-> None]
  /\ commands = 0
  /\ latest = NoFile /\ written = NoFile
  /\ fresh = {} /\ overlapped = FALSE /\ moved = FALSE
  /\ wanted = [c \in Processes |-> None]

At(c, where, name) == pc[c] = where /\ command[c].name = name
Profile(c) == command[c].profile

GoTo(c, where) == pc' = [pc EXCEPT ![c] = where] /\ UNCHANGED answer

Answer(c, what) ==
  /\ pc' = [pc EXCEPT ![c] = "idle"]
  /\ answer' = [answer EXCEPT ![c] = what]

\* What delete returns.
Removed(flag) == IF flag THEN "removed" ELSE "absent"

StartCommand(c) ==
  /\ pc[c] = "idle" /\ commands < MaxCommands
  /\ \E it \in Commands : command' = [command EXCEPT ![c] = it]
  /\ commands' = commands + 1
  /\ removed' = [removed EXCEPT ![c] = FALSE]
  /\ values' = [values EXCEPT ![c] = NoFile]
  /\ answer' = [answer EXCEPT ![c] = None]
  /\ wanted' = [wanted EXCEPT ![c] = None]
  /\ fresh' = fresh \ {c}
  /\ pc' = [pc EXCEPT ![c] = "keychain"]
  /\ UNCHANGED <<copyVars, available, latest, written, overlapped, moved>>

\* History of an update of one copy of the command's profile.
Updates(c, value) == latest' = [latest EXCEPT ![Profile(c)] = value]

\* The file is looked at only when the command allows it.
FileOr(c, what) == IF command[c].allow THEN GoTo(c, "exists") ELSE Answer(c, what)

\* Mutant: a command that opted in saves to the file, keychain or not.
SaveWhereAllowed(c) ==
  /\ At(c, "keychain", "login")
  /\ \/ /\ available /\ ~command[c].allow
        /\ keychain' = [keychain EXCEPT ![Profile(c)] = command[c].token]
        /\ Updates(c, command[c].token)
        /\ Answer(c, "os-keychain")
     \/ /\ ~available \/ command[c].allow
        /\ FileOr(c, "raised") /\ UNCHANGED <<keychain, latest>>
  /\ UNCHANGED <<available, file, command, values, removed, commands, written, fresh,
                 overlapped, moved, wanted>>

\* save: the keychain takes the credential, or the command must have opted
\* in to the file.
SaveToKeychain(c) ==
  /\ At(c, "keychain", "login")
  /\ \/ /\ available
        /\ keychain' = [keychain EXCEPT ![Profile(c)] = command[c].token]
        /\ Updates(c, command[c].token)
        /\ Answer(c, "os-keychain")
     \/ ~available /\ FileOr(c, "raised") /\ UNCHANGED <<keychain, latest>>
  /\ UNCHANGED <<available, file, command, values, removed, commands, written, fresh,
                 overlapped, moved, wanted>>

\* load: the copy of the keychain comes first; an unavailable keychain is
\* taken for one without the profile.
LoadFromKeychain(c) ==
  /\ At(c, "keychain", "load")
  /\ wanted' = [wanted EXCEPT ![c] = latest[Profile(c)]]
  /\ IF available /\ keychain[Profile(c)] # None
     THEN Answer(c, keychain[Profile(c)])
     ELSE FileOr(c, None)
  /\ UNCHANGED <<copyVars, available, command, values, removed, commands, latest, written,
                 fresh, overlapped, moved>>

\* delete: get_password, and delete_password only if there is one.
FindInKeychain(c) ==
  /\ At(c, "keychain", "logout")
  /\ IF available /\ keychain[Profile(c)] # None
     THEN GoTo(c, "forget")
     ELSE FileOr(c, Removed(FALSE))
  /\ UNCHANGED <<copyVars, available, command, values, removed, commands, historyVars>>

\* An error of delete_password is passed over, like one of get_password.
ForgetInKeychain(c) ==
  /\ At(c, "forget", "logout")
  /\ LET there == available /\ keychain[Profile(c)] # None
     IN /\ removed' = [removed EXCEPT ![c] = there]
        /\ \/ /\ there
              /\ keychain' = [keychain EXCEPT ![Profile(c)] = None]
              /\ Updates(c, None)
           \/ ~there /\ UNCHANGED <<keychain, latest>>
        /\ FileOr(c, Removed(there))
  /\ UNCHANGED <<available, file, command, values, commands, written, fresh, overlapped,
                 moved, wanted>>

\* Mutant: save writes its own profile alone.
ChangedAlone(c) == [NoFile EXCEPT ![Profile(c)] = command[c].token]

\* The map save and delete write back: the one read, with one change.
Changed(c) == [file EXCEPT ![Profile(c)] = command[c].token]

\* delete: `if values`, after its pop.
AnyLeft(c) == Changed(c) # NoFile

\* History: a keychain that answers has the latest update of the profile, so
\* the look at the file counts only without it.
Looks(c) ==
  wanted' = IF available THEN wanted ELSE [wanted EXCEPT ![c] = latest[Profile(c)]]

\* path.exists(): save goes on with an empty map, load and delete are done.
FileExists(c) ==
  /\ pc[c] = "exists"
  /\ Looks(c)
  /\ \/ file # NoFile /\ GoTo(c, "read") /\ UNCHANGED <<values, fresh>>
     \/ /\ file = NoFile
        /\ fresh' = fresh \cup {c}
        /\ CASE command[c].name = "login" ->
                  /\ values' = [values EXCEPT ![c] = Changed(c)]
                  /\ GoTo(c, "write")
             [] command[c].name = "load" -> Answer(c, None) /\ UNCHANGED values
             [] OTHER -> Answer(c, Removed(removed[c])) /\ UNCHANGED values
  /\ UNCHANGED <<copyVars, available, command, removed, commands, latest, written, overlapped,
                 moved>>

\* _read_file; the file may be gone since path.exists().
ReadFile(c) ==
  /\ pc[c] = "read"
  /\ Looks(c)
  /\ \/ file = NoFile /\ Answer(c, "raised") /\ UNCHANGED <<values, removed, fresh>>
     \/ /\ file # NoFile /\ command[c].name = "load"
        /\ Answer(c, file[Profile(c)])
        /\ UNCHANGED <<values, removed, fresh>>
     \/ /\ file # NoFile /\ command[c].name # "load"
        /\ fresh' = fresh \cup {c}
        /\ values' = [values EXCEPT ![c] = Changed(c)]
        /\ removed' = [removed EXCEPT ![c] =
                          command[c].name = "logout" /\ (@ \/ file[Profile(c)] # None)]
        /\ GoTo(c, IF AnyLeft(c) THEN "write" ELSE "unlink")
  /\ UNCHANGED <<copyVars, available, command, commands, latest, written, overlapped, moved>>

\* How save and delete end.
Done(c) == Answer(c, IF command[c].name = "login" THEN "restricted-file"
                                                  ELSE Removed(removed[c]))

\* History of a change of the file.
Replaces(c) ==
  /\ written' = [written EXCEPT ![Profile(c)] = command[c].token]
  /\ Updates(c, command[c].token)
  /\ overlapped' = (overlapped \/ c \notin fresh)
  /\ fresh' = {}

\* _write_file: os.replace puts the new file in place of the old one; a
\* temporary file that cannot be written leaves the old one.
WriteFile(c) ==
  /\ pc[c] = "write"
  /\ \/ file' = values[c] /\ Replaces(c) /\ Done(c)
     \/ Answer(c, "raised") /\ UNCHANGED <<file, latest, written, fresh, overlapped>>
  /\ UNCHANGED <<keychain, available, command, values, removed, commands, moved, wanted>>

\* delete of the last profile: path.unlink(), of whatever is there by now.
UnlinkFile(c) ==
  /\ pc[c] = "unlink"
  /\ \/ file # NoFile /\ file' = NoFile /\ Replaces(c) /\ Done(c)
     \/ /\ file = NoFile /\ Answer(c, "raised")
        /\ UNCHANGED <<file, latest, written, fresh, overlapped>>
  /\ UNCHANGED <<keychain, available, command, values, removed, commands, moved, wanted>>

-----------------------------------------------------------------------------
\* The keychain is locked, unlocked, or its service starts or stops.
KeychainMoves ==
  /\ available' = ~available
  /\ moved' = TRUE
  /\ UNCHANGED <<copyVars, processVars, latest, written, fresh, overlapped, wanted>>

\* The process is killed: no step of it is half done, and it answers nothing.
Kill(c) ==
  /\ pc[c] # "idle"
  /\ Answer(c, "killed")
  /\ UNCHANGED <<copyVars, available, command, values, removed, commands, historyVars>>

CommandStep(c) ==
  \/ StartCommand(c)
  \/ SaveToKeychain(c) \/ LoadFromKeychain(c)
  \/ FindInKeychain(c) \/ ForgetInKeychain(c)
  \/ FileExists(c) \/ ReadFile(c) \/ WriteFile(c) \/ UnlinkFile(c)
  \/ Kill(c)

Next == (\E c \in Processes : CommandStep(c)) \/ KeychainMoves

Spec == Init /\ [][Next]_vars

-----------------------------------------------------------------------------
Stored == Tokens \cup {None}
Answers == Stored \cup {"os-keychain", "restricted-file", "removed", "absent", "raised",
                       "killed"}

CopiesOK ==
  /\ keychain \in [Profiles -> Stored] /\ file \in [Profiles -> Stored]
  /\ latest \in [Profiles -> Stored] /\ written \in [Profiles -> Stored]
  /\ values \in [Processes -> [Profiles -> Stored]]

FlagsOK ==
  /\ available \in BOOLEAN /\ overlapped \in BOOLEAN /\ moved \in BOOLEAN
  /\ removed \in [Processes -> BOOLEAN]

ProcessesOK ==
  /\ pc \in [Processes -> {"idle", "keychain", "forget", "exists", "read", "write", "unlink"}]
  /\ command \in [Processes -> Commands \cup {None}]
  /\ answer \in [Processes -> Answers]
  /\ wanted \in [Processes -> Stored]
  /\ commands \in 0..MaxCommands /\ fresh \subseteq Processes

\* A command that runs is known, and what write and unlink find is as said.
WritesOK ==
  \A c \in Processes :
    /\ pc[c] # "idle" => command[c] # None
    /\ pc[c] \in {"write", "unlink"} => command[c].name # "load"
    /\ pc[c] = "write" => values[c] # NoFile
    /\ pc[c] = "unlink" => values[c] = NoFile

\* The types, and what _write_file and unlink are called with: delete must
\* look at what its pop left, since a file of no profiles is never written
\* (it would be found by path.exists() for ever).
TypeOK == CopiesOK /\ FlagsOK /\ ProcessesOK /\ WritesOK

\* The processes share one file without a lock, and each update rewrites the
\* credentials of every profile.  As long as no process replaced or removed
\* a file it had not seen, the file holds for each profile what the last
\* update of that profile left there: a save or delete of one profile, a
\* failed write and a process killed anywhere never touch another profile.
UpdatesStand == ~overlapped => file = written

\* A command finds what the last login or logout of its profile left, as
\* long as no two updates of the file overlapped, the keychain neither came
\* nor went, and the command may look where the login was saved.  (When the
\* keychain comes back, its older copy is preferred to a newer one in the
\* file.)
LoadsLatest ==
  \A c \in Processes :
    /\ pc[c] = "idle" /\ command[c] # None
    /\ command[c].name = "load" /\ answer[c] \notin {"raised", "killed"}
    /\ ~moved /\ ~overlapped /\ (available \/ command[c].allow)
    => answer[c] = wanted[c]

\* docs/cli.md:11 says of logout: "Remove the local profile".  A logout that
\* answered "removed" would then leave no copy of it.  The code passes over
\* a keychain that does not answer, and does not look at the file without
\* the option: it answers "removed" for one copy while the other stays.
LogoutRemoves ==
  \A c \in Processes :
    /\ pc[c] = "idle" /\ command[c] # None
    /\ command[c].name = "logout" /\ answer[c] = "removed"
    => keychain[Profile(c)] = None /\ file[Profile(c)] = None

=============================================================================
