----------------------------- MODULE Credentials ----------------------------
(***************************************************************************)
(* Where the credentials of a connection come from and what becomes of     *)
(* them: main (src/src/main.rs) from its arguments to the task that saves  *)
(* the password.  Module Lifecycle has the rest of main; here a session is *)
(* accepted by the server or is not, and the process may end at any time.  *)
(*                                                                         *)
(* A process reads, one after another, the storage of OpenVPN Connect, the *)
(* environment, two keychains and the terminal.  Meanwhile Connect changes *)
(* its storage, the server its passwords, and other processes the same     *)
(* keychain entries.  The keychains and the server are external.           *)
(*                                                                         *)
(* Zero stands for an option that is not given, as in module Profiles.     *)
(* Private key passwords and challenges, kept nowhere, are left out.       *)
(***************************************************************************)
EXTENDS Profiles

CONSTANTS
    Processes,     \* terminals and services that run the program, time and again
    Invocations,   \* arguments and environment of a process
    Storages,      \* what Connect's directory, config.json and keychain may hold
    Directories, Files,  \* what else AllResolvable is about
    Users,
    Typed,         \* bound: passwords users type
    MaxRotations   \* bound: passwords the server changes

\* The password of each user at first, and the one it is changed to.
First(user) == user
Changed(user) == user + Max(Users)
Passwords == { First(u) : u \in Users } \cup { Changed(u) : u \in Users }

ASSUME CredentialsAssumption ==
    /\ Users \subseteq Nat \ {0} /\ IsFiniteSet(Users) /\ Typed \subseteq Passwords
    /\ MaxRotations \in Nat
    /\ \A args \in Invocations :
         /\ {args.connect, args.auth_file, args.save_password, args.non_interactive,
             args.check} \subseteq BOOLEAN
         /\ args.username \in Users \cup {0} /\ args.environment \in Passwords \cup {0}
         /\ args.auth_file => ~args.save_password      \* clap: conflicts_with
    /\ \A st \in Storages :
         /\ IsDirectory(st.entries) /\ WellFormed(st.file)
         /\ \A id \in DOMAIN st.passwords : st.passwords[id] \in Passwords
    /\ \A entries \in Directories : IsDirectory(entries)
    /\ \A file \in Files : WellFormed(file)

VARIABLES
    run,           \* what each process has got so far
    storage,       \* of OpenVPN Connect
    keychain,      \* OvpnLane's own entries: the password of each account
    server,        \* the password the server accepts of each user
    rotations,     \* passwords it has changed
    accepted       \* history: <<account, password>> the server let in

world == <<storage, server, rotations>>
vars == <<run, world, keychain, accepted>>

NoArguments == [connect |-> FALSE, selector |-> 0, username |-> 0, environment |-> 0,
                auth_file |-> FALSE, save_password |-> FALSE, non_interactive |-> FALSE,
                check |-> FALSE]
Run(step, args) == [step |-> step, args |-> args, profile |-> NoProfile, user |-> 0,
                    password |-> 0, source |-> "none", save |-> FALSE, saved |-> "no"]

Init ==
    /\ run = [p \in Processes |-> Run("done", NoArguments)]
    /\ storage \in Storages
    /\ server = [u \in Users |-> First(u)] /\ rotations = 0
    /\ keychain = <<>>
    /\ accepted = {}

-----------------------------------------------------------------------------
(* The world around the processes. *)

\* Connect edits or removes profiles, saves or forgets a password.
ConnectChanges ==
    /\ storage' \in Storages
    /\ UNCHANGED <<run, keychain, server, rotations, accepted>>

Rotate(u) ==
    /\ rotations < MaxRotations
    /\ rotations' = rotations + 1
    /\ server' = [server EXCEPT ![u] = Changed(u)]
    /\ UNCHANGED <<run, keychain, storage, accepted>>

-----------------------------------------------------------------------------
(* main, up to the session. *)

At(p, step) == run[p].step = step /\ UNCHANGED world
Becomes(p, next) == run' = [run EXCEPT ![p] = next]
GoesTo(p, next) == run' = [run EXCEPT ![p].step = next]

Launch(p) ==
    /\ run[p].step \in {"done", "killed"}
    /\ \E args \in Invocations : Becomes(p, Run("choose", args))
    /\ UNCHANGED world
    /\ UNCHANGED <<keychain, accepted>>

\* The path of --config, or a profile of Connect (discover, choose), whose user
\* name is used unless one is given.
ChooseProfile(p) ==
    /\ At(p, "choose")
    /\ LET args == run[p].args
           profiles == Discover(storage.entries, storage.file)
       IN \/ /\ ~args.connect
             /\ Becomes(p, [run[p] EXCEPT !.step = "evaluate", !.user = args.username,
                                           !.profile = FileProfile(args.selector)])
          \/ /\ args.connect
             /\ \E terminal \in BOOLEAN, typed \in 0 .. Len(profiles) :
                  LET chosen == Choose(profiles, args.selector, args.non_interactive,
                                       terminal, typed)
                  IN IF chosen = NoProfile THEN GoesTo(p, "done")
                     ELSE Becomes(p, [run[p] EXCEPT !.step = "evaluate", !.profile = chosen,
                            !.user = FirstOf(<<args.username, chosen.username>>, 0)])
    /\ UNCHANGED <<keychain, accepted>>

\* Plausible bug: credentials are looked up before --check ends the run.
EvaluateUnchecked(p) ==
    /\ At(p, "evaluate")
    /\ \/ GoesTo(p, "done") \/ GoesTo(p, "user")
    /\ UNCHANGED <<keychain, accepted>>

\* --check, and profiles that cannot be used, end here.  An autologin profile
\* needs no credentials; --auth-file names them both.
Evaluate(p) ==
    /\ At(p, "evaluate")
    /\ \/ GoesTo(p, "done")
       \/ /\ ~run[p].args.check
          /\ \/ Becomes(p, [run[p] EXCEPT !.step = "connecting", !.user = 0])
             \/ ~run[p].args.auth_file /\ GoesTo(p, "user")
             \/ /\ run[p].args.auth_file
                /\ \E u \in Users, password \in Passwords :
                     Becomes(p, [run[p] EXCEPT !.step = "connecting", !.user = u,
                                               !.password = password, !.source = "auth_file"])
    /\ UNCHANGED <<keychain, accepted>>

\* What takes input from the terminal fails with --non-interactive.
Ask(p, next) == GoesTo(p, IF run[p].args.non_interactive THEN "done" ELSE next)

\* Else the name that the profile has locked, if it has one, or the user's input.
ChooseUser(p) ==
    /\ At(p, "user")
    /\ \/ run[p].user # 0 /\ GoesTo(p, "password")
       \/ /\ run[p].user = 0
          /\ \/ \E u \in Users : Becomes(p, [run[p] EXCEPT !.step = "password", !.user = u])
             \/ Ask(p, "typing_user")
    /\ UNCHANGED <<keychain, accepted>>

TypeUser(p) ==
    /\ At(p, "typing_user")
    /\ \E u \in Users : Becomes(p, [run[p] EXCEPT !.step = "password", !.user = u])
    /\ UNCHANGED <<keychain, accepted>>

-----------------------------------------------------------------------------
(* resolve_vpn_password: each source is tried only if those before it failed. *)

\* keychain_account: the path of the profile and the user name.
Account(p) == <<run[p].profile.id, run[p].user>>

\* Plausible bug: only a password that was typed is saved.
UseIfTyped(p, password, source) ==
    Becomes(p, [run[p] EXCEPT !.step = "connecting", !.password = password, !.source = source,
                              !.save = run[p].args.save_password /\ source = "prompt"])

\* Plausible bug: a password is saved whether or not --save-password was given.
UseAndSave(p, password, source) ==
    Becomes(p, [run[p] EXCEPT !.step = "connecting", !.password = password, !.source = source,
                              !.save = TRUE])

\* A password of our own keychain is not saved there again.
Use(p, password, source) ==
    Becomes(p, [run[p] EXCEPT !.step = "connecting", !.password = password, !.source = source,
                              !.save = run[p].args.save_password /\ source # "own"])

ReadEnvironment(p) ==
    /\ At(p, "password")
    /\ LET password == run[p].args.environment
       IN IF password = 0 THEN GoesTo(p, "own") ELSE Use(p, password, "environment")
    /\ UNCHANGED <<keychain, accepted>>

\* An entry that is missing and one that cannot be read are passed over.
ReadOwn(p) ==
    /\ At(p, "own")
    /\ \/ Account(p) \in DOMAIN keychain /\ Use(p, keychain[Account(p)], "own")
       \/ GoesTo(p, "connect")
    /\ UNCHANGED <<keychain, accepted>>

\* Plausible bug: the password saved for another user name will do.
HasPasswordForAnyUser(profile, user) == profile.saved_password

\* Profile::password_account, with what discovery found.
HasPassword(profile, user) == profile.saved_password /\ profile.username = user /\ user # 0

\* password::read: Connect's entry of that profile, as it is by now.
Saved(id) == { storage.passwords[i] : i \in {id} \cap DOMAIN storage.passwords }

\* Profile::saved_password; what is missing, denied or cannot be decoded is asked for.
ReadConnect(p) ==
    /\ At(p, "connect")
    /\ \/ /\ HasPassword(run[p].profile, run[p].user)
          /\ \E password \in Saved(run[p].profile.id) : Use(p, password, "connect")
       \/ Ask(p, "typing_password")
    /\ UNCHANGED <<keychain, accepted>>

TypePassword(p) ==
    /\ At(p, "typing_password")
    /\ \E password \in Typed : Use(p, password, "prompt")
    /\ UNCHANGED <<keychain, accepted>>

-----------------------------------------------------------------------------
(* The session, and the task that saves the password. *)

\* The server lets the user in: CONNECTED.  Of autologin it knows no password.
LetIn(p) ==
    /\ At(p, "connecting")
    /\ \/ run[p].source = "none" /\ UNCHANGED accepted
       \/ /\ run[p].source # "none" /\ server[run[p].user] = run[p].password
          /\ accepted' = accepted \cup {<<Account(p), run[p].password>>}
    /\ GoesTo(p, "up")
    /\ UNCHANGED keychain

\* Plausible bug: the password is saved as soon as it has been sent.
MaySaveEarly(p) == run[p].step \in {"connecting", "up"} /\ run[p].save /\ run[p].saved = "no"

MaySave(p) == run[p].step = "up" /\ run[p].save /\ run[p].saved = "no"

\* set_password, after wait_connected; the keychain may refuse it.
SavePassword(p) ==
    /\ MaySave(p)
    /\ \/ /\ keychain' = [account \in DOMAIN keychain \cup {Account(p)} |->
                            IF account = Account(p) THEN run[p].password ELSE keychain[account]]
          /\ run' = [run EXCEPT ![p].saved = "yes"]
       \/ /\ run' = [run EXCEPT ![p].saved = "refused"]
          /\ UNCHANGED keychain
    /\ UNCHANGED <<world, accepted>>

\* The session ends: AUTH_FAILED and other failures, or the user; a save that may
\* take place is waited for.
Leave(p) ==
    /\ run[p].step \in {"connecting", "up"} /\ ~MaySave(p)
    /\ GoesTo(p, "done")
    /\ UNCHANGED <<world, keychain, accepted>>

\* The process is killed, or the user interrupts what is not yet a session.
Kill(p) ==
    /\ run[p].step \notin {"done", "killed"}
    /\ GoesTo(p, "killed")
    /\ UNCHANGED <<world, keychain, accepted>>

-----------------------------------------------------------------------------
Unattended(p) ==
    \/ ChooseProfile(p) \/ Evaluate(p) \/ ChooseUser(p)
    \/ ReadEnvironment(p) \/ ReadOwn(p) \/ ReadConnect(p)
Attended(p) == TypeUser(p) \/ TypePassword(p)
Session(p) == LetIn(p) \/ SavePassword(p) \/ Leave(p)

Next ==
    \/ ConnectChanges \/ \E u \in Users : Rotate(u)
    \/ \E p \in Processes : Launch(p) \/ Unattended(p) \/ Attended(p) \/ Session(p) \/ Kill(p)

(* The runtime runs the save task. *)
Fairness == \A p \in Processes : WF_vars(SavePassword(p))

Spec == Init /\ [][Next]_vars
FairSpec == Spec /\ Fairness

-----------------------------------------------------------------------------
(* Properties. *)

Steps == {"choose", "evaluate", "user", "typing_user", "password", "own", "connect",
          "typing_password", "connecting", "up", "done", "killed"}
Sources == {"none", "auth_file", "environment", "own", "connect", "prompt"}

TypeOK ==
    /\ \A p \in Processes :
         /\ run[p].step \in Steps /\ run[p].source \in Sources
         /\ run[p].password \in Passwords \cup {0}
         /\ run[p].save \in BOOLEAN /\ run[p].saved \in {"no", "yes", "refused"}
         /\ run[p].args \in Invocations \cup {NoArguments}
    /\ storage \in Storages
    /\ server \in [Users -> Passwords] /\ rotations \in 0 .. MaxRotations
    /\ \A account \in DOMAIN keychain : keychain[account] \in Passwords

\* "It is saved only after the VPN reports a successful connection; an AUTH_FAILED
\* or any failure before connection never stores it" (README.md:326): an entry is
\* a password the server let in for that profile and that user, whatever other
\* processes, changed passwords and kills come between.
SavedWereAccepted ==
    \A account \in DOMAIN keychain : <<account, keychain[account]>> \in accepted

\* Each profile is listed once, in the order of the list, with its own record, and
\* can be selected, by its identifier if not by its name, whatever the directory and
\* config.json hold.  They are the same in every state and looked at in the first.
AllResolvable ==
    Init => \A entries \in Directories, file \in Files :
              ListedOnce(entries, file) /\ Resolvable(Discover(entries, file))

\* "Explicit credentials never trigger a Connect Keychain access" (main.rs:341),
\* --auth-file consults no other source, --check none at all (README.md:204-214):
\* no run that opens a keychain has them, and one uses Connect's entry only for a
\* profile and a user name that discovery found it saved for.  Whose password the
\* entry holds by then is for OnlyForItsUser.
NoNeedlessAccess ==
    \A p \in Processes :
      /\ run[p].step \in {"own", "connect"} \/ run[p].source \in {"own", "connect"} =>
           run[p].args.environment = 0 /\ ~run[p].args.auth_file /\ ~run[p].args.check
      /\ run[p].source = "connect" =>
           run[p].profile.saved_password /\ run[p].profile.username = run[p].user

\* "Never reuse a saved password for an explicitly different user" (connect.rs:26):
\* what Connect's entry holds is sent for --username only if it is that user's.
OnlyForItsUser ==
    \A p \in Processes :
      run[p].source = "connect" /\ run[p].args.username # 0 =>
        run[p].password \in {First(run[p].user), Changed(run[p].user)}

\* The saved passwords change only by a run that was asked to save what it used,
\* and only its own entry.
SavedOnRequestOnly ==
    [][\A account \in DOMAIN keychain' :
         account \notin DOMAIN keychain \/ keychain'[account] # keychain[account] =>
           \E p \in Processes :
             /\ run[p].args.save_password /\ run[p].source \notin {"own", "auth_file"}
             /\ account = <<run[p].profile.id, run[p].user>>]_vars

\* "Set OVPN_PASS together with --save-password to replace a saved password after
\* successful authentication" (README.md:329): a run that was let in so does it,
\* unless the keychain refuses or the process is killed.  It is the way out for a
\* saved password that the server has changed, which is used again and again.
ReplacedEventually ==
    \A p \in Processes :
      run[p].step = "up" /\ run[p].source = "environment" /\ run[p].args.save_password
        ~> \/ Account(p) \in DOMAIN keychain /\ keychain[Account(p)] = run[p].password
           \/ run[p].saved = "refused" \/ run[p].step = "killed"
=============================================================================
