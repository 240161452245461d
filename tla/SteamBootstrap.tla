--------------------------- MODULE SteamBootstrap ---------------------------
(***************************************************************************)
(* x86-arm-steam up to its exec of the runtime: any number of shells that  *)
(* unpack the bootstrap into a staging directory and rename it, under a     *)
(* flock.  What a shell runs (cp, chmod, mv) outlives it when it is killed  *)
(* alone, and keeps the lock with the descriptor it inherited; bash runs    *)
(* its EXIT trap on SIGTERM at once, next to a command that still runs.     *)
(* A directory is named after the shell that made it.                      *)
(***************************************************************************)
EXTENDS Naturals, FiniteSets

CONSTANTS
    Shells,
    Files,        \* what the bootstrap consists of
    Program,      \* bin_steam.sh
    Environments, \* sets of the things in AllFaults that may happen together
    NoShell

AllFaults == {"kill",   \* SIGKILL to a shell, not to what it runs
              "term",   \* SIGTERM to a shell, not to what it runs
              "full",   \* cp, chmod or mv fails
              "crash",  \* every process ends, as with the user's session
              "power"}  \* the machine fails, and forgets what it has not written to disk

ASSUME ProgramAssumption == Program \in Files
ASSUME EnvironmentsAssumption == Environments \subseteq SUBSET AllFaults
ASSUME NoShellAssumption == NoShell \notin Shells

VARIABLES
    pc,       \* where each shell is
    child,    \* what it runs, or left running
    left,     \* the files its cp has yet to write
    cleaner,  \* the rm of its trap
    listed,   \* the files that rm has yet to remove
    lock,     \* whose descriptors hold bootstrap.lock
    place,    \* where each shell's directory is
    content,  \* the names of the files in it
    version,  \* the shell whose directory is $data/@version@
    raced,    \* the directories that were renamed under a running rm
    diskPlace,   \* where each directory is on the disk itself
    diskContent, \* the files that are written there
    cut,      \* the directories with files that a failure of the machine may have emptied
    archive,  \* the bootstrap archive of an older launcher
    faults

vars == <<pc, child, left, cleaner, listed, lock, place, content, version, raced,
          diskPlace, diskContent, cut, archive, faults>>
cleanVars == <<cleaner, listed>>
powerVars == <<diskPlace, diskContent, cut>>
dirVars == <<place, content, version, raced, diskPlace, diskContent, cut, archive>>

Trapped == {"copy", "chmod", "move", "untrap"}
Locked == {"test", "mktemp", "trap", "unlock", "cleaning"} \cup Trapped
Ended == {"running", "failed", "killed"}
Runs == [copy |-> "cp", chmod |-> "chmod", move |-> "mv"]
Places == {"none", "staging", "version", "nested"}

TypeOK ==
    /\ pc \in [Shells -> {"start", "lock", "repair"} \cup Locked \cup Ended]
    /\ child \in [Shells -> {"none", "cp", "chmod", "mv"}]
    /\ left \in [Shells -> SUBSET Files]
    /\ cleaner \in [Shells -> {"none", "begun", "open"}]
    /\ listed \in [Shells -> SUBSET Files]
    /\ lock \in Shells \cup {NoShell}
    /\ place \in [Shells -> Places]
    /\ content \in [Shells -> SUBSET Files]
    /\ version \in Shells \cup {NoShell}
    /\ raced \subseteq Shells
    /\ diskPlace \in [Shells -> Places]
    /\ diskContent \in [Shells -> SUBSET Files]
    /\ cut \subseteq Shells
    /\ archive \in {"absent", "link", "foreign", "readonly", "writable"}
    /\ faults \in Environments

Init ==
    /\ pc = [l \in Shells |-> "start"]
    /\ child = [l \in Shells |-> "none"]
    /\ left = [l \in Shells |-> {}]
    /\ cleaner = [l \in Shells |-> "none"]
    /\ listed = [l \in Shells |-> {}]
    /\ lock = NoShell
    /\ place = [l \in Shells |-> "none"]
    /\ content = [l \in Shells |-> {}]
    /\ version = NoShell
    /\ raced = {}
    /\ diskPlace = place
    /\ diskContent = content
    /\ cut = {}
    /\ archive \in {"absent", "readonly"}
    /\ faults \in Environments

Move(l, from, to) ==
    /\ pc[l] = from
    /\ pc' = [pc EXCEPT ![l] = to]

\* Mutant: descriptor 9 is closed in the commands the shell runs.
Open9_ShellOnly(l) == pc'[l] \in Locked

\* Does a process have shell l's descriptor 9 open, after this step?
Open9(l) == pc'[l] \in Locked \/ child'[l] # "none" \/ cleaner'[l] # "none"

\* The lock goes with the last descriptor.
Descriptors == lock' = IF lock # NoShell /\ Open9(lock) THEN lock ELSE NoShell

---------------------------------------------------------------------------
(* The script.                                                             *)

Open(l) ==
    /\ Move(l, "start", "lock")
    /\ UNCHANGED <<child, left, cleanVars, lock, dirVars, faults>>

\* Mutant: no flock.
Flock_Shared(l) ==
    /\ Move(l, "lock", "test")
    /\ lock' = l
    /\ UNCHANGED <<child, left, cleanVars, dirVars, faults>>

Flock(l) ==
    /\ lock = NoShell
    /\ Move(l, "lock", "test")
    /\ lock' = l
    /\ UNCHANGED <<child, left, cleanVars, dirVars, faults>>

Test(l) ==
    /\ Move(l, "test", IF version # NoShell /\ Program \in content[version]
                       THEN "unlock" ELSE "mktemp")
    /\ UNCHANGED <<child, left, cleanVars, lock, dirVars, faults>>

\* mktemp may fail, before there is a trap.
MakeStaging(l) ==
    \/ /\ Move(l, "mktemp", "trap")
       /\ place' = [place EXCEPT ![l] = "staging"]
       /\ UNCHANGED <<child, left, cleanVars, lock, content, version, raced, powerVars, archive,
                      faults>>
    \/ /\ "full" \in faults
       /\ Move(l, "mktemp", "failed")
       /\ UNCHANGED <<child, left, cleanVars, dirVars, faults>>
       /\ Descriptors

SetTrap(l) ==
    /\ Move(l, "trap", "copy")
    /\ UNCHANGED <<child, left, cleanVars, lock, dirVars, faults>>

\* Mutant: cp writes where the program is looked for.
Run_InPlace(l) ==
    /\ pc[l] \in DOMAIN Runs
    /\ child[l] = "none"
    /\ child' = [child EXCEPT ![l] = Runs[pc[l]]]
    /\ left' = [left EXCEPT ![l] = IF pc[l] = "copy" THEN Files ELSE @]
    /\ version' = IF pc[l] = "copy" THEN l ELSE version
    /\ UNCHANGED <<pc, cleanVars, lock, place, content, raced, powerVars, archive, faults>>

\* The next of cp, chmod and mv.
Run(l) ==
    /\ pc[l] \in DOMAIN Runs
    /\ child[l] = "none"
    /\ child' = [child EXCEPT ![l] = Runs[pc[l]]]
    /\ left' = [left EXCEPT ![l] = IF pc[l] = "copy" THEN Files ELSE @]
    /\ UNCHANGED <<pc, cleanVars, lock, dirVars, faults>>

ClearTrap(l) ==
    /\ Move(l, "untrap", "unlock")
    /\ UNCHANGED <<child, left, cleanVars, lock, dirVars, faults>>

\* Mutant: the runtime inherits descriptor 9.
Unlock_KeepsOpen(l) ==
    /\ Move(l, "unlock", "repair")
    /\ UNCHANGED <<child, left, cleanVars, lock, dirVars, faults>>

\* flock -u 9, and the end of the descriptor.
Unlock(l) ==
    /\ Move(l, "unlock", "repair")
    /\ UNCHANGED <<child, left, cleanVars, dirVars, faults>>
    /\ Descriptors

\* chmod u+w on a read-only archive that is a file of the user's, then exec.
Repair(l) ==
    /\ Move(l, "repair", "running")
    /\ archive' = IF archive = "readonly" THEN "writable" ELSE archive
    /\ UNCHANGED <<child, left, cleanVars, lock, place, content, version, raced, powerVars,
                   faults>>

---------------------------------------------------------------------------
(* What the shell runs.  A child that ends leaves its shell, if that is     *)
(* still there, at the next command or, after a failure, in the trap.       *)

Ends(l, ok) ==
    /\ child' = [child EXCEPT ![l] = "none"]
    /\ IF pc[l] \notin DOMAIN Runs
       THEN UNCHANGED <<pc, cleaner>>
       ELSE IF ok
       THEN /\ pc' = [pc EXCEPT ![l] = CASE @ = "copy" -> "chmod"
                                         [] @ = "chmod" -> "move"
                                         [] @ = "move" -> "untrap"]
            /\ UNCHANGED cleaner
       ELSE /\ pc' = [pc EXCEPT ![l] = "cleaning"]
            /\ cleaner' = [cleaner EXCEPT ![l] = "begun"]
    /\ Descriptors

CopyFile(l) ==
    /\ child[l] = "cp"
    /\ place[l] = "staging"
    /\ \E f \in left[l] :
          /\ left' = [left EXCEPT ![l] = @ \ {f}]
          /\ content' = [content EXCEPT ![l] = @ \cup {f}]
    /\ UNCHANGED <<pc, child, cleanVars, lock, place, version, raced, powerVars, archive,
                   faults>>

CopyEnds(l) ==
    /\ child[l] = "cp"
    /\ left[l] = {}
    /\ Ends(l, TRUE)
    /\ UNCHANGED <<left, listed, dirVars, faults>>

ChmodEnds(l) ==
    /\ child[l] = "chmod"
    /\ Ends(l, TRUE)
    /\ UNCHANGED <<left, listed, dirVars, faults>>

\* mv renames, or moves into a directory that is there already.
Rename(l) ==
    /\ child[l] = "mv"
    /\ place[l] = "staging"
    /\ IF version = NoShell
       THEN version' = l /\ place' = [place EXCEPT ![l] = "version"]
       ELSE place' = [place EXCEPT ![l] = "nested"] /\ UNCHANGED version
    /\ raced' = IF cleaner[l] = "open" THEN raced \cup {l} ELSE raced
    /\ Ends(l, TRUE)
    /\ UNCHANGED <<left, listed, content, powerVars, archive, faults>>

\* A full disk, or a directory that the trap has removed.
Fails(l) ==
    /\ child[l] # "none"
    /\ place[l] = "none" \/ "full" \in faults
    /\ Ends(l, FALSE)
    /\ UNCHANGED <<left, listed, dirVars, faults>>

---------------------------------------------------------------------------
(* The trap: rm -rf "$staging".  It works on the directory it opened,       *)
(* wherever that is by now.                                                *)

CleanerEnds(l) ==
    /\ cleaner' = [cleaner EXCEPT ![l] = "none"]
    /\ pc' = [pc EXCEPT ![l] = IF @ = "cleaning" THEN "failed" ELSE @]

CleanOpen(l) ==
    /\ cleaner[l] = "begun"
    /\ IF place[l] = "staging"
       THEN /\ cleaner' = [cleaner EXCEPT ![l] = "open"]
            /\ listed' = [listed EXCEPT ![l] = content[l]]
            /\ UNCHANGED pc
       ELSE CleanerEnds(l) /\ UNCHANGED listed
    /\ UNCHANGED <<child, left, dirVars, faults>>
    /\ Descriptors

CleanFile(l) ==
    /\ cleaner[l] = "open"
    /\ \E f \in listed[l] :
          /\ listed' = [listed EXCEPT ![l] = @ \ {f}]
          /\ content' = [content EXCEPT ![l] = @ \ {f}]
    /\ UNCHANGED <<pc, child, left, cleaner, lock, place, version, raced, powerVars, archive,
                   faults>>

\* rmdir, which needs the directory empty and under its old name.
CleanEnd(l) ==
    /\ cleaner[l] = "open"
    /\ listed[l] = {}
    /\ place' = [place EXCEPT ![l] = IF @ = "staging" /\ content[l] = {} THEN "none" ELSE @]
    /\ CleanerEnds(l)
    /\ UNCHANGED <<child, left, listed, content, version, raced, powerVars, archive, faults>>
    /\ Descriptors

---------------------------------------------------------------------------
(* Faults.                                                                 *)

Kill(l) ==
    /\ "kill" \in faults
    /\ pc[l] \in {"lock", "repair"} \cup Locked
    /\ pc' = [pc EXCEPT ![l] = "killed"]
    /\ UNCHANGED <<child, left, cleanVars, dirVars, faults>>
    /\ Descriptors

Term(l) ==
    /\ "term" \in faults
    /\ pc[l] \in {"lock", "repair"} \cup Locked
    /\ IF pc[l] \in Trapped
       THEN /\ pc' = [pc EXCEPT ![l] = "cleaning"]
            /\ cleaner' = [cleaner EXCEPT ![l] = "begun"]
       ELSE /\ pc' = [pc EXCEPT ![l] = "killed"]
            /\ UNCHANGED cleaner
    /\ UNCHANGED <<child, left, listed, dirVars, faults>>
    /\ Descriptors

\* What all processes at once come to.
AllEnd ==
    /\ pc' = [l \in Shells |-> IF pc[l] \in {"start"} \cup Ended THEN pc[l] ELSE "killed"]
    /\ child' = [l \in Shells |-> "none"]
    /\ cleaner' = [l \in Shells |-> "none"]
    /\ lock' = NoShell
    /\ UNCHANGED <<left, listed, archive, faults>>

\* The user's session goes down with all there is; the file system does not.
Crash ==
    /\ "crash" \in faults
    /\ \E l \in Shells : pc[l] \in Locked
    /\ AllEnd
    /\ UNCHANGED <<place, content, version, raced, powerVars>>

\* The kernel writes names and files to disk when it likes: the script has no sync.
WriteBack(l) ==
    /\ "power" \in faults
    /\ \/ diskPlace' = [diskPlace EXCEPT ![l] = place[l]] /\ UNCHANGED diskContent
       \/ diskContent' = [diskContent EXCEPT ![l] = content[l]] /\ UNCHANGED diskPlace
    /\ UNCHANGED <<pc, child, left, cleanVars, lock, place, content, version, raced, cut,
                   archive, faults>>

\* Where directory l may be after a failure of the machine: anywhere from its place on
\* disk to its last one.
Found(l) ==
    {diskPlace[l], place[l]} \cup
        (IF diskPlace[l] = "none" /\ place[l] # "none" THEN {"staging"} ELSE {})

\* Of what is not on disk any part may be lost, a file's name or just what is in it.
PowerFails ==
    /\ "power" \in faults
    /\ \/ \E l \in Shells : pc[l] \in Locked
       \/ <<diskPlace, diskContent>> # <<place, content>>
    /\ AllEnd
    /\ place' \in {p \in [Shells -> Places] : \A l \in Shells : p[l] \in Found(l)}
    /\ content' \in {c \in [Shells -> SUBSET Files] : \A l \in Shells :
                        /\ c[l] \subseteq diskContent[l] \cup content[l]
                        /\ IF place'[l] = "none" THEN c[l] = {}
                           ELSE diskContent[l] \cap content[l] \subseteq c[l]}
    /\ version' = IF version # NoShell /\ place'[version] = "version" THEN version ELSE NoShell
    /\ cut' = cut \cup {l \in Shells : diskContent[l] # content[l]}
    /\ diskPlace' = place'
    /\ diskContent' = content'
    /\ UNCHANGED raced

---------------------------------------------------------------------------
ShellStep(l) ==
    \/ Flock(l) \/ Test(l) \/ MakeStaging(l) \/ SetTrap(l) \/ Run(l) \/ ClearTrap(l)
    \/ Unlock(l) \/ Repair(l)

ChildStep(l) == CopyFile(l) \/ CopyEnds(l) \/ ChmodEnds(l) \/ Rename(l) \/ Fails(l)

CleanStep(l) == CleanOpen(l) \/ CleanFile(l) \/ CleanEnd(l)

Next ==
    \/ \E l \in Shells :
          \/ Open(l) \/ ShellStep(l) \/ ChildStep(l) \/ CleanStep(l)
          \/ Kill(l) \/ Term(l) \/ WriteBack(l)
    \/ Crash
    \/ PowerFails

Spec == Init /\ [][Next]_vars

(* Shells and commands are scheduled; Steam itself may run for ever.       *)
Fairness ==
    \A l \in Shells : WF_vars(ShellStep(l)) /\ WF_vars(ChildStep(l)) /\ WF_vars(CleanStep(l))

FairSpec == Spec /\ Fairness

---------------------------------------------------------------------------
\* What stands under the version's name is the whole bootstrap, whichever shell was
\* killed, failed or went down with the session: the check for bin_steam.sh alone decides
\* that nothing needs unpacking.  A machine that fails leaves the whole or nothing too, as
\* long as the files were on disk by then.  The exceptions are a rename that reaches the
\* disk before the files do, and one under a trap that was emptying the directory already.
InstalledIsWhole ==
    version # NoShell /\ version \notin raced \cup cut => content[version] = Files

\* mv never finds the name taken, and so never buries a bootstrap inside another one, with
\* the same two exceptions.
NeverNested ==
    raced = {} /\ version \notin cut => \A l \in Shells : place[l] # "nested"

\* Two shells' commands never work on the directory at once, although those of a killed
\* shell go on ("Serialize bootstrap upgrades", steam.sh).
InstallersExclude ==
    \A k, l \in Shells : child[k] # "none" /\ child[l] # "none" => k = l

\* Every shell gets past the lock, or ends: one that runs Steam, failed or was killed
\* does not hold it.
EveryoneGetsOn == \A l \in Shells : pc[l] = "lock" ~> pc[l] \in Ended
=============================================================================
