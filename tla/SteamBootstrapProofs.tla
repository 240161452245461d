------------------------- MODULE SteamBootstrapProofs -------------------------
(***************************************************************************)
(* The Steam bootstrap, proved for any number of shells, any bootstrap and  *)
(* any mixture of the faults.                                              *)
(***************************************************************************)
EXTENDS SteamBootstrap, TLAPS

\* Descriptor 9 is open in the shell, in what it runs or in its rm.
Active(l) == pc[l] \in Locked \/ child[l] # "none" \/ cleaner[l] # "none"

\* Whoever has the descriptor of the lock file open beyond the flock has the lock.
LockInv == \A l \in Shells : Active(l) => lock = l

\* The stages of a shell that found nothing installed.
Installing == {"mktemp", "trap", "copy", "chmod", "move"}

\* A command belongs to the place its shell is at, unless the shell has left it; a trap
\* is run by a shell that does nothing else.
StageInv(l) ==
    /\ pc[l] \in {"start", "lock", "test", "mktemp"} =>
        /\ place[l] = "none" /\ content[l] = {}
        /\ diskPlace[l] = "none" /\ diskContent[l] = {}
    /\ child[l] # "none" => pc[l] \in DOMAIN Runs \cup {"cleaning", "failed", "killed"}
    /\ child[l] # "none" /\ pc[l] \in DOMAIN Runs => child[l] = Runs[pc[l]]
    /\ cleaner[l] # "none" => pc[l] \in {"cleaning", "killed"}

\* What is in a staging directory: all that cp has written as long as its shell waits for
\* it, everything from then on, until a trap begins to empty it.
StagingInv(l) ==
    /\ pc[l] = "copy" /\ child[l] = "cp" => Files \ left[l] \subseteq content[l]
    /\ /\ pc[l] \in {"chmod", "move"} \/ child[l] \in {"chmod", "mv"}
       /\ place[l] = "staging"
       /\ cleaner[l] # "open"
       => content[l] = Files
    /\ cleaner[l] = "open" => place[l] = "staging" \/ l \in raced
    /\ cleaner[l] = "open" /\ child[l] \in {"chmod", "mv"} => content[l] \subseteq listed[l]

\* What is installed is not what a trap emptied or a failure of the machine cut short.
Sound == raced = {} /\ version \notin cut

\* With that, a shell installs only where nothing is.
InstallInv(l) ==
    Sound /\ (pc[l] \in Installing \/ child[l] # "none") => version = NoShell

\* The disk lags behind: a directory is there under a former name or under its own.  What
\* is cut there is nobody's any more, and if it was installed it stays so, having been
\* found on the disk.
DiskInv ==
    /\ \A l \in Shells : diskPlace[l] \in {"none", "staging", place[l]}
    /\ version \in cut => diskPlace[version] = "version"
    /\ \A l \in cut : pc[l] \in Ended /\ child[l] = "none" /\ cleaner[l] = "none"
    /\ "power" \notin faults => cut = {}

BootstrapInv ==
    /\ TypeOK
    /\ LockInv
    /\ \A l \in Shells : StageInv(l) /\ StagingInv(l) /\ InstallInv(l)
    /\ version # NoShell => place[version] = "version"
    /\ InstalledIsWhole
    /\ NeverNested
    /\ DiskInv

\* Before the first launch there is nothing.
LEMMA InitBootstrap == Init => BootstrapInv
  <1> USE NoShellAssumption, EnvironmentsAssumption
  <1> QED
    BY DEF Init, BootstrapInv, TypeOK, LockInv, Active, StageInv, StagingInv, InstallInv,
      InstalledIsWhole, NeverNested, DiskInv, Places, Locked, Trapped, Ended, Runs, Installing

\* The lock goes to nobody else while one of its descriptors is open.
LEMMA DescriptorsKeep ==
    ASSUME BootstrapInv, Descriptors, NEW l \in Shells,
           Active(l)' => Active(l)
    PROVE  Active(l)' => lock' = l
  BY NoShellAssumption DEF BootstrapInv, LockInv, Descriptors, Open9, Active, TypeOK

\* The types are kept.
LEMMA TypeStep == TypeOK /\ [Next]_vars => TypeOK'
  <1> SUFFICES ASSUME TypeOK, [Next]_vars PROVE TypeOK'
    OBVIOUS
  <1> USE DEF TypeOK, Places, Locked, Trapped, Ended, Runs, Move, cleanVars, dirVars, powerVars
  <1>1. ASSUME NEW k \in Shells, Open(k) \/ ShellStep(k) PROVE TypeOK'
    BY <1>1, NoShellAssumption DEF Open, ShellStep, Flock, Test, MakeStaging, SetTrap, Run,
      ClearTrap, Unlock, Repair, Descriptors
  <1>2. ASSUME NEW k \in Shells, ChildStep(k) PROVE TypeOK'
    BY <1>2 DEF ChildStep, CopyFile, CopyEnds, ChmodEnds, Rename, Fails, Ends, Descriptors
  <1>3. ASSUME NEW k \in Shells, CleanStep(k) PROVE TypeOK'
    BY <1>3 DEF CleanStep, CleanOpen, CleanFile, CleanEnd, CleanerEnds, Descriptors
  <1>4. ASSUME NEW k \in Shells, Kill(k) \/ Term(k) PROVE TypeOK'
    BY <1>4 DEF Kill, Term, Descriptors
  <1>5. CASE Crash
    BY <1>5 DEF Crash, AllEnd
  <1>6. ASSUME NEW k \in Shells, WriteBack(k) PROVE TypeOK'
    BY <1>6 DEF WriteBack
  <1>7. CASE PowerFails
    BY <1>7 DEF PowerFails, AllEnd
  <1>8. CASE UNCHANGED vars
    BY <1>8 DEF vars
  <1> QED
    BY <1>1, <1>2, <1>3, <1>4, <1>5, <1>6, <1>7, <1>8 DEF Next

\* Only flock gives a shell the lock, and it keeps it with its descriptors.
LEMMA LockStep == BootstrapInv /\ [Next]_vars => LockInv'
  <1> SUFFICES ASSUME BootstrapInv, [Next]_vars, NEW l \in Shells, Active(l)' PROVE lock' = l
    BY DEF LockInv
  <1> USE DEF Move, cleanVars, dirVars, powerVars, Locked, Trapped, Runs, Ended
  <1>0. TypeOK /\ LockInv /\ \A k \in Shells : StageInv(k)
    BY DEF BootstrapInv
  <1>1. ASSUME NEW k \in Shells, Open(k) \/ Test(k) \/ SetTrap(k) \/ Run(k) \/ ClearTrap(k) \/ Repair(k)
        PROVE  lock' = l
    BY <1>0, <1>1 DEF Open, Test, SetTrap, Run, ClearTrap, Repair, LockInv, Active, TypeOK
  <1>2. ASSUME NEW k \in Shells, Flock(k) PROVE lock' = l
    BY <1>0, <1>2, NoShellAssumption DEF Flock, LockInv, Active, TypeOK
  <1>3. ASSUME NEW k \in Shells, MakeStaging(k) PROVE lock' = l
    <2>1. CASE UNCHANGED lock
      BY <1>0, <1>3, <2>1 DEF MakeStaging, LockInv, Active, TypeOK
    <2>2. CASE Descriptors
      BY <1>0, <1>3, <2>2, DescriptorsKeep DEF MakeStaging, Active, TypeOK
    <2> QED
      BY <1>3, <2>1, <2>2 DEF MakeStaging
  <1>4. ASSUME NEW k \in Shells, Unlock(k) PROVE lock' = l
    BY <1>0, <1>4, DescriptorsKeep DEF Unlock, Active, TypeOK
  <1>5. ASSUME NEW k \in Shells, CopyFile(k) \/ CleanFile(k) PROVE lock' = l
    BY <1>0, <1>5 DEF CopyFile, CleanFile, LockInv, Active
  <1>6. ASSUME NEW k \in Shells, CopyEnds(k) \/ ChmodEnds(k) \/ Rename(k) \/ Fails(k)
        PROVE  lock' = l
    <2>1. Descriptors /\ child[k] # "none"
      BY <1>6 DEF CopyEnds, ChmodEnds, Rename, Fails, Ends
    <2>2. Active(l)' => Active(l)
      BY <1>0, <1>6, <2>1 DEF CopyEnds, ChmodEnds, Rename, Fails, Ends, Active, TypeOK
    <2> QED
      BY <2>1, <2>2, DescriptorsKeep
  <1>7. ASSUME NEW k \in Shells, CleanOpen(k) \/ CleanEnd(k) PROVE lock' = l
    <2>1. Descriptors /\ cleaner[k] # "none"
      BY <1>7 DEF CleanOpen, CleanEnd
    <2>2. Active(l)' => Active(l)
      BY <1>0, <1>7, <2>1 DEF CleanOpen, CleanEnd, CleanerEnds, Active, TypeOK
    <2> QED
      BY <2>1, <2>2, DescriptorsKeep
  <1>8. ASSUME NEW k \in Shells, Kill(k) \/ Term(k) PROVE lock' = l
    <2>1. Descriptors
      BY <1>8 DEF Kill, Term
    <2>2. Active(l)' => Active(l)
      BY <1>0, <1>8 DEF Kill, Term, Active, TypeOK
    <2> QED
      BY <2>1, <2>2, DescriptorsKeep
  <1>9. CASE Crash \/ PowerFails
    BY <1>0, <1>9 DEF Crash, PowerFails, AllEnd, Active, TypeOK
  <1>10. ASSUME UNCHANGED vars \/ \E k \in Shells : WriteBack(k) PROVE lock' = l
    BY <1>0, <1>10 DEF vars, WriteBack, LockInv, Active
  <1> QED
    BY <1>1, <1>2, <1>3, <1>4, <1>5, <1>6, <1>7, <1>8, <1>9, <1>10
    DEF Next, ShellStep, ChildStep, CleanStep

\* A command is where its shell is or was.
LEMMA StageStep ==
    BootstrapInv /\ [Next]_vars => \A l \in Shells : StageInv(l)'
  <1> SUFFICES ASSUME BootstrapInv, [Next]_vars, NEW l \in Shells PROVE StageInv(l)'
    OBVIOUS
  <1> USE DEF StageInv, Move, cleanVars, dirVars, powerVars, Locked, Trapped, Runs, Ended
  <1>0. TypeOK /\ StageInv(l)
    BY DEF BootstrapInv
  <1>1. ASSUME NEW k \in Shells, Open(k) \/ ShellStep(k) PROVE StageInv(l)'
    BY <1>0, <1>1 DEF Open, ShellStep, Flock, Test, MakeStaging, SetTrap, Run, ClearTrap,
      Unlock, Repair, TypeOK
  <1>2. ASSUME NEW k \in Shells, ChildStep(k) PROVE StageInv(l)'
    BY <1>0, <1>2 DEF ChildStep, CopyFile, CopyEnds, ChmodEnds, Rename, Fails, Ends, TypeOK
  <1>3. ASSUME NEW k \in Shells, CleanStep(k) PROVE StageInv(l)'
    BY <1>0, <1>3 DEF CleanStep, CleanOpen, CleanFile, CleanEnd, CleanerEnds, TypeOK
  <1>4. ASSUME NEW k \in Shells, Kill(k) \/ Term(k) PROVE StageInv(l)'
    BY <1>0, <1>4 DEF Kill, Term, TypeOK
  <1>5. CASE Crash
    BY <1>0, <1>5 DEF Crash, AllEnd, TypeOK
  <1>6. ASSUME NEW k \in Shells, WriteBack(k) PROVE StageInv(l)'
    BY <1>0, <1>6 DEF WriteBack, TypeOK
  <1>7. CASE PowerFails
    <2>1. CASE pc[l] = "start"
      <3>1. place'[l] \in Found(l) /\ (place'[l] = "none" => content'[l] = {})
        BY <1>7 DEF PowerFails
      <3>2. place'[l] = "none"
        BY <1>0, <2>1, <3>1 DEF Found
      <3> QED
        BY <1>0, <1>7, <2>1, <3>1, <3>2 DEF PowerFails, AllEnd, TypeOK
    <2>2. CASE pc[l] # "start"
      BY <1>0, <1>7, <2>2 DEF PowerFails, AllEnd, TypeOK
    <2> QED
      BY <2>1, <2>2
  <1>8. CASE UNCHANGED vars
    BY <1>0, <1>8 DEF vars
  <1> QED
    BY <1>1, <1>2, <1>3, <1>4, <1>5, <1>6, <1>7, <1>8 DEF Next

\* A directory is complete before it is renamed, or a trap is emptying it.
LEMMA StagingStep ==
    BootstrapInv /\ [Next]_vars => \A l \in Shells : StagingInv(l)'
  <1> SUFFICES ASSUME BootstrapInv, [Next]_vars, NEW l \in Shells PROVE StagingInv(l)'
    OBVIOUS
  <1> USE DEF StageInv, StagingInv, Move, cleanVars, dirVars, powerVars, Locked, Trapped, Runs, Ended
  <1>0. TypeOK /\ StageInv(l) /\ StagingInv(l)
    BY DEF BootstrapInv
  <1>1. ASSUME NEW k \in Shells, Open(k) \/ ShellStep(k) PROVE StagingInv(l)'
    BY <1>0, <1>1 DEF Open, ShellStep, Flock, Test, MakeStaging, SetTrap, Run, ClearTrap,
      Unlock, Repair, TypeOK
  <1>2. ASSUME NEW k \in Shells, CopyFile(k) PROVE StagingInv(l)'
    BY <1>0, <1>2 DEF CopyFile, TypeOK
  <1>3. ASSUME NEW k \in Shells, CopyEnds(k) PROVE StagingInv(l)'
    BY <1>0, <1>3 DEF CopyEnds, Ends, TypeOK
  <1>4. ASSUME NEW k \in Shells, ChmodEnds(k) \/ Fails(k) PROVE StagingInv(l)'
    BY <1>0, <1>4 DEF ChmodEnds, Fails, Ends, TypeOK
  <1>5. ASSUME NEW k \in Shells, Rename(k) PROVE StagingInv(l)'
    BY <1>0, <1>5 DEF Rename, Ends, TypeOK
  <1>6. ASSUME NEW k \in Shells, CleanStep(k) PROVE StagingInv(l)'
    <2>1. Files # {}
      BY ProgramAssumption
    <2>2. CASE CleanOpen(k)
      BY <1>0, <2>2 DEF CleanOpen, CleanerEnds, TypeOK
    <2>3. CASE CleanFile(k)
      BY <1>0, <2>3 DEF CleanFile, TypeOK
    <2>4. CASE CleanEnd(k)
      BY <1>0, <2>1, <2>4 DEF CleanEnd, CleanerEnds, TypeOK
    <2> QED
      BY <1>6, <2>2, <2>3, <2>4 DEF CleanStep
  <1>7. ASSUME NEW k \in Shells, Kill(k) \/ Term(k) PROVE StagingInv(l)'
    BY <1>0, <1>7 DEF Kill, Term, TypeOK
  <1>8. CASE Crash \/ PowerFails
    BY <1>0, <1>8 DEF Crash, PowerFails, AllEnd, TypeOK
  <1>9. ASSUME UNCHANGED vars \/ \E k \in Shells : WriteBack(k) PROVE StagingInv(l)'
    BY <1>0, <1>9 DEF vars, WriteBack
  <1> QED
    BY <1>1, <1>2, <1>3, <1>4, <1>5, <1>6, <1>7, <1>8, <1>9 DEF Next, ChildStep

\* A rename under the lock finds the name free and puts a whole directory there.
LEMMA RenameInstalls ==
    ASSUME BootstrapInv, NEW k \in Shells, Rename(k)
    PROVE  /\ \A l \in Shells : InstallInv(l)'
           /\ (version # NoShell => place[version] = "version")'
           /\ InstalledIsWhole'
           /\ NeverNested'
  <1> USE DEF BootstrapInv, cleanVars, dirVars, powerVars, Runs
  <1>1. /\ child[k] = "mv" /\ place[k] = "staging" /\ lock = k
        /\ child' = [child EXCEPT ![k] = "none"] /\ content' = content /\ cut' = cut
        /\ k \notin cut
        /\ raced' = IF cleaner[k] = "open" THEN raced \cup {k} ELSE raced
    BY DEF Rename, Ends, LockInv, Active, DiskInv
  <1>2. \A l \in Shells : l # k => ~Active(l)
    BY <1>1 DEF LockInv
  <1>3. cleaner[k] # "open" => content[k] = Files
    BY <1>1 DEF StagingInv
  <1>4. raced' = {} /\ version \notin cut => version = NoShell
    BY <1>1 DEF InstallInv, Sound
  <1>5. pc'[k] \notin Installing
    BY <1>1 DEF Rename, Ends, StageInv, TypeOK, Installing
  <1>6. \A l \in Shells : l # k => pc'[l] = pc[l]
    BY DEF Rename, Ends, TypeOK
  <1>7. \A l \in Shells : pc'[l] \notin Installing /\ child'[l] = "none"
    BY <1>1, <1>2, <1>5, <1>6 DEF Active, Installing, Locked, Trapped, TypeOK
  <1>8. \/ /\ version = NoShell /\ version' = k
           /\ place' = [place EXCEPT ![k] = "version"]
        \/ /\ version # NoShell /\ version' = version
           /\ place' = [place EXCEPT ![k] = "nested"]
    BY DEF Rename
  <1>9. (version # NoShell => place[version] = "version")'
    BY <1>1, <1>8 DEF TypeOK
  <1>10. InstalledIsWhole'
    BY <1>1, <1>3, <1>8 DEF InstalledIsWhole, TypeOK
  <1>11. NeverNested'
    BY <1>1, <1>4, <1>8, NoShellAssumption DEF NeverNested, TypeOK
  <1> QED
    BY <1>7, <1>9, <1>10, <1>11 DEF InstallInv

\* The failure of the machine leaves what was installed and on its disk, or nothing, or
\* marks what it has cut.
LEMMA PowerLeaves ==
    ASSUME BootstrapInv, PowerFails
    PROVE  /\ \A l \in Shells : InstallInv(l)'
           /\ (version # NoShell => place[version] = "version")'
           /\ InstalledIsWhole'
           /\ NeverNested'
  <1> USE DEF BootstrapInv, PowerFails, AllEnd
  <1>1. \A l \in Shells : place'[l] \in Found(l)
    OBVIOUS
  <1>2. \A l \in Shells : pc'[l] \notin Installing /\ child'[l] = "none"
    BY DEF TypeOK, Installing, Ended, Locked, Trapped
  <1>3. version' # NoShell => version' = version /\ place'[version] = "version"
    OBVIOUS
  <1>4. InstalledIsWhole'
    <2> SUFFICES ASSUME version' # NoShell, version' \notin raced' \cup cut'
                 PROVE  content'[version] = Files
      BY <1>3 DEF InstalledIsWhole
    <2>1. version \in Shells /\ version # NoShell /\ version \notin raced \cup cut
      BY <1>3, NoShellAssumption DEF TypeOK
    <2>2. content[version] = Files /\ diskContent[version] = content[version]
      BY <1>3, <2>1 DEF InstalledIsWhole
    <2>3. /\ content'[version] \subseteq diskContent[version] \cup content[version]
          /\ diskContent[version] \cap content[version] \subseteq content'[version]
      BY <1>3, <2>1
    <2> QED
      BY <2>2, <2>3
  <1>5. NeverNested'
    <2> SUFFICES ASSUME raced' = {}, version' \notin cut', NEW l \in Shells,
                        place'[l] = "nested"
                 PROVE  FALSE
      BY DEF NeverNested
    <2>1. place[l] = "nested"
      BY <1>1 DEF Found, DiskInv
    <2>2. version \in cut /\ version \in Shells
      BY <2>1 DEF NeverNested, TypeOK
    <2>3. place'[version] = "version"
      BY <1>1, <2>2, NoShellAssumption DEF Found, DiskInv
    <2> QED
      BY <2>2, <2>3, NoShellAssumption
  <1> QED
    BY <1>2, <1>3, <1>4, <1>5 DEF InstallInv

\* No other step touches what is installed.
LEMMA InstallStep ==
    BootstrapInv /\ [Next]_vars =>
        /\ \A l \in Shells : InstallInv(l)'
        /\ (version # NoShell => place[version] = "version")'
        /\ InstalledIsWhole'
        /\ NeverNested'
  <1> SUFFICES ASSUME BootstrapInv, [Next]_vars, \A k \in Shells : ~Rename(k), ~PowerFails
               PROVE  /\ \A l \in Shells : InstallInv(l)'
                      /\ (version # NoShell => place[version] = "version")'
                      /\ InstalledIsWhole'
                      /\ NeverNested'
    BY RenameInstalls, PowerLeaves
  <1> USE DEF BootstrapInv, Move, cleanVars, dirVars, powerVars, Locked, Trapped, Runs, Ended, Installing
  <1>1. version' = version /\ raced' = raced /\ cut' = cut
    BY DEF Next, vars, Open, ShellStep, Flock, Test, MakeStaging, SetTrap, Run, ClearTrap,
      Unlock, Repair, ChildStep, CopyFile, CopyEnds, ChmodEnds, Fails, CleanStep, CleanOpen,
      CleanFile, CleanEnd, Kill, Term, Crash, AllEnd, WriteBack
  <1>2. \A l \in Shells : InstallInv(l)'
    <2> SUFFICES ASSUME NEW l \in Shells PROVE InstallInv(l)'
      OBVIOUS
    <2>1. InstalledIsWhole /\ InstallInv(l) /\ TypeOK /\ StageInv(l)
      OBVIOUS
    <2> USE DEF Sound
    <2>2. ASSUME NEW k \in Shells, Test(k) PROVE InstallInv(l)'
      BY <1>1, <2>1, <2>2, ProgramAssumption DEF Test, InstallInv, InstalledIsWhole, TypeOK
    <2>3. ASSUME NEW k \in Shells,
                 \/ Open(k) \/ Flock(k) \/ MakeStaging(k) \/ SetTrap(k) \/ Run(k)
                 \/ ClearTrap(k) \/ Unlock(k) \/ Repair(k)
          PROVE  InstallInv(l)'
      BY <1>1, <2>1, <2>3 DEF Open, Flock, MakeStaging, SetTrap, Run, ClearTrap, Unlock,
        Repair, InstallInv, TypeOK
    <2>4. ASSUME NEW k \in Shells, ChildStep(k) PROVE InstallInv(l)'
      BY <1>1, <2>1, <2>4 DEF ChildStep, CopyFile, CopyEnds, ChmodEnds, Fails, Ends,
        InstallInv, StageInv, TypeOK
    <2>5. ASSUME NEW k \in Shells, CleanStep(k) PROVE InstallInv(l)'
      BY <1>1, <2>1, <2>5 DEF CleanStep, CleanOpen, CleanFile, CleanEnd, CleanerEnds,
        InstallInv, TypeOK
    <2>6. ASSUME NEW k \in Shells, Kill(k) \/ Term(k) PROVE InstallInv(l)'
      BY <1>1, <2>1, <2>6 DEF Kill, Term, InstallInv, TypeOK
    <2>7. CASE Crash
      BY <1>1, <2>1, <2>7 DEF Crash, AllEnd, InstallInv, TypeOK
    <2>8. ASSUME UNCHANGED vars \/ \E k \in Shells : WriteBack(k) PROVE InstallInv(l)'
      BY <2>1, <2>8 DEF vars, WriteBack, InstallInv
    <2> QED
      BY <2>2, <2>3, <2>4, <2>5, <2>6, <2>7, <2>8 DEF Next, ShellStep
  <1>3. /\ version # NoShell => place'[version] = "version"
        /\ \A l \in Shells : place'[l] = "nested" => place[l] = "nested"
    <2>1. ASSUME NEW k \in Shells, MakeStaging(k)
          PROVE  /\ version # NoShell => place'[version] = "version"
                 /\ \A l \in Shells : place'[l] = "nested" => place[l] = "nested"
      BY <2>1 DEF MakeStaging, StageInv, TypeOK
    <2>2. ASSUME NEW k \in Shells, CleanEnd(k)
          PROVE  /\ version # NoShell => place'[version] = "version"
                 /\ \A l \in Shells : place'[l] = "nested" => place[l] = "nested"
      BY <2>2 DEF CleanEnd, TypeOK
    <2>3. CASE place' = place
      BY <2>3
    <2> QED
      BY <2>1, <2>2, <2>3 DEF Next, vars, Open, ShellStep, Flock, Test, SetTrap, Run, ClearTrap,
        Unlock, Repair, ChildStep, CopyFile, CopyEnds, ChmodEnds, Fails, CleanStep, CleanOpen,
        CleanFile, Kill, Term, Crash, AllEnd, WriteBack
  <1>4. version # NoShell /\ version \notin raced => content'[version] = content[version]
    <2> SUFFICES ASSUME version # NoShell, version \notin raced
                 PROVE  content'[version] = content[version]
      OBVIOUS
    <2>0. version \in Shells /\ place[version] = "version" /\ StagingInv(version)
      BY DEF TypeOK
    <2>1. ASSUME NEW k \in Shells, CopyFile(k) PROVE content'[version] = content[version]
      BY <2>0, <2>1 DEF CopyFile, TypeOK
    <2>2. ASSUME NEW k \in Shells, CleanFile(k) PROVE content'[version] = content[version]
      BY <2>0, <2>2 DEF CleanFile, StagingInv, TypeOK
    <2>3. CASE content' = content
      BY <2>3
    <2> QED
      BY <2>1, <2>2, <2>3 DEF Next, vars, Open, ShellStep, Flock, Test, MakeStaging, SetTrap,
        Run, ClearTrap, Unlock, Repair, ChildStep, CopyEnds, ChmodEnds, Fails, CleanStep,
        CleanOpen, CleanEnd, Kill, Term, Crash, AllEnd, WriteBack
  <1> QED
    BY <1>1, <1>2, <1>3, <1>4 DEF InstalledIsWhole, NeverNested

\* Only the failure of the machine cuts anything, and by then it is nobody's.
LEMMA DiskStep == BootstrapInv /\ [Next]_vars => DiskInv'
  <1> SUFFICES ASSUME BootstrapInv, [Next]_vars PROVE DiskInv'
    OBVIOUS
  <1> USE DEF DiskInv, StageInv, Move, cleanVars, dirVars, powerVars, Locked, Trapped, Runs, Ended
  <1>0. /\ TypeOK /\ DiskInv /\ \A l \in Shells : StageInv(l)
        /\ version # NoShell => place[version] = "version"
    BY DEF BootstrapInv
  <1>1. ASSUME NEW k \in Shells, Open(k) \/ ShellStep(k) PROVE DiskInv'
    BY <1>0, <1>1, NoShellAssumption DEF Open, ShellStep, Flock, Test, MakeStaging, SetTrap,
      Run, ClearTrap, Unlock, Repair, TypeOK
  <1>2. ASSUME NEW k \in Shells, ChildStep(k) PROVE DiskInv'
    BY <1>0, <1>2, NoShellAssumption DEF ChildStep, CopyFile, CopyEnds, ChmodEnds, Rename,
      Fails, Ends, TypeOK
  <1>3. ASSUME NEW k \in Shells, CleanStep(k) PROVE DiskInv'
    BY <1>0, <1>3 DEF CleanStep, CleanOpen, CleanFile, CleanEnd, CleanerEnds, TypeOK
  <1>4. ASSUME NEW k \in Shells, Kill(k) \/ Term(k) PROVE DiskInv'
    BY <1>0, <1>4 DEF Kill, Term, TypeOK
  <1>5. CASE Crash
    BY <1>0, <1>5 DEF Crash, AllEnd, TypeOK
  <1>6. ASSUME NEW k \in Shells, WriteBack(k) PROVE DiskInv'
    BY <1>0, <1>6, NoShellAssumption DEF WriteBack, TypeOK
  <1>7. CASE PowerFails
    <2> USE DEF PowerFails, AllEnd
    <2>1. diskPlace' = place'
      BY <1>7
    <2>2. \A l \in cut' : pc'[l] \in Ended /\ child'[l] = "none" /\ cleaner'[l] = "none"
      BY <1>0, <1>7 DEF TypeOK
    <2>3. version' \in cut' => diskPlace'[version'] = "version"
      BY <1>0, <1>7, <2>1, NoShellAssumption DEF TypeOK
    <2> QED
      BY <1>7, <2>1, <2>2, <2>3
  <1>8. CASE UNCHANGED vars
    BY <1>0, <1>8 DEF vars
  <1> QED
    BY <1>1, <1>2, <1>3, <1>4, <1>5, <1>6, <1>7, <1>8 DEF Next

\* The bootstrap's state is as described, whatever fails or is killed.
THEOREM BootstrapInvariance == Spec => []BootstrapInv
  <1>1. BootstrapInv /\ [Next]_vars => BootstrapInv'
    <2> SUFFICES ASSUME BootstrapInv, [Next]_vars PROVE BootstrapInv'
      OBVIOUS
    <2> TypeOK
      BY DEF BootstrapInv
    <2>1. TypeOK' /\ LockInv' /\ \A l \in Shells : StageInv(l)' /\ StagingInv(l)'
      BY TypeStep, LockStep, StageStep, StagingStep
    <2> QED
      BY <2>1, InstallStep, DiskStep DEF BootstrapInv
  <1> QED
    BY InitBootstrap, <1>1, PTL DEF Spec

\* No two shells' commands work on the directory at once, even those of killed shells.
THEOREM OneInstaller == Spec => []InstallersExclude
  <1>1. BootstrapInv => InstallersExclude
    BY DEF BootstrapInv, LockInv, Active, InstallersExclude
  <1> QED
    BY <1>1, BootstrapInvariance, PTL

\* What stands under the version's name is the whole bootstrap, but for a rename that a
\* trap was ahead of, or that reached the disk of a failing machine ahead of the files.
THEOREM WholeOrNothing == Spec => []InstalledIsWhole
  <1>1. BootstrapInv => InstalledIsWhole
    BY DEF BootstrapInv
  <1> QED
    BY <1>1, BootstrapInvariance, PTL

\* No bootstrap is moved into another one, with the same exceptions.
THEOREM NameIsFree == Spec => []NeverNested
  <1>1. BootstrapInv => NeverNested
    BY DEF BootstrapInv
  <1> QED
    BY <1>1, BootstrapInvariance, PTL

\* The variables have their types: no shell, command or trap is ever where the script has
\* no place for it.
THEOREM TypeCorrect == Spec => []TypeOK
  <1>1. BootstrapInv => TypeOK
    BY DEF BootstrapInv
  <1> QED
    BY <1>1, BootstrapInvariance, PTL

---------------------------------------------------------------------------
\* Once a bootstrap is installed no process replaces it or changes what is in it, except
\* the trap that a rename overtook: a Steam that runs from it keeps what it started with.
\* The failure of the machine may undo the installation, but puts nothing in its place.
InstalledForGood ==
    version # NoShell =>
        \/ PowerFails /\ version' \in {version, NoShell}
        \/ /\ version' = version
           /\ version \notin raced' => version \notin raced /\ content'[version] = content[version]

\* A rename finds a name that is taken only for a directory of another shell.
LEMMA InstalledStep == BootstrapInv /\ [Next]_vars => InstalledForGood
  <1> SUFFICES ASSUME BootstrapInv, [Next]_vars, version # NoShell PROVE InstalledForGood
    BY DEF InstalledForGood
  <1> USE DEF BootstrapInv, Move, cleanVars, dirVars, powerVars, Locked, Trapped, Runs, Ended, Installing
  <1>0. version \in Shells /\ place[version] = "version" /\ StagingInv(version)
    BY DEF TypeOK
  <1>1. ASSUME NEW k \in Shells, Rename(k)
        PROVE  version' = version /\ raced \subseteq raced' /\ content' = content
    BY <1>1 DEF Rename
  <1>2. ASSUME NEW k \in Shells, CopyFile(k)
        PROVE  version' = version /\ raced' = raced /\ content'[version] = content[version]
    BY <1>0, <1>2 DEF CopyFile, TypeOK
  <1>3. ASSUME NEW k \in Shells, CleanFile(k)
        PROVE  /\ version' = version /\ raced' = raced
               /\ version \notin raced => content'[version] = content[version]
    BY <1>0, <1>3 DEF CleanFile, StagingInv, TypeOK
  <1>4. CASE version' = version /\ raced' = raced /\ content' = content
    BY <1>4 DEF InstalledForGood
  <1>5. CASE PowerFails
    BY <1>5 DEF PowerFails, InstalledForGood
  <1> QED
    BY <1>1, <1>2, <1>3, <1>4, <1>5 DEF InstalledForGood, Next, vars, Open, ShellStep, Flock, Test,
      MakeStaging, SetTrap, Run, ClearTrap, Unlock, Repair, ChildStep, CopyEnds, ChmodEnds,
      Fails, CleanStep, CleanOpen, CleanEnd, Kill, Term, Crash, AllEnd, WriteBack

\* What is installed stays as it was installed.
THEOREM InstallsOnce == Spec => [][InstalledForGood]_vars
  BY BootstrapInvariance, InstalledStep, PTL DEF Spec

---------------------------------------------------------------------------
\* A shell on its way to the rename, and every command, works in a staging directory or
\* finds it removed, and the rename ends that; a trap waits for its rm; a command runs beside that rm only after a
\* SIGTERM, and only then can the directory get a file that the rm has not listed.
WayInv(l) ==
    /\ pc[l] \in DOMAIN Runs \cup {"trap"} \/ child[l] # "none" =>
        place[l] \in {"staging", "none"}
    /\ pc[l] = "untrap" => place[l] # "staging"
    /\ pc[l] = "cleaning" => cleaner[l] # "none"
    /\ cleaner[l] # "none" /\ child[l] # "none" => "term" \in faults
    /\ "term" \notin faults /\ cleaner[l] = "open" => content[l] \subseteq listed[l]
    /\ pc[l] = "killed" => faults \cap {"kill", "term", "crash", "power"} # {}

\* A directory is renamed under a running rm only after a SIGTERM.
OnlyTermRaces == raced # {} => "term" \in faults

\* Nothing leaves a staging directory behind but a signal, or the end of the session or of
\* the machine: a failed cp, chmod or
\* mv, and a directory that somebody else installed first, leave none.
NoLitter ==
    faults \cap {"kill", "term", "crash", "power"} = {} =>
        \A l \in Shells : pc[l] \in {"unlock", "repair"} \cup Ended => place[l] # "staging"

TidyInv ==
    /\ \A l \in Shells : WayInv(l)
    /\ OnlyTermRaces
    /\ NoLitter

\* Every step keeps it for one shell.
LEMMA WayStep ==
    ASSUME BootstrapInv, TidyInv, [Next]_vars, NEW l \in Shells PROVE WayInv(l)'
  <1> USE DEF WayInv, StageInv, Move, cleanVars, dirVars, powerVars, Locked, Trapped, Runs, Ended
  <1>0. TypeOK /\ StageInv(l) /\ WayInv(l)
    BY DEF BootstrapInv, TidyInv
  <1>1. ASSUME NEW k \in Shells, Open(k) \/ ShellStep(k) PROVE WayInv(l)'
    BY <1>0, <1>1 DEF Open, ShellStep, Flock, Test, MakeStaging, SetTrap, Run, ClearTrap,
      Unlock, Repair, TypeOK
  <1>2. ASSUME NEW k \in Shells, CopyFile(k) PROVE WayInv(l)'
    BY <1>0, <1>2 DEF CopyFile, TypeOK
  <1>3. ASSUME NEW k \in Shells, CopyEnds(k) \/ ChmodEnds(k) \/ Fails(k) PROVE WayInv(l)'
    BY <1>0, <1>3 DEF CopyEnds, ChmodEnds, Fails, Ends, TypeOK
  <1>4. ASSUME NEW k \in Shells, Rename(k) PROVE WayInv(l)'
    BY <1>0, <1>4 DEF Rename, Ends, TypeOK
  <1>5. ASSUME NEW k \in Shells, CleanStep(k) PROVE WayInv(l)'
    BY <1>0, <1>5 DEF CleanStep, CleanOpen, CleanFile, CleanEnd, CleanerEnds, TypeOK
  <1>6. ASSUME NEW k \in Shells, Kill(k) \/ Term(k) PROVE WayInv(l)'
    BY <1>0, <1>6 DEF Kill, Term, TypeOK
  <1>7. CASE Crash \/ PowerFails
    BY <1>0, <1>7 DEF Crash, PowerFails, AllEnd, TypeOK
  <1>8. ASSUME UNCHANGED vars \/ \E k \in Shells : WriteBack(k) PROVE WayInv(l)'
    BY <1>0, <1>8 DEF vars, WriteBack
  <1> QED
    BY <1>1, <1>2, <1>3, <1>4, <1>5, <1>6, <1>7, <1>8 DEF Next, ChildStep

\* A shell gets past the trap without a staging directory: a rename has taken it, or the
\* trap has emptied it.
LEMMA LitterStep ==
    ASSUME BootstrapInv, TidyInv, [Next]_vars PROVE NoLitter'
  <1> SUFFICES ASSUME faults \cap {"kill", "term", "crash", "power"} = {}, NEW l \in Shells,
                      pc'[l] \in {"unlock", "repair"} \cup Ended
               PROVE  place'[l] # "staging"
    <2>1. faults' = faults
      BY DEF Next, vars, Open, ShellStep, Flock, Test, MakeStaging, SetTrap, Run, ClearTrap,
        Unlock, Repair, ChildStep, CopyFile, CopyEnds, ChmodEnds, Rename, Fails, CleanStep,
        CleanOpen, CleanFile, CleanEnd, Kill, Term, Crash, PowerFails, AllEnd, WriteBack,
        Move, cleanVars, dirVars, powerVars
    <2> QED
      BY <2>1 DEF NoLitter
  <1> USE DEF StageInv, WayInv, Move, cleanVars, dirVars, powerVars, Locked, Trapped, Runs, Ended
  <1>0. /\ TypeOK /\ StageInv(l) /\ WayInv(l)
        /\ pc[l] \in {"unlock", "repair"} \cup Ended => place[l] # "staging"
    BY DEF BootstrapInv, TidyInv, NoLitter
  <1>1. ASSUME NEW k \in Shells, Open(k) \/ ShellStep(k) PROVE place'[l] # "staging"
    BY <1>0, <1>1 DEF Open, ShellStep, Flock, Test, MakeStaging, SetTrap, Run, ClearTrap,
      Unlock, Repair, TypeOK
  <1>2. ASSUME NEW k \in Shells, ChildStep(k) PROVE place'[l] # "staging"
    BY <1>0, <1>2 DEF ChildStep, CopyFile, CopyEnds, ChmodEnds, Rename, Fails, Ends, TypeOK
  <1>3. ASSUME NEW k \in Shells, CleanStep(k) PROVE place'[l] # "staging"
    BY <1>0, <1>3 DEF CleanStep, CleanOpen, CleanFile, CleanEnd, CleanerEnds, TypeOK
  <1>4. CASE UNCHANGED vars
    BY <1>0, <1>4 DEF vars
  <1> QED
    BY <1>1, <1>2, <1>3, <1>4 DEF Next, Kill, Term, Crash, PowerFails, WriteBack

\* No SIGTERM, no race.
LEMMA RaceStep ==
    ASSUME BootstrapInv, TidyInv, [Next]_vars PROVE OnlyTermRaces'
  <1> USE DEF Move, cleanVars, dirVars, powerVars
  <1>1. ASSUME NEW k \in Shells, Rename(k) PROVE OnlyTermRaces'
    BY <1>1 DEF Rename, TidyInv, OnlyTermRaces, WayInv
  <1>2. CASE raced' = raced /\ faults' = faults
    BY <1>2 DEF TidyInv, OnlyTermRaces
  <1> QED
    BY <1>1, <1>2 DEF Next, vars, Open, ShellStep, Flock, Test, MakeStaging, SetTrap, Run,
      ClearTrap, Unlock, Repair, ChildStep, CopyFile, CopyEnds, ChmodEnds, Fails, CleanStep,
      CleanOpen, CleanFile, CleanEnd, Kill, Term, Crash, PowerFails, AllEnd, WriteBack

\* The way of every shell, and what it leaves, is as described.
THEOREM TidyInvariance == Spec => []TidyInv
  <1>1. Init => TidyInv
    BY DEF Init, TidyInv, WayInv, OnlyTermRaces, NoLitter, Runs, Ended
  <1>2. BootstrapInv /\ TidyInv /\ [Next]_vars => TidyInv'
    BY WayStep, RaceStep, LitterStep DEF TidyInv
  <1> QED
    BY <1>1, <1>2, BootstrapInvariance, PTL DEF Spec

\* After a full disk, or beside another installer, no staging directory stays behind.
THEOREM NothingIsLeft == Spec => []NoLitter
  <1>1. TidyInv => NoLitter
    BY DEF TidyInv
  <1> QED
    BY <1>1, TidyInvariance, PTL

\* The name holds a whole bootstrap always, and no bootstrap is buried in it, unless a
\* shell alone gets a SIGTERM or the machine fails: SIGKILL, a full disk and the end of the
\* session do no harm.
THEOREM OnlyTermAndPowerHarm ==
    Spec => [](faults \cap {"term", "power"} = {} =>
                  /\ version # NoShell => content[version] = Files
                  /\ \A l \in Shells : place[l] # "nested")
  <1>1. BootstrapInv /\ TidyInv =>
            (faults \cap {"term", "power"} = {} =>
                /\ version # NoShell => content[version] = Files
                /\ \A l \in Shells : place[l] # "nested")
    BY DEF BootstrapInv, InstalledIsWhole, NeverNested, DiskInv, TidyInv, OnlyTermRaces
  <1> QED
    BY <1>1, BootstrapInvariance, TidyInvariance, PTL

---------------------------------------------------------------------------
\* The guards of what a shell that has the lock, its command or its trap can do next.
CanMove(l) ==
    \/ pc[l] \in Locked \ (DOMAIN Runs \cup {"cleaning"})
    \/ pc[l] \in DOMAIN Runs /\ child[l] = "none"
    \/ child[l] = "cp" /\ (left[l] = {} \/ place[l] \in {"staging", "none"})
    \/ child[l] = "chmod"
    \/ child[l] = "mv" /\ place[l] \in {"staging", "none"}
    \/ cleaner[l] \in {"begun", "open"}

\* The lock is nobody's, or belongs to a shell of which something still runs and can go on
\* whatever the others do: nobody waits in flock for a lock that a dead shell has kept.
LockIsLive == lock # NoShell => CanMove(lock)

\* The lock has a descriptor.
HeldInv == lock # NoShell => Active(lock)

\* A step that closes a descriptor looks for another one, and flock alone opens the first.
LEMMA HeldStep == BootstrapInv /\ HeldInv /\ [Next]_vars => HeldInv'
  <1> SUFFICES ASSUME BootstrapInv, HeldInv, [Next]_vars PROVE HeldInv'
    OBVIOUS
  <1> USE DEF HeldInv, Active, Move, cleanVars, dirVars, powerVars, Locked, Trapped, Runs, Ended
  <1>0. TypeOK
    BY DEF BootstrapInv
  <1>1. ASSUME Descriptors PROVE HeldInv'
    BY <1>0, <1>1, NoShellAssumption DEF Descriptors, Open9, TypeOK
  <1>2. ASSUME NEW k \in Shells,
               \/ Open(k) \/ Flock(k) \/ Test(k) \/ SetTrap(k) \/ Run(k) \/ ClearTrap(k)
               \/ Repair(k) \/ CopyFile(k) \/ CleanFile(k)
        PROVE  HeldInv'
    BY <1>0, <1>2, NoShellAssumption DEF Open, Flock, Test, SetTrap, Run, ClearTrap, Repair,
      CopyFile, CleanFile, TypeOK
  <1>3. ASSUME NEW k \in Shells, MakeStaging(k) PROVE HeldInv'
    BY <1>0, <1>1, <1>3 DEF MakeStaging, TypeOK
  <1>4. CASE Crash \/ PowerFails
    BY <1>4 DEF Crash, PowerFails, AllEnd
  <1>5. ASSUME UNCHANGED vars \/ \E k \in Shells : WriteBack(k) PROVE HeldInv'
    BY <1>5 DEF vars, WriteBack
  <1> QED
    BY <1>1, <1>2, <1>3, <1>4, <1>5 DEF Next, ShellStep, Unlock, ChildStep, CopyEnds,
      ChmodEnds, Rename, Fails, Ends, CleanStep, CleanOpen, CleanEnd, Kill, Term

\* Whoever holds the lock can go on, or what it left running can.
THEOREM LockIsLetGo == Spec => []LockIsLive
  <1>1. Init => HeldInv
    BY DEF Init, HeldInv
  <1>2. BootstrapInv /\ TidyInv /\ HeldInv => LockIsLive
    <2> SUFFICES ASSUME BootstrapInv, TidyInv, HeldInv, lock # NoShell PROVE CanMove(lock)
      BY DEF LockIsLive
    <2>1. lock \in Shells /\ Active(lock) /\ StageInv(lock) /\ WayInv(lock) /\ TypeOK
      BY DEF BootstrapInv, TidyInv, HeldInv, TypeOK
    <2>2. cleaner[lock] \in {"none", "begun", "open"} /\ child[lock] \in {"none", "cp", "chmod", "mv"}
      BY <2>1 DEF TypeOK
    <2>3. CASE cleaner[lock] # "none"
      BY <2>2, <2>3 DEF CanMove
    <2>4. CASE child[lock] # "none"
      BY <2>1, <2>2, <2>4 DEF CanMove, WayInv
    <2>5. CASE cleaner[lock] = "none" /\ child[lock] = "none"
      BY <2>1, <2>5 DEF CanMove, Active, WayInv
    <2> QED
      BY <2>3, <2>4, <2>5
  <1> QED
    BY <1>1, <1>2, HeldStep, BootstrapInvariance, TidyInvariance, PTL DEF Spec
=============================================================================
