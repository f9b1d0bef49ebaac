---------------------------- MODULE ContainerInit ----------------------------
(***************************************************************************)
(* How a service gets its file system: RunContainerInit and pivotRoot of   *)
(* parser/service.go, run by the children of concurrent creates.           *)
(*                                                                         *)
(* Every init has a mount namespace of its own, so that what it mounts is  *)
(* seen by itself only.  (pivot_root refuses to work where mounts are      *)
(* shared with the host's namespace; the model is about hosts where they   *)
(* are not.)  What the inits share is the tree under rootfs on the disk,   *)
(* in which each creates and removes the same directory .oldroot, where    *)
(* the host's tree is put while the root is switched.  Almost every error  *)
(* is ignored.                                                             *)
(***************************************************************************)
EXTENDS Naturals

CONSTANTS
    Inits,     \* slots for container inits and the services they become
    Dirs,      \* directories that manifests name in their paths
    HostDirs,  \* those that exist on the host
    AppDir,    \* /app
    Nil,       \* no directory
    MaxFaults  \* bound on inits killed half-way

ASSUME DirAssumption == HostDirs \subseteq Dirs /\ Nil \notin Dirs
ASSUME MaxFaultsAssumption == MaxFaults \in Nat

VARIABLES
    oldroot,  \* whether rootfs/.oldroot exists
    inits,    \* how far the inits are, and the directory of their servicePath
    mounts,   \* what is mounted, in each mount namespace
    faults    \* inits killed so far

vars == <<oldroot, inits, mounts, faults>>

Steps == {"none", "bind", "mkold", "pivot", "detach", "rmold", "proc", "exec",
          "python",  \* the process has become the interpreter
          "failed"}  \* log.Fatalf

\* root: which tree is at /.  app: what is mounted on rootfs/app.  old: whether the
\* host's tree is mounted on .oldroot.  proc: whether /proc is that of the
\* service's own pid namespace.
Mounts   == [root : {"host", "rootfs"}, app : Dirs \cup {Nil}, old : BOOLEAN, proc : BOOLEAN]
HostView == [root |-> "host", app |-> Nil, old |-> FALSE, proc |-> FALSE]

\* Mutant of Ns: without CLONE_NEWNS.
SharedNs(i) == CHOOSE j \in Inits : TRUE

\* CLONE_NEWNS: a mount namespace for every init.
Ns(i) == i

TypeOK ==
    /\ oldroot \in BOOLEAN
    /\ inits \in [Inits -> [pc : Steps, dir : Dirs \cup {Nil}]]
    /\ mounts \in [Inits -> Mounts]
    /\ faults \in 0 .. MaxFaults

\* The rootfs of the repository has no .oldroot.
Init ==
    /\ oldroot = FALSE
    /\ inits = [i \in Inits |-> [pc |-> "none", dir |-> Nil]]
    /\ mounts = [i \in Inits |-> HostView]
    /\ faults = 0

-----------------------------------------------------------------------------
At(i, step)   == inits[i].pc = step
Goto(i, step) == inits' = [inits EXCEPT ![i].pc = step]
Working(i)    == inits[i].pc \notin {"none", "python", "failed"}

-----------------------------------------------------------------------------
(* RunContainerInit *)

\* execPythonService starts an init with the path of the manifest.
Start(i, d) ==
    /\ At(i, "none")
    /\ inits' = [inits EXCEPT ![i] = [pc |-> "bind", dir |-> d]]
    /\ UNCHANGED <<oldroot, mounts, faults>>

\* rootfs/app is created, if it is not there, and never removed.  The mount on it
\* fails unnoticed if the host has no such directory.  Then rootfs is mounted on
\* itself.
BindApp(i) ==
    /\ At(i, "bind")
    /\ mounts' = IF inits[i].dir \in HostDirs
                 THEN [mounts EXCEPT ![Ns(i)].app = inits[i].dir] ELSE mounts
    /\ Goto(i, "mkold")
    /\ UNCHANGED <<oldroot, faults>>

\* Mutant of MkOldroot: os.Mkdir, with its error taken seriously.
MkOldrootStrict(i) ==
    /\ At(i, "mkold")
    /\ oldroot' = TRUE
    /\ Goto(i, IF oldroot THEN "failed" ELSE "pivot")
    /\ UNCHANGED <<mounts, faults>>

\* MkdirAll is content with a directory that is there already.
MkOldroot(i) ==
    /\ At(i, "mkold")
    /\ oldroot' = TRUE
    /\ Goto(i, "pivot")
    /\ UNCHANGED <<mounts, faults>>

\* It takes the directory to put the host's tree on.
PivotRoot(i) ==
    /\ At(i, "pivot")
    /\ IF oldroot
       THEN /\ mounts' = [mounts EXCEPT ![Ns(i)] = [@ EXCEPT !.root = "rootfs", !.old = TRUE]]
            /\ Goto(i, "detach")
       ELSE UNCHANGED mounts /\ Goto(i, "failed")
    /\ UNCHANGED <<oldroot, faults>>

\* Mutant of Detach: the mount at / goes.
DetachRoot(i) ==
    /\ At(i, "detach")
    /\ mounts' = [mounts EXCEPT ![Ns(i)].root = "nothing"]
    /\ Goto(i, "rmold")
    /\ UNCHANGED <<oldroot, faults>>

\* Mutant of Detach: the unmount is busy, because it is not a lazy one.
DetachBusy(i) ==
    /\ At(i, "detach")
    /\ Goto(i, "rmold")
    /\ UNCHANGED <<oldroot, mounts, faults>>

\* Unmount with MNT_DETACH; nothing is mounted there if another init has removed
\* the directory.
Detach(i) ==
    /\ At(i, "detach")
    /\ mounts' = [mounts EXCEPT ![Ns(i)].old = FALSE]
    /\ Goto(i, "rmold")
    /\ UNCHANGED <<oldroot, faults>>

\* Mutant of RemoveOldroot: left out.
KeepOldroot(i) ==
    /\ At(i, "rmold")
    /\ Goto(i, "proc")
    /\ UNCHANGED <<oldroot, mounts, faults>>

\* rmdir fails unnoticed on a mount point of its own namespace.  In all others the
\* kernel detaches what is mounted on the directory.
RemoveOldroot(i) ==
    /\ At(i, "rmold")
    /\ IF mounts[Ns(i)].old
       THEN UNCHANGED <<oldroot, mounts>>
       ELSE /\ oldroot' = FALSE
            /\ mounts' = [n \in Inits |-> [mounts[n] EXCEPT !.old = FALSE]]
    /\ Goto(i, "proc")
    /\ UNCHANGED faults

\* A fresh procfs on /proc.
MountProc(i) ==
    /\ At(i, "proc")
    /\ mounts' = [mounts EXCEPT ![Ns(i)].proc = TRUE]
    /\ Goto(i, "exec")
    /\ UNCHANGED <<oldroot, faults>>

\* The interpreter of rootfs replaces the init, with servicePath as it was given.
Exec(i) ==
    /\ At(i, "exec")
    /\ Goto(i, "python")
    /\ UNCHANGED <<oldroot, mounts, faults>>

-----------------------------------------------------------------------------
(* The environment *)

\* A service or a failed init ends; its mount namespace ends with it.
Ends(i) ==
    /\ inits[i].pc \in {"python", "failed"}
    /\ inits' = [inits EXCEPT ![i] = [pc |-> "none", dir |-> Nil]]
    /\ mounts' = [mounts EXCEPT ![Ns(i)] = HostView]
    /\ UNCHANGED <<oldroot, faults>>

\* delete, or anybody else, kills an init before it is done.
Killed(i) ==
    /\ Working(i) /\ faults < MaxFaults
    /\ faults' = faults + 1
    /\ inits' = [inits EXCEPT ![i] = [pc |-> "none", dir |-> Nil]]
    /\ mounts' = [mounts EXCEPT ![Ns(i)] = HostView]
    /\ UNCHANGED oldroot

-----------------------------------------------------------------------------
Step(i) == \/ BindApp(i) \/ MkOldroot(i) \/ PivotRoot(i) \/ Detach(i)
           \/ RemoveOldroot(i) \/ MountProc(i) \/ Exec(i)

Next == \E i \in Inits :
            \/ \E d \in Dirs : Start(i, d)
            \/ Step(i)
            \/ Ends(i)
            \/ Killed(i)

\* An init that has been started goes on: each of its steps is a system call.
Fairness == \A i \in Inits : WF_vars(Step(i))

Spec == Init /\ [][Next]_vars /\ Fairness

-----------------------------------------------------------------------------
(* Properties *)

Service(i) == At(i, "python")

\* README.md:57-58: a service is "air-gapped from host files", although an ignored
\* error anywhere in between would leave it with the host's tree or process table,
\* and although other inits remove the directory it puts the host's tree on.
HostHidden ==
    \A i \in Inits :
        Service(i) => mounts[Ns(i)] = [root |-> "rootfs", app |-> mounts[Ns(i)].app,
                                       old |-> FALSE, proc |-> TRUE]

\* README.md:55: the directory of its own script is what a service sees in /app,
\* although all services use the one directory rootfs/app.
AppOwn ==
    \A i \in Inits :
        Service(i) /\ inits[i].dir \in HostDirs => mounts[Ns(i)].app = inits[i].dir

\* README.md:57, "and removed": inits that share .oldroot, remove each other's and
\* fail because of it leave none behind, unless one is killed.
OldrootRemoved ==
    oldroot /\ faults = 0 => \E i \in Inits : inits[i].pc \in {"pivot", "detach", "rmold"}

\* An init that nobody kills and that no other init overlaps with becomes a service,
\* whatever earlier ones have left on the disk.
Alone(i) == \A j \in Inits \ {i} : ~Working(j)
AloneSucceeds ==
    \A i \in Inits :
        At(i, "bind") /\ Alone(i) ~> Service(i) \/ ~Alone(i) \/ At(i, "none")

\* service.go:23: bind-mounting makes "the Python script accessible inside the
\* container": the path python is given is one that exists there.
ScriptAccessible ==
    \A i \in Inits :
        Service(i) /\ inits[i].dir \in HostDirs =>
            inits[i].dir = AppDir /\ mounts[Ns(i)].app = AppDir
=============================================================================
