------------------------- MODULE ContainerInitProofs -------------------------
(***************************************************************************)
(* Theorems about ContainerInit: what a service sees, and what inits leave *)
(* behind, for any number of inits, directories and kills.                 *)
(***************************************************************************)
EXTENDS ContainerInit, TLAPS

\* What is mounted in the namespace of an init, by how far it has got.
Sees(i) ==
    /\ inits[i].pc \in {"detach", "rmold", "proc", "exec", "python"}
          => mounts[Ns(i)].root = "rootfs"
    /\ inits[i].pc \in {"rmold", "proc", "exec", "python"} => ~mounts[Ns(i)].old
    /\ inits[i].pc \in {"exec", "python"} => mounts[Ns(i)].proc
    /\ inits[i].pc \notin {"none", "bind"} /\ inits[i].dir \in HostDirs
          => mounts[Ns(i)].app = inits[i].dir

IInv == TypeOK /\ (\A i \in Inits : Sees(i)) /\ OldrootRemoved

-----------------------------------------------------------------------------
\* The initial state.
LEMMA InitInv == Init => IInv
<1> SUFFICES ASSUME Init PROVE IInv
    OBVIOUS
<1>1. TypeOK
    <2>1. HostView \in Mounts
        BY DEF HostView, Mounts
    <2>2. oldroot \in BOOLEAN
        BY DEF Init
    <2>3. mounts \in [Inits -> Mounts]
        BY <2>1 DEF Init
    <2>4. /\ inits \in [Inits -> [pc : Steps, dir : Dirs \cup {Nil}]]
          /\ faults \in 0 .. MaxFaults
        BY MaxFaultsAssumption DEF Init, Steps
    <2> QED
        BY <2>2, <2>3, <2>4 DEF TypeOK
<1>2. ASSUME NEW i \in Inits PROVE Sees(i)
    <2>1. inits[i].pc = "none"
        BY DEF Init
    <2> QED
        BY <2>1 DEF Sees
<1>3. OldrootRemoved
    BY DEF Init, OldrootRemoved
<1> QED
    BY <1>1, <1>2, <1>3 DEF IInv

\* Every step keeps the state well-typed.
LEMMA NextTyped == TypeOK /\ [Next]_vars => TypeOK'
<1> SUFFICES ASSUME TypeOK, [Next]_vars PROVE TypeOK'
    OBVIOUS
<1> USE DirAssumption, MaxFaultsAssumption DEF TypeOK, Mounts, Steps, HostView, Goto, At, Ns
<1>1. ASSUME NEW i \in Inits, NEW d \in Dirs, Start(i, d) PROVE TypeOK'
    BY <1>1 DEF Start
<1>2. ASSUME NEW i \in Inits, BindApp(i) PROVE TypeOK'
    BY <1>2 DEF BindApp
<1>3. ASSUME NEW i \in Inits, MkOldroot(i) PROVE TypeOK'
    BY <1>3 DEF MkOldroot
<1>4. ASSUME NEW i \in Inits, PivotRoot(i) PROVE TypeOK'
    <2> DEFINE m == [mounts[i] EXCEPT !.root = "rootfs", !.old = TRUE]
    <2>1. mounts[i] \in Mounts
        OBVIOUS
    <2>2. /\ m \in Mounts /\ m.root = "rootfs"
          /\ m.app = mounts[i].app /\ m.proc = mounts[i].proc
        BY <2>1
    <2>3. mounts' = mounts \/ mounts' = [mounts EXCEPT ![i] = m]
        BY <1>4 DEF PivotRoot
    <2>4. mounts' \in [Inits -> Mounts]
        <3> HIDE DEF Mounts, m
        <3> QED
            BY <2>2, <2>3
    <2>5. /\ inits' \in [Inits -> [pc : Steps, dir : Dirs \cup {Nil}]]
          /\ oldroot' = oldroot /\ faults' = faults
        <3>1. /\ inits' = [inits EXCEPT ![i].pc = "detach"]
                    \/ inits' = [inits EXCEPT ![i].pc = "failed"]
              /\ oldroot' = oldroot /\ faults' = faults
            BY <1>4 DEF PivotRoot
        <3> QED
            BY <3>1
    <2> QED
        <3> HIDE DEF Mounts
        <3> QED
            BY <2>4, <2>5
<1>5. ASSUME NEW i \in Inits, Detach(i) PROVE TypeOK'
    BY <1>5 DEF Detach
<1>6. ASSUME NEW i \in Inits, RemoveOldroot(i) PROVE TypeOK'
    <2>1. \A n \in Inits : [mounts[n] EXCEPT !.old = FALSE] \in Mounts
        OBVIOUS
    <2>2. mounts' \in [Inits -> Mounts]
        <3> HIDE DEF Mounts
        <3> QED
            BY <1>6, <2>1 DEF RemoveOldroot
    <2> QED
        BY <1>6, <2>2 DEF RemoveOldroot
<1>7. ASSUME NEW i \in Inits, MountProc(i) PROVE TypeOK'
    BY <1>7 DEF MountProc
<1>8. ASSUME NEW i \in Inits, Exec(i) PROVE TypeOK'
    BY <1>8 DEF Exec
<1>9. ASSUME NEW i \in Inits, Ends(i) PROVE TypeOK'
    BY <1>9 DEF Ends
<1>10. ASSUME NEW i \in Inits, Killed(i) PROVE TypeOK'
    BY <1>10 DEF Killed
<1>11. CASE UNCHANGED vars
    BY <1>11 DEF vars
<1> QED
    BY <1>1, <1>2, <1>3, <1>4, <1>5, <1>6, <1>7, <1>8, <1>9, <1>10, <1>11 DEF Next, Step

\* No init spoils what another one sees: what is mounted in a namespace is changed
\* by its own init, and by the removal of .oldroot, which only ever hides more.
LEMMA NextSees ==
    TypeOK /\ (\A i \in Inits : Sees(i)) /\ [Next]_vars => \A i \in Inits : Sees(i)'
<1> SUFFICES ASSUME TypeOK, \A i \in Inits : Sees(i), [Next]_vars, NEW j \in Inits
             PROVE  Sees(j)'
    OBVIOUS
<1> USE DEF TypeOK, Mounts, Steps, HostView, Goto, At, Ns, Sees
<1>1. ASSUME NEW i \in Inits, NEW d \in Dirs, Start(i, d) PROVE Sees(j)'
    BY <1>1 DEF Start
<1>2. ASSUME NEW i \in Inits, BindApp(i) PROVE Sees(j)'
    BY <1>2 DEF BindApp
<1>3. ASSUME NEW i \in Inits, MkOldroot(i) PROVE Sees(j)'
    BY <1>3 DEF MkOldroot
<1>4. ASSUME NEW i \in Inits, PivotRoot(i) PROVE Sees(j)'
    <2> DEFINE m == [mounts[i] EXCEPT !.root = "rootfs", !.old = TRUE]
    <2>1. mounts[i] \in Mounts
        OBVIOUS
    <2>2. /\ m.root = "rootfs"
          /\ m.app = mounts[i].app /\ m.proc = mounts[i].proc
        BY <2>1
    <2>3. mounts' = mounts \/ mounts' = [mounts EXCEPT ![i] = m]
        BY <1>4 DEF PivotRoot
    <2> HIDE DEF m
    <2>4. CASE j = i
        <3>1. CASE oldroot
            <4>1. mounts' = [mounts EXCEPT ![i] = m]
                BY <1>4, <3>1 DEF PivotRoot, m
            <4>2. inits' = [inits EXCEPT ![i].pc = "detach"]
                BY <1>4, <3>1 DEF PivotRoot
            <4>3. mounts'[i] = m /\ inits'[i].pc = "detach" /\ inits'[i].dir = inits[i].dir
                BY <4>1, <4>2
            <4>4. inits[i].pc = "pivot"
                BY <1>4 DEF PivotRoot
            <4> QED
                BY <2>2, <2>4, <4>3, <4>4
        <3>2. CASE ~oldroot
            BY <1>4, <2>4, <3>2 DEF PivotRoot
        <3> QED
            BY <3>1, <3>2
    <2>5. CASE j # i
        BY <1>4, <2>3, <2>5 DEF PivotRoot
    <2> QED
        BY <2>4, <2>5
<1>5. ASSUME NEW i \in Inits, Detach(i) PROVE Sees(j)'
    BY <1>5 DEF Detach
<1>6. ASSUME NEW i \in Inits, RemoveOldroot(i) PROVE Sees(j)'
    BY <1>6 DEF RemoveOldroot
<1>7. ASSUME NEW i \in Inits, MountProc(i) PROVE Sees(j)'
    BY <1>7 DEF MountProc
<1>8. ASSUME NEW i \in Inits, Exec(i) PROVE Sees(j)'
    BY <1>8 DEF Exec
<1>9. ASSUME NEW i \in Inits, Ends(i) PROVE Sees(j)'
    BY <1>9 DEF Ends
<1>10. ASSUME NEW i \in Inits, Killed(i) PROVE Sees(j)'
    BY <1>10 DEF Killed
<1>11. CASE UNCHANGED vars
    BY <1>11 DEF vars
<1> QED
    BY <1>1, <1>2, <1>3, <1>4, <1>5, <1>6, <1>7, <1>8, <1>9, <1>10, <1>11 DEF Next, Step

\* Whoever creates .oldroot is still on its way to remove it, or has found it removed.
LEMMA NextRemoved ==
    TypeOK /\ (\A i \in Inits : Sees(i)) /\ OldrootRemoved /\ [Next]_vars => OldrootRemoved'
<1> DEFINE InWindow(i) == inits[i].pc \in {"pivot", "detach", "rmold"}
<1> SUFFICES ASSUME TypeOK, \A i \in Inits : Sees(i), OldrootRemoved, [Next]_vars,
                    oldroot', faults' = 0
             PROVE  \E i \in Inits : InWindow(i)'
    BY DEF OldrootRemoved
<1> USE DEF TypeOK, Steps, Goto, At
<1>1. ASSUME NEW i \in Inits, NEW d \in Dirs, Start(i, d) PROVE \E k \in Inits : InWindow(k)'
    BY <1>1 DEF Start, OldrootRemoved
<1>2. ASSUME NEW i \in Inits, BindApp(i) PROVE \E k \in Inits : InWindow(k)'
    BY <1>2 DEF BindApp, OldrootRemoved
<1>3. ASSUME NEW i \in Inits, MkOldroot(i) PROVE \E k \in Inits : InWindow(k)'
    BY <1>3 DEF MkOldroot
<1>4. ASSUME NEW i \in Inits, PivotRoot(i) PROVE \E k \in Inits : InWindow(k)'
    BY <1>4 DEF PivotRoot
<1>5. ASSUME NEW i \in Inits, Detach(i) PROVE \E k \in Inits : InWindow(k)'
    BY <1>5 DEF Detach
<1>6. ASSUME NEW i \in Inits, RemoveOldroot(i) PROVE \E k \in Inits : InWindow(k)'
    BY <1>6 DEF RemoveOldroot, Sees, Mounts, Ns
<1>7. ASSUME NEW i \in Inits, MountProc(i) PROVE \E k \in Inits : InWindow(k)'
    BY <1>7 DEF MountProc, OldrootRemoved
<1>8. ASSUME NEW i \in Inits, Exec(i) PROVE \E k \in Inits : InWindow(k)'
    BY <1>8 DEF Exec, OldrootRemoved
<1>9. ASSUME NEW i \in Inits, Ends(i) PROVE \E k \in Inits : InWindow(k)'
    BY <1>9 DEF Ends, OldrootRemoved
<1>10. ASSUME NEW i \in Inits, Killed(i) PROVE \E k \in Inits : InWindow(k)'
    BY <1>10, MaxFaultsAssumption DEF Killed
<1>11. CASE UNCHANGED vars
    BY <1>11 DEF vars, OldrootRemoved
<1> QED
    BY <1>1, <1>2, <1>3, <1>4, <1>5, <1>6, <1>7, <1>8, <1>9, <1>10, <1>11 DEF Next, Step

\* IInv is an invariant.
LEMMA Invariance == Spec => []IInv
<1>1. IInv /\ [Next]_vars => IInv'
    BY NextTyped, NextSees, NextRemoved DEF IInv
<1> QED
    BY <1>1, InitInv, PTL DEF Spec

-----------------------------------------------------------------------------
\* The directory and the inits are well-typed.
THEOREM TypeCorrect == Spec => []TypeOK
<1>1. IInv => TypeOK
    BY DEF IInv
<1> QED
    BY <1>1, Invariance, PTL

\* README.md:57-58: whatever the inits of other services do to the shared rootfs, a
\* service runs on rootfs, with the host's tree detached and its own /proc.
THEOREM HostFilesHidden == Spec => []HostHidden
<1>1. IInv => HostHidden
    BY DEF IInv, HostHidden, Sees, Service, At, TypeOK, Mounts, Ns
<1> QED
    BY <1>1, Invariance, PTL

\* README.md:55: what a service sees in /app is the directory of its own script.
THEOREM AppMounted == Spec => []AppOwn
<1>1. IInv => AppOwn
    BY DEF IInv, AppOwn, Sees, Service, At, TypeOK
<1> QED
    BY <1>1, Invariance, PTL

\* README.md:57: unless one is killed, the inits leave no .oldroot behind, although
\* some may find it removed by others.
THEOREM NothingLeft == Spec => []OldrootRemoved
<1>1. IInv => OldrootRemoved
    BY DEF IInv
<1> QED
    BY <1>1, Invariance, PTL
=============================================================================
