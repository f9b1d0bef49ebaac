-------------------------- MODULE PaasAddressProofs --------------------------
(***************************************************************************)
(* Paas implements AddressLease, for any number of commands, manifests,    *)
(* process ids and addresses, when the commands for one name are run one   *)
(* after the other, nothing fails and every manifest can be carried out.   *)
(*                                                                         *)
(* The address of a workload is in three places in turn: in its create, in *)
(* its registry entry, and in the entry that its delete has read.  The     *)
(* lemmas HeldByCreate, HeldByDelete and HeldByEntry compute it in each;   *)
(* SameHeld says when a step leaves it alone.  Moves then sums every step  *)
(* up as a grant, a return, a return that is lost to a conflict with       *)
(* another command, or a step that moves no address; all that is proved    *)
(* about addresses rests on these four moves.                              *)
(***************************************************************************)
EXTENDS PaasProofs

\* Every manifest has a type and a technology that are implemented.  Of the
\* others, one takes an address for nothing and one is registered with pid 0.
Implemented == \A m \in Manifests : m.type # "other" /\ m.supported

\* AddressOf[k], as a function of the commands and the registry.
HeldIn(cs, reg, k) ==
    IF \E c \in Cmds : cs[c].key = k /\ cs[c].m # Nil
    THEN cs[CHOOSE c \in Cmds : cs[c].key = k /\ cs[c].m # Nil].ip
    ELSE IF reg[k] = Nil
            \/ \E c \in Cmds : cs[c].key = k /\ ~(cs[c].pc = "release")
    THEN NoIp
    ELSE reg[k].ip

\* Only command c is about k.
Alone(cs, c, k) == \A d \in Cmds : cs[d].key = k => d = c

\* Every entry names a process, and so will the one that is being written.
HasPids ==
    /\ \A k \in Keys : registry[k] # Nil => registry[k].pid # Nil
    /\ \A c \in Cmds : cli[c].pc = "register" => cli[c].pid # Nil

\* Commands are run one at a time.
OneAtATime == \A c, d \in Cmds : c = d

\* The pool and the workloads agree: what a workload has is allocated, no two have
\* the same, and with one command at a time nothing else is allocated.
Allocated == \A k \in Keys : AddressOf[k] # NoIp => AddressOf[k] \in ips
Distinct  == \A j, k \in Keys :
                j # k /\ AddressOf[j] = AddressOf[k] => AddressOf[j] = NoIp
NoneLost  == \A a \in ips : a \in {BridgeIp, EnvoyIp} \/ \E k \in Keys : AddressOf[k] = a

\* The inductive invariant behind addresses.
HInv == HasPids /\ Allocated /\ Distinct /\ (OneAtATime => NoneLost)

\* What a step may do to the addresses.
GrantMove(k, a) ==
    /\ AddressOf[k] = NoIp /\ a \in Hosts \ ips
    /\ ips' = ips \cup {a}
    /\ AddressOf' = [AddressOf EXCEPT ![k] = a]
ReturnMove(k) ==
    /\ ips' = ips \ {AddressOf[k]}
    /\ AddressOf' = [AddressOf EXCEPT ![k] = NoIp]
LoseMove(c) ==
    /\ cli[c].pc = "release" /\ cli'[c].pc = "kill" /\ Contended(c)
    /\ cli[c].key \in Keys /\ cli[c].entry.ip = AddressOf[cli[c].key]
    /\ ips' = ips
    /\ AddressOf' = [AddressOf EXCEPT ![cli[c].key] = NoIp]
NoMove ==
    /\ AddressOf' = AddressOf
    /\ ips' = ips \/ ips' = ips \cup {EnvoyIp}
Moves ==
    \/ \E k \in Keys, a \in Hosts : GrantMove(k, a)
    \/ \E k \in Keys : ReturnMove(k)
    \/ \E c \in Cmds : LoseMove(c)
    \/ NoMove

-----------------------------------------------------------------------------
(* The address of one workload *)

LEMMA HeldDef == AddressOf = [k \in Keys |-> HeldIn(cli, registry, k)]
  BY DEF AddressOf, HeldIn, At

LEMMA HeldByCreate ==
  ASSUME NEW cs, NEW reg, NEW c \in Cmds, NEW k, Alone(cs, c, k),
         cs[c].key = k, cs[c].m # Nil
  PROVE  HeldIn(cs, reg, k) = cs[c].ip
<1>. DEFINE P(d) == cs[d].key = k /\ cs[d].m # Nil
<1>1. (CHOOSE d \in Cmds : P(d)) \in Cmds /\ P(CHOOSE d \in Cmds : P(d))
  <2>1. \E d \in Cmds : P(d)
    OBVIOUS
  <2>. HIDE DEF P
  <2>. QED
    BY <2>1
<1>2. (CHOOSE d \in Cmds : P(d)) = c
  BY <1>1 DEF Alone
<1>. QED
  BY <1>2 DEF HeldIn

LEMMA HeldByDelete ==
  ASSUME NEW cs, NEW reg, NEW c \in Cmds, NEW k, Alone(cs, c, k),
         cs[c].key = k, cs[c].m = Nil
  PROVE  /\ reg[k] = Nil \/ cs[c].pc # "release" => HeldIn(cs, reg, k) = NoIp
         /\ reg[k] # Nil /\ cs[c].pc = "release" => HeldIn(cs, reg, k) = reg[k].ip
  BY DEF HeldIn, Alone

LEMMA HeldByEntry ==
  ASSUME NEW cs, NEW reg, NEW k, \A c \in Cmds : cs[c].key # k
  PROVE  HeldIn(cs, reg, k) = IF reg[k] = Nil THEN NoIp ELSE reg[k].ip
  BY DEF HeldIn

\* A workload keeps its address if its entry and the command about it do.
LEMMA SameHeld ==
  ASSUME NEW cs, NEW ds, NEW reg, NEW reh, NEW k, reh[k] = reg[k],
         \A c, d \in Cmds : c # d /\ cs[c].key = k => cs[d].key # k,
         \A c \in Cmds :
            \/ ds[c] = cs[c]
            \/ cs[c].key # k /\ ds[c].key # k
            \/ /\ ds[c].key = cs[c].key /\ ds[c].m = cs[c].m
               /\ ds[c].m # Nil => ds[c].ip = cs[c].ip
               /\ ds[c].m = Nil => (cs[c].pc = "release" <=> ds[c].pc = "release")
  PROVE  HeldIn(ds, reh, k) = HeldIn(cs, reg, k)
<1>1. CASE \A c \in Cmds : cs[c].key # k
  <2>1. \A c \in Cmds : ds[c].key # k
    BY <1>1
  <2>. QED
    BY <1>1, <2>1, HeldByEntry
<1>2. ASSUME NEW c \in Cmds, cs[c].key = k
      PROVE  HeldIn(ds, reh, k) = HeldIn(cs, reg, k)
  <2>1. Alone(cs, c, k) /\ Alone(ds, c, k) /\ ds[c].key = k /\ ds[c].m = cs[c].m
    BY <1>2 DEF Alone
  <2>2. CASE cs[c].m # Nil
    <3>1. HeldIn(cs, reg, k) = cs[c].ip /\ HeldIn(ds, reh, k) = ds[c].ip
      BY <1>2, <2>1, <2>2, HeldByCreate
    <3>2. ds[c].ip = cs[c].ip
      BY <1>2, <2>1, <2>2
    <3>. QED
      BY <3>1, <3>2
  <2>3. CASE cs[c].m = Nil
    <3>1. /\ reg[k] = Nil \/ cs[c].pc # "release" => HeldIn(cs, reg, k) = NoIp
          /\ reg[k] # Nil /\ cs[c].pc = "release" => HeldIn(cs, reg, k) = reg[k].ip
      BY <1>2, <2>1, <2>3, HeldByDelete
    <3>2. /\ reh[k] = Nil \/ ds[c].pc # "release" => HeldIn(ds, reh, k) = NoIp
          /\ reh[k] # Nil /\ ds[c].pc = "release" => HeldIn(ds, reh, k) = reh[k].ip
      BY <1>2, <2>1, <2>3, HeldByDelete
    <3>3. cs[c].pc = "release" <=> ds[c].pc = "release"
      BY <1>2, <2>1, <2>3
    <3>. QED
      BY <3>1, <3>2, <3>3
  <2>. QED
    BY <2>2, <2>3
<1>. QED
  BY <1>1, <1>2

\* One workload's address changes to a, or none does.
LEMMA OneHeld ==
  ASSUME NEW k \in Keys, NEW a, HeldIn(cli', registry', k) = a,
         \A j \in Keys \ {k} : HeldIn(cli', registry', j) = HeldIn(cli, registry, j)
  PROVE  AddressOf' = [AddressOf EXCEPT ![k] = a]
<1>1. AddressOf' = [j \in Keys |-> HeldIn(cli', registry', j)]
  BY DEF AddressOf, HeldIn, At
<1>. QED
  BY <1>1, HeldDef

LEMMA NoneHeld ==
  ASSUME \A j \in Keys : HeldIn(cli', registry', j) = HeldIn(cli, registry, j)
  PROVE  AddressOf' = AddressOf
<1>1. AddressOf' = [j \in Keys |-> HeldIn(cli', registry', j)]
  BY DEF AddressOf, HeldIn, At
<1>. QED
  BY <1>1, HeldDef

-----------------------------------------------------------------------------
(* What the steps do to addresses *)

LEMMA NoFault == ASSUME TypeOK, MaxFaults = 0 PROVE ~Fault
  BY DEF TypeOK, Fault

LEMMA GotoDetails ==
  ASSUME TypeOK, NEW c \in Cmds, NEW s \in Steps, Goto(c, s)
  PROVE  cli'[c].ip = cli[c].ip /\ cli'[c].pc = s
  BY DEF TypeOK, Goto, Commands

\* A step that only moves a command on keeps the command's address; a command
\* reaches the registry from the bridge.
LEMMA QuietDetails ==
  ASSUME TInv, NEW c \in Cmds, QuietStep(c)
  PROVE  /\ cli'[c].ip = cli[c].ip
         /\ cli'[c].pc # "release"
         /\ cli'[c].pc = "register" => cli[c].pc = "link"
         /\ \/ /\ cli[c].pc # "release"
               /\ ips' = ips \/ ips' = ips \cup {EnvoyIp}
            \/ ReleaseIp(c)
<1>0. TypeOK /\ cli[c] \in Commands
  BY DEF TInv, TypeOK
<1>1. CASE /\ cli[c].pc # "release" /\ UNCHANGED ips
           /\ \E s \in Steps \ {"release", "register"} : Goto(c, s)
  BY <1>0, <1>1, GotoDetails
<1>2. CASE WriteFragment(c) \/ CreateConfig(c) \/ RenderConfig(c) \/ StopExisting(c)
           \/ WritePidFile(c) \/ RemovePidFile(c) \/ RemoveFragment(c)
  BY <1>1, <1>2 DEF WriteFragment, CreateConfig, RenderConfig, StopExisting,
                    WritePidFile, RemovePidFile, RemoveFragment, At, Steps, disk
<1>3. CASE StopEnvoy(c)
  BY <1>1, <1>3 DEF StopEnvoy, At, Steps
<1>4. CASE ReadFragments(c)
  <2>. DEFINE r == [cli[c] EXCEPT !.pc = "truncate", !.seen = frags]
  <2>1. r.ip = cli[c].ip /\ r.pc = "truncate"
    BY <1>0 DEF Commands
  <2>2. cli' = [cli EXCEPT ![c] = r] /\ cli[c].pc = "read" /\ UNCHANGED ips
    BY <1>0, <1>4 DEF ReadFragments, At, TypeOK
  <2>. HIDE DEF r
  <2>3. cli'[c] = r
    BY <1>0, <2>2 DEF TypeOK
  <2>. QED
    BY <2>1, <2>2, <2>3
<1>5. CASE SpawnEnvoy(c)
  <2>1. cli[c].pc = "spawn" /\ UNCHANGED ips
    BY <1>5 DEF SpawnEnvoy, At
  <2>2. CASE Goto(c, AfterEnvoy(c))
    <3>1. AfterEnvoy(c) \in Steps \ {"release", "register"}
      BY DEF AfterEnvoy, Steps
    <3>. QED
      BY <1>1, <2>1, <2>2, <3>1
  <2>3. ASSUME NEW p \in FreePids,
               cli' = [cli EXCEPT ![c].envoy = p, ![c].pc = "writepid"]
        PROVE  cli'[c].ip = cli[c].ip /\ cli'[c].pc = "writepid"
    <3>. DEFINE r == [cli[c] EXCEPT !.envoy = p, !.pc = "writepid"]
    <3>1. r.ip = cli[c].ip /\ r.pc = "writepid"
      BY <1>0 DEF Commands
    <3>2. cli' = [cli EXCEPT ![c] = r]
      BY <1>0, <2>3 DEF TypeOK
    <3>. HIDE DEF r
    <3>3. cli'[c] = r
      BY <1>0, <3>2 DEF TypeOK
    <3>. QED
      BY <3>1, <3>3
  <2>. QED
    BY <1>5, <2>1, <2>2, <2>3 DEF SpawnEnvoy
<1>6. CASE ConnectEnvoy(c)
  <2>1. AfterEnvoy(c) \in Steps \ {"release", "register"} /\ Goto(c, AfterEnvoy(c))
    BY <1>6 DEF ConnectEnvoy, AfterEnvoy, Steps
  <2>2. cli[c].pc = "join" /\ (ips' = ips \/ ips' = ips \cup {EnvoyIp})
    BY <1>6 DEF ConnectEnvoy, At
  <2>. QED
    BY <1>0, <2>1, <2>2, GotoDetails
<1>7. CASE ConnectWorkload(c)
  <2>1. Goto(c, "register") /\ "register" \in Steps /\ cli[c].pc = "link" /\ UNCHANGED ips
    BY <1>7 DEF ConnectWorkload, At, Steps
  <2>. QED
    BY <1>0, <2>1, GotoDetails
<1>8. CASE ReleaseIp(c)
  <2>1. Goto(c, "kill") /\ "kill" \in Steps
    BY <1>8 DEF ReleaseIp, Steps
  <2>. QED
    BY <1>0, <1>8, <2>1, GotoDetails
<1>. QED
  BY <1>2, <1>3, <1>4, <1>5, <1>6, <1>7, <1>8 DEF QuietStep

\* A command that keeps what it carries, away from the release, moves no address.
LEMMA KeepsAddresses ==
  ASSUME DInv, NEW c \in Cmds, Keeps(c), UNCHANGED registry,
         cli'[c].ip = cli[c].ip,
         cli[c].pc = "release" <=> cli'[c].pc = "release"
  PROVE  AddressOf' = AddressOf
<1>1. ASSUME NEW k \in Keys
      PROVE  HeldIn(cli', registry', k) = HeldIn(cli, registry, k)
  <2>1. registry'[k] = registry[k]
    OBVIOUS
  <2>2. \A x, y \in Cmds : x # y /\ cli[x].key = k => cli[y].key # k
    BY KeyAssumption DEF DInv, OneCommand
  <2>3. \A x \in Cmds :
            \/ cli'[x] = cli[x]
            \/ cli[x].key # k /\ cli'[x].key # k
            \/ /\ cli'[x].key = cli[x].key /\ cli'[x].m = cli[x].m
               /\ cli'[x].m # Nil => cli'[x].ip = cli[x].ip
               /\ cli'[x].m = Nil => (cli[x].pc = "release" <=> cli'[x].pc = "release")
    BY DEF Keeps
  <2>. QED
    BY <2>1, <2>2, <2>3, SameHeld
<1>. QED
  BY <1>1, NoneHeld

\* A command about one workload leaves the addresses of the others alone.
LEMMA OthersHeld ==
  ASSUME DInv, NEW c \in Cmds, NEW k \in Keys, NEW j \in Keys \ {k},
         \A d \in Cmds \ {c} : cli'[d] = cli[d],
         cli[c].key \in {k, Nil}, cli'[c].key \in {k, Nil},
         registry'[j] = registry[j]
  PROVE  HeldIn(cli', registry', j) = HeldIn(cli, registry, j)
<1>1. \A x, y \in Cmds : x # y /\ cli[x].key = j => cli[y].key # j
  BY KeyAssumption DEF DInv, OneCommand
<1>2. \A x \in Cmds : cli'[x] = cli[x] \/ (cli[x].key # j /\ cli'[x].key # j)
  BY KeyAssumption
<1>. QED
  BY <1>1, <1>2, SameHeld

\* create: the address is granted if there is one.
LEMMA RunCreateMoves ==
  ASSUME OnePerName, MaxFaults = 0, Implemented, TInv, DInv, redisUp, HasPids,
         NEW c \in Cmds, NEW m \in Manifests, RunCreate(c, m)
  PROVE  /\ NoMove \/ \E k \in Keys, a \in Hosts : GrantMove(k, a)
         /\ HasPids'
<1>. DEFINE k == KeyOf(m)
<1>1. /\ m.type # "other" /\ m.supported /\ cli[c].pc = "idle" /\ UNCHANGED registry
      /\ registry[k] = Nil /\ Undisturbed(k) /\ k \in Keys
  BY DEF Implemented, RunCreate, At, Keys
<1>2. PICK a \in Subnet \cup {NoIp} :
         /\ GetIp(c, a)
         /\ cli' = [cli EXCEPT ![c] = [Idle EXCEPT
                      !.pc = IF ~m.supported THEN "register"
                             ELSE IF m.lb THEN "fragment" ELSE "start",
                      !.m = m, !.key = KeyOf(m), !.ip = a]]
  BY <1>1 DEF RunCreate
<1>. HIDE DEF k
<1>3. \/ a \in Hosts \ ips /\ ips' = ips \cup {a}
      \/ a = NoIp /\ ips' = ips
  BY <1>2, NoFault DEF GetIp, LowestFree, TInv
<1>4. /\ cli'[c].key = k /\ cli'[c].m = m /\ cli'[c].ip = a /\ cli'[c].pc # "register"
      /\ \A d \in Cmds \ {c} : cli'[d] = cli[d]
  <2>. DEFINE r == [Idle EXCEPT
                      !.pc = IF ~m.supported THEN "register"
                             ELSE IF m.lb THEN "fragment" ELSE "start",
                      !.m = m, !.key = KeyOf(m), !.ip = a]
  <2>1. r.key = k /\ r.m = m /\ r.ip = a /\ r.pc # "register"
    BY <1>1 DEF Idle, k
  <2>2. cli' = [cli EXCEPT ![c] = r]
    BY <1>2
  <2>. HIDE DEF r
  <2>. QED
    BY <2>1, <2>2 DEF TInv, TypeOK
<1>5. AddressOf[k] = NoIp
  BY <1>1, HeldByEntry, HeldDef DEF Undisturbed
<1>6. AddressOf' = [AddressOf EXCEPT ![k] = a]
  <2>1. m # Nil /\ cli[c].key = Nil
    BY <1>1, NilAssumption
       DEF TInv, Shape, WellFormed, CreateSteps, DeleteSteps, EnvoySteps
  <2>2. Alone(cli', c, k)
    BY <1>1, <1>4 DEF Alone, Undisturbed
  <2>3. HeldIn(cli', registry', k) = a
    BY <1>4, <2>1, <2>2, HeldByCreate
  <2>4. \A j \in Keys \ {k} : HeldIn(cli', registry', j) = HeldIn(cli, registry, j)
    BY <1>1, <1>4, <2>1, OthersHeld
  <2>. QED
    BY <1>1, <2>3, <2>4, OneHeld
<1>7. HasPids'
  BY <1>1, <1>4 DEF HasPids
<1>8. CASE a = NoIp /\ ips' = ips
  <2>1. AddressOf' = AddressOf
    BY <1>1, <1>5, <1>6, <1>8, HeldDef
  <2>. QED
    BY <1>7, <1>8, <2>1 DEF NoMove
<1>9. CASE a \in Hosts \ ips /\ ips' = ips \cup {a}
  BY <1>1, <1>5, <1>6, <1>7, <1>9 DEF GrantMove
<1>. QED
  BY <1>3, <1>8, <1>9

\* delete: the address stays in the entry.
LEMMA RunDeleteMoves ==
  ASSUME OnePerName, TInv, DInv, HasPids, NEW c \in Cmds, NEW k \in Keys, RunDelete(c, k)
  PROVE  NoMove /\ HasPids'
<1>1. /\ cli[c].pc = "idle" /\ UNCHANGED <<registry, ips>> /\ Undisturbed(k)
      /\ registry[k] # Nil
  BY DEF RunDelete, At
<1>2. /\ cli'[c].key = k /\ cli'[c].m = Nil /\ cli'[c].pc = "release"
      /\ \A d \in Cmds \ {c} : cli'[d] = cli[d]
  <2>. DEFINE r == [Idle EXCEPT !.pc = "release", !.key = k, !.entry = registry[k]]
  <2>1. r.key = k /\ r.m = Nil /\ r.pc = "release"
    BY DEF Idle
  <2>2. cli' = [cli EXCEPT ![c] = r]
    BY DEF RunDelete
  <2>. HIDE DEF r
  <2>. QED
    BY <2>1, <2>2 DEF TInv, TypeOK
<1>3. cli[c].key = Nil
  BY <1>1 DEF TInv, Shape, WellFormed, CreateSteps, DeleteSteps, EnvoySteps
<1>4. HeldIn(cli, registry, k) = registry[k].ip
  BY <1>1, HeldByEntry DEF Undisturbed
<1>5. Alone(cli', c, k)
  BY <1>1, <1>2 DEF Alone, Undisturbed
<1>6. HeldIn(cli', registry', k) = registry[k].ip
  <2>1. registry'[k] = registry[k]
    BY <1>1
  <2>. QED
    BY <1>1, <1>2, <1>5, <2>1, HeldByDelete
<1>7. \A j \in Keys \ {k} : HeldIn(cli', registry', j) = HeldIn(cli, registry, j)
  BY <1>1, <1>2, <1>3, OthersHeld
<1>8. AddressOf' = AddressOf
  BY <1>4, <1>6, <1>7, NoneHeld
<1>. QED
  BY <1>1, <1>2, <1>8 DEF NoMove, HasPids

\* Starting the workload.
LEMMA ExecMoves ==
  ASSUME TInv, DInv, HasPids, NEW c \in Cmds, ExecPythonService(c) \/ ExecPostgreSQL(c)
  PROVE  NoMove /\ HasPids'
<1>1. PICK p \in FreePids, next \in {"link", "register"} : StartWorkload(c, p, next)
  BY DEF ExecPythonService, ExecPostgreSQL
<1>2. cli[c] \in Commands /\ cli[c].pc = "start" /\ p # Nil /\ UNCHANGED <<registry, ips>>
  BY <1>1, NilAssumption
     DEF TInv, TypeOK, ExecPythonService, ExecPostgreSQL, At, FreePids, StartWorkload
<1>. DEFINE r == [cli[c] EXCEPT !.pid = p, !.pc = next]
<1>3. r.ip = cli[c].ip /\ r.pc = next /\ r.pid = p /\ r.key = cli[c].key /\ r.m = cli[c].m
  BY <1>2 DEF Commands
<1>4. cli' = [cli EXCEPT ![c] = r]
  BY <1>1 DEF StartWorkload, TInv, TypeOK
<1>. HIDE DEF r
<1>5. cli'[c] = r /\ \A d \in Cmds \ {c} : cli'[d] = cli[d]
  BY <1>4 DEF TInv, TypeOK
<1>6. ASSUME NEW k \in Keys
      PROVE  HeldIn(cli', registry', k) = HeldIn(cli, registry, k)
  <2>1. registry'[k] = registry[k]
    BY <1>2
  <2>2. \A x, y \in Cmds : x # y /\ cli[x].key = k => cli[y].key # k
    BY KeyAssumption DEF DInv, OneCommand
  <2>3. /\ cli'[c].key = cli[c].key /\ cli'[c].m = cli[c].m /\ cli'[c].ip = cli[c].ip
        /\ ~(cli[c].pc = "release") /\ ~(cli'[c].pc = "release")
    BY <1>2, <1>3, <1>5
  <2>4. \A x \in Cmds :
            \/ cli'[x] = cli[x]
            \/ cli[x].key # k /\ cli'[x].key # k
            \/ /\ cli'[x].key = cli[x].key /\ cli'[x].m = cli[x].m
               /\ cli'[x].m # Nil => cli'[x].ip = cli[x].ip
               /\ cli'[x].m = Nil => (cli[x].pc = "release" <=> cli'[x].pc = "release")
    BY <1>5, <2>3
  <2>. QED
    BY <2>1, <2>2, <2>4, SameHeld
<1>7. HasPids'
  BY <1>2, <1>3, <1>5 DEF HasPids
<1>. QED
  BY <1>2, <1>6, <1>7, NoneHeld DEF NoMove

\* Delete gives the address back first of all, or fails to because of a conflict.
LEMMA ReleaseMoves ==
  ASSUME TInv, DInv, redisUp, MaxFaults = 0, NEW c \in Cmds, ReleaseIp(c)
  PROVE  cli[c].key \in Keys /\ (ReturnMove(cli[c].key) \/ LoseMove(c))
<1>. DEFINE k == cli[c].key
<1>1. /\ cli[c].pc = "release" /\ cli[c].m = Nil /\ k \in Keys /\ cli[c].entry \in Entries
      /\ \/ ips' = ips \ {cli[c].entry.ip}
         \/ ips' = ips /\ Contended(c)
      /\ UNCHANGED registry /\ Goto(c, "kill")
  BY NoFault
     DEF ReleaseIp, At, TInv, Shape, WellFormed, CreateSteps, DeleteSteps, EnvoySteps
<1>2. registry[k] = cli[c].entry /\ registry[k] # Nil
  BY <1>1, EntryAssumption DEF DInv, EntryHeld
<1>3. Keeps(c) /\ cli'[c].pc = "kill"
  BY <1>1, GotoEffect DEF TInv, Steps
<1>. HIDE DEF k
<1>4. Alone(cli, c, k) /\ Alone(cli', c, k) /\ cli[c].key = k /\ cli'[c].key = k
  BY <1>1, <1>3, KeyAssumption DEF Alone, DInv, OneCommand, Keeps, k
<1>5. HeldIn(cli, registry, k) = registry[k].ip
  BY <1>1, <1>2, <1>4, HeldByDelete
<1>6. HeldIn(cli', registry', k) = NoIp
  <2>1. cli'[c].m = Nil /\ cli'[c].pc # "release"
    BY <1>1, <1>3 DEF Keeps
  <2>. QED
    BY <1>4, <2>1, HeldByDelete
<1>7. \A j \in Keys \ {k} : HeldIn(cli', registry', j) = HeldIn(cli, registry, j)
  BY <1>1, <1>3, <1>4, OthersHeld DEF Keeps
<1>8. AddressOf' = [AddressOf EXCEPT ![k] = NoIp]
  BY <1>1, <1>6, <1>7, OneHeld
<1>9. AddressOf[k] = cli[c].entry.ip
  BY <1>1, <1>2, <1>5, HeldDef
<1>. QED
  BY <1>1, <1>3, <1>4, <1>8, <1>9 DEF ReturnMove, LoseMove

\* The kill does not end the delete, because the entry names a process.
LEMMA KillMoves ==
  ASSUME TInv, DInv, HasPids, NEW c \in Cmds, KillWorkload(c)
  PROVE  NoMove /\ HasPids'
<1>1. /\ cli[c].pc = "kill" /\ cli[c].key \in Keys /\ cli[c].entry \in Entries
      /\ UNCHANGED <<registry, ips>>
  BY DEF KillWorkload, At, TInv, Shape, WellFormed, CreateSteps, DeleteSteps, EnvoySteps
<1>2. cli[c].entry.pid # Nil
  BY <1>1, EntryAssumption DEF DInv, EntryHeld, HasPids
<1>3. Goto(c, "stop") /\ "stop" \in Steps
  BY <1>2 DEF KillWorkload, Steps
<1>4. Keeps(c) /\ cli'[c].pc = "stop" /\ cli'[c].ip = cli[c].ip
  BY <1>3, GotoEffect, GotoDetails DEF TInv
<1>5. AddressOf' = AddressOf
  BY <1>1, <1>4, KeepsAddresses
<1>6. HasPids'
  BY <1>1, <1>4 DEF HasPids, Keeps
<1>. QED
  BY <1>1, <1>5, <1>6 DEF NoMove

\* create hands the address over to the entry.
LEMMA RegisterMoves ==
  ASSUME TInv, DInv, redisUp, HasPids, NEW c \in Cmds, Register(c)
  PROVE  NoMove /\ HasPids'
<1>. DEFINE k == cli[c].key
            e == [pid |-> cli[c].pid, ip |-> cli[c].ip,
                  conf |-> IF cli[c].m.lb THEN cli[c].m.upstream ELSE Nil]
<1>1. /\ cli[c].pc = "register" /\ cli[c].m # Nil /\ k \in Keys /\ Leaves(c)
      /\ UNCHANGED ips /\ registry' = [registry EXCEPT ![k] = e]
  BY RegisterTyped DEF Register
<1>2. e.pid = cli[c].pid /\ e.ip = cli[c].ip
  OBVIOUS
<1>a. registry'[k] \in Entries
  BY RegisterTyped
<1>. HIDE DEF e
<1>3. registry'[k] = e /\ e # Nil /\ \A j \in Keys \ {k} : registry'[j] = registry[j]
  BY <1>1, <1>a, EntryAssumption DEF TInv, TypeOK
<1>. HIDE DEF k
<1>4. /\ Alone(cli, c, k) /\ cli[c].key = k /\ cli'[c] = Idle
      /\ \A d \in Cmds : cli'[d].key # k
  BY <1>1, KeyAssumption DEF Alone, DInv, OneCommand, Leaves, Idle, k
<1>5. HeldIn(cli, registry, k) = cli[c].ip
  BY <1>1, <1>4, HeldByCreate
<1>6. HeldIn(cli', registry', k) = cli[c].ip
  BY <1>2, <1>3, <1>4, HeldByEntry
<1>b. cli[c].key \in {k, Nil} /\ cli'[c].key \in {k, Nil}
  BY <1>4 DEF Idle
<1>7. ASSUME NEW j \in Keys \ {k}
      PROVE  HeldIn(cli', registry', j) = HeldIn(cli, registry, j)
  <2>1. registry'[j] = registry[j] /\ \A d \in Cmds \ {c} : cli'[d] = cli[d]
    BY <1>1, <1>3, <1>7 DEF Leaves
  <2>. QED
    BY <1>1, <1>b, <2>1, OthersHeld
<1>8. AddressOf' = AddressOf
  BY <1>5, <1>6, <1>7, NoneHeld
<1>9. HasPids'
  BY <1>1, <1>2, <1>3 DEF HasPids, Leaves, Idle
<1>. QED
  BY <1>1, <1>8, <1>9 DEF NoMove

\* The entry that delete removes has no address any more.
LEMMA UnregisterMoves ==
  ASSUME TInv, DInv, redisUp, HasPids, NEW c \in Cmds, Unregister(c)
  PROVE  NoMove /\ HasPids'
<1>. DEFINE k == cli[c].key
<1>1. /\ cli[c].pc = "unregister" /\ cli[c].m = Nil /\ k \in Keys /\ Leaves(c)
      /\ UNCHANGED ips /\ registry' = [registry EXCEPT ![k] = Nil]
  BY UnregisterTyped
     DEF Unregister, TInv, Shape, WellFormed, CreateSteps, DeleteSteps, EnvoySteps
<1>2. registry'[k] = Nil /\ \A j \in Keys \ {k} : registry'[j] = registry[j]
  BY <1>1 DEF TInv, TypeOK
<1>. HIDE DEF k
<1>3. /\ Alone(cli, c, k) /\ cli[c].key = k /\ cli'[c] = Idle
      /\ \A d \in Cmds : cli'[d].key # k
  BY <1>1, KeyAssumption DEF Alone, DInv, OneCommand, Leaves, Idle, k
<1>4. HeldIn(cli, registry, k) = NoIp
  BY <1>1, <1>3, HeldByDelete
<1>5. HeldIn(cli', registry', k) = NoIp
  BY <1>2, <1>3, HeldByEntry
<1>a. cli[c].key \in {k, Nil} /\ cli'[c].key \in {k, Nil}
  BY <1>3 DEF Idle
<1>6. ASSUME NEW j \in Keys \ {k}
      PROVE  HeldIn(cli', registry', j) = HeldIn(cli, registry, j)
  <2>1. registry'[j] = registry[j] /\ \A d \in Cmds \ {c} : cli'[d] = cli[d]
    BY <1>1, <1>2, <1>6 DEF Leaves
  <2>. QED
    BY <1>1, <1>a, <2>1, OthersHeld
<1>7. AddressOf' = AddressOf
  BY <1>4, <1>5, <1>6, NoneHeld
<1>8. HasPids'
  BY <1>1, <1>2 DEF HasPids, Leaves, Idle
<1>. QED
  BY <1>1, <1>7, <1>8 DEF NoMove

\* cleanup is about no workload in particular.
LEMMA CleanupMoves ==
  ASSUME TInv, DInv, HasPids, NEW c \in Cmds, RunCleanup(c) \/ Unlink(c)
  PROVE  NoMove /\ HasPids'
<1>1. /\ cli[c].pc \in {"idle", "unlink"} /\ cli[c].key = Nil
      /\ UNCHANGED <<registry, ips>>
  BY DEF RunCleanup, Unlink, At, TInv, Shape, WellFormed, CreateSteps, DeleteSteps,
         EnvoySteps
<1>2. /\ \A d \in Cmds \ {c} : cli'[d] = cli[d]
      /\ cli'[c].key = Nil /\ cli'[c].pc \in {"idle", "unlink"}
  <2>1. CASE RunCleanup(c)
    BY <1>1, <2>1 DEF RunCleanup, TInv, TypeOK, Commands
  <2>2. CASE Unlink(c)
    BY <1>1, <2>2, UnlinkTyped DEF Keeps, Leaves, Idle
  <2>. QED
    BY <2>1, <2>2
<1>3. ASSUME NEW k \in Keys
      PROVE  HeldIn(cli', registry', k) = HeldIn(cli, registry, k)
  <2>1. registry'[k] = registry[k]
    BY <1>1
  <2>2. \A x, y \in Cmds : x # y /\ cli[x].key = k => cli[y].key # k
    BY KeyAssumption DEF DInv, OneCommand
  <2>3. \A x \in Cmds : cli'[x] = cli[x] \/ (cli[x].key # k /\ cli'[x].key # k)
    BY <1>1, <1>2, KeyAssumption
  <2>. QED
    BY <2>1, <2>2, <2>3, SameHeld
<1>4. HasPids'
  BY <1>1, <1>2 DEF HasPids
<1>. QED
  BY <1>1, <1>3, <1>4, NoneHeld DEF NoMove

\* Of the steps that only move a command on, ReleaseIp alone moves an address.
LEMMA QuietMoves ==
  ASSUME TInv, DInv, redisUp, MaxFaults = 0, NEW c \in Cmds, QuietStep(c)
  PROVE  \/ cli[c].pc # "release" /\ NoMove
         \/ /\ ReleaseIp(c)
            /\ cli[c].key \in Keys /\ (ReturnMove(cli[c].key) \/ LoseMove(c))
<1>1. CASE /\ cli[c].pc # "release"
           /\ ips' = ips \/ ips' = ips \cup {EnvoyIp}
  <2>1. Keeps(c) /\ UNCHANGED registry
    BY QuietTyped DEF QuietMove
  <2>2. AddressOf' = AddressOf
    BY <1>1, <2>1, QuietDetails, KeepsAddresses
  <2>. QED
    BY <1>1, <2>2 DEF NoMove
<1>. QED
  BY <1>1, QuietDetails, ReleaseMoves

LEMMA NextMoves ==
  ASSUME OnePerName, MaxFaults = 0, Implemented, TInv, DInv, AInv, HasPids, [Next]_vars
  PROVE  Moves /\ HasPids'
<1>0. redisUp
  BY DEF AInv
<1>1. ASSUME NEW c \in Cmds, QuietStep(c) PROVE Moves /\ HasPids'
  <2>1. /\ Keeps(c) /\ UNCHANGED registry
        /\ cli'[c].pc = "register" => cli[c].pid # Nil
    BY <1>1, QuietTyped, QuietDetails
       DEF QuietMove, TInv, Shape, WellFormed, CreateSteps, DeleteSteps, EnvoySteps
  <2>2. HasPids'
    BY <2>1 DEF HasPids, Keeps
  <2>. QED
    BY <1>0, <1>1, <2>2, QuietMoves DEF Moves
<1>2. CASE UNCHANGED <<registry, cli, ips>>
  BY <1>2 DEF HasPids, Moves, NoMove, AddressOf, At
<1>3. CASE Outside \/ UNCHANGED vars
  BY <1>2, <1>3 DEF Outside, Stops, ProcessExits, RedisDown, RedisBack, vars, Fault
<1>4. ASSUME NEW c \in Cmds, Crash(c) PROVE FALSE
  BY <1>4, CrashTyped
<1>. QED
  BY <1>0, <1>1, <1>3, <1>4, NextCases, RunCreateMoves, RunDeleteMoves, ExecMoves,
     KillMoves, RegisterMoves, UnregisterMoves, CleanupMoves DEF Moves

-----------------------------------------------------------------------------
(* The pool and the workloads agree *)

LEMMA InitAddresses == Init => HInv /\ AddressOf = [k \in Keys |-> NoIp]
<1>. SUFFICES ASSUME Init PROVE HInv /\ AddressOf = [k \in Keys |-> NoIp]
  OBVIOUS
<1>1. /\ \A c \in Cmds : cli[c].key = Nil /\ cli[c].pc = "idle"
      /\ \A k \in Keys : registry[k] = Nil
      /\ ips = {BridgeIp}
  BY DEF Init, Idle
<1>2. \A k \in Keys : \A c \in Cmds : cli[c].key # k
  BY <1>1, KeyAssumption
<1>3. \A k \in Keys : HeldIn(cli, registry, k) = NoIp
  BY <1>1, <1>2, HeldByEntry
<1>4. AddressOf = [k \in Keys |-> NoIp]
  BY <1>3, HeldDef
<1>. QED
  BY <1>1, <1>4 DEF HInv, HasPids, Allocated, Distinct, NoneLost

\* Whatever move a step makes, what workloads have stays allocated, and no two of
\* them have the same.  Only a lost return leaves an address to nobody.
LEMMA MovesAgree ==
  ASSUME TInv, Allocated, Distinct, Moves
  PROVE  /\ Allocated' /\ Distinct'
         /\ NoneLost => NoneLost' \/ \E c \in Cmds : LoseMove(c)
<1>0. NoIp \notin Hosts
  BY DEF NoIp, Hosts
<1>1. ASSUME NEW k \in Keys, NEW a \in Hosts, GrantMove(k, a)
      PROVE  Allocated' /\ Distinct' /\ (NoneLost => NoneLost')
  <2>1. /\ AddressOf'[k] = a /\ a \notin ips /\ ips' = ips \cup {a} /\ a # NoIp
        /\ AddressOf[k] = NoIp
        /\ \A j \in Keys \ {k} : AddressOf'[j] = AddressOf[j]
    BY <1>0, <1>1, HeldDef DEF GrantMove
  <2>2. Allocated'
    BY <2>1 DEF Allocated
  <2>3. Distinct'
    BY <2>1 DEF Allocated, Distinct
  <2>4. NoneLost => NoneLost'
    <3>. SUFFICES ASSUME NoneLost, NEW b \in ips', b \notin {BridgeIp, EnvoyIp}
                  PROVE  \E j \in Keys : AddressOf'[j] = b
      BY DEF NoneLost
    <3>1. CASE b = a
      BY <2>1, <3>1
    <3>2. CASE b # a
      <4>1. PICK j \in Keys : AddressOf[j] = b
        BY <2>1, <3>2 DEF NoneLost
      <4>2. CASE j # k
        BY <2>1, <4>1, <4>2
      <4>3. CASE j = k
        BY <1>0, <2>1, <3>2, <4>1, <4>3 DEF TInv, TypeOK
      <4>. QED
        BY <4>2, <4>3
    <3>. QED
      BY <3>1, <3>2
  <2>. QED
    BY <2>2, <2>3, <2>4
<1>2. ASSUME NEW k \in Keys, ReturnMove(k)
      PROVE  Allocated' /\ Distinct' /\ (NoneLost => NoneLost')
  <2>1. /\ AddressOf'[k] = NoIp /\ ips' = ips \ {AddressOf[k]}
        /\ \A j \in Keys \ {k} : AddressOf'[j] = AddressOf[j]
    BY <1>2, HeldDef DEF ReturnMove
  <2>2. Allocated'
    BY <2>1 DEF Allocated, Distinct
  <2>3. Distinct'
    BY <2>1 DEF Distinct
  <2>4. NoneLost => NoneLost'
    BY <2>1 DEF NoneLost
  <2>. QED
    BY <2>2, <2>3, <2>4
<1>3. CASE NoMove
  BY <1>3 DEF NoMove, Allocated, Distinct, NoneLost
<1>4. ASSUME NEW c \in Cmds, LoseMove(c)
      PROVE  Allocated' /\ Distinct'
  <2>1. /\ AddressOf'[cli[c].key] = NoIp /\ ips' = ips
        /\ \A j \in Keys \ {cli[c].key} : AddressOf'[j] = AddressOf[j]
    BY <1>4, HeldDef DEF LoseMove
  <2>. QED
    BY <2>1 DEF Allocated, Distinct
<1>. QED
  BY <1>1, <1>2, <1>3, <1>4 DEF Moves

LEMMA NextAddresses ==
  OnePerName /\ MaxFaults = 0 /\ Implemented /\ TInv /\ DInv /\ AInv /\ HInv
    /\ [Next]_vars => HInv'
<1>. SUFFICES ASSUME OnePerName, MaxFaults = 0, Implemented, TInv, DInv, AInv, HInv,
                     [Next]_vars
              PROVE  HInv'
  OBVIOUS
<1>1. Moves /\ HasPids'
  BY NextMoves DEF HInv
<1>2. /\ Allocated' /\ Distinct'
      /\ NoneLost => NoneLost' \/ \E c \in Cmds : LoseMove(c)
  BY <1>1, MovesAgree DEF HInv
<1>3. OneAtATime => ~\E c \in Cmds : LoseMove(c)
  BY DEF OneAtATime, LoseMove, Contended
<1>. QED
  BY <1>1, <1>2, <1>3 DEF HInv

LEMMA AddressInvariant ==
  ASSUME OnePerName, MaxFaults = 0, Implemented
  PROVE  Spec => [](TInv /\ DInv /\ AInv /\ HInv)
<1>1. Init => TInv /\ DInv /\ AInv /\ HInv
  BY InitTyped, InitDeletion, InitAccounting, InitAddresses
<1>2. TInv /\ DInv /\ AInv /\ HInv /\ [Next]_vars => TInv' /\ DInv' /\ AInv' /\ HInv'
  BY NextTyped, NextDeletion, NextAccounting, NextAddresses
<1>. QED
  BY <1>1, <1>2, PTL DEF Spec

LEMMA Accounts ==
  ASSUME OneAtATime, TInv, HInv
  PROVE  AddressesAccounted
<1>. DEFINE recorded == {registry[k].ip : k \in Entered} \ {NoIp}
<1>. SUFFICES ASSUME Quiet
              PROVE  /\ recorded \subseteq ips
                     /\ ips \subseteq recorded \cup {BridgeIp, EnvoyIp}
  BY DEF AddressesAccounted
<1>1. ASSUME NEW k \in Keys
      PROVE  AddressOf[k] = IF registry[k] = Nil THEN NoIp ELSE registry[k].ip
  <2>1. \A c \in Cmds : cli[c].key # k
    BY KeyAssumption DEF Quiet, At, TInv, Shape, WellFormed, CreateSteps, DeleteSteps,
                         EnvoySteps
  <2>. QED
    BY <2>1, HeldByEntry, HeldDef
<1>2. recorded \subseteq ips
  BY <1>1 DEF Entered, HInv, Allocated
<1>3. ASSUME NEW a \in ips, a \notin {BridgeIp, EnvoyIp}
      PROVE  a \in recorded
  <2>1. a # NoIp
    BY DEF TInv, TypeOK, Hosts, NoIp
  <2>2. PICK k \in Keys : AddressOf[k] = a
    BY <1>3 DEF HInv, NoneLost
  <2>3. registry[k] # Nil /\ registry[k].ip = a
    BY <1>1, <2>1, <2>2
  <2>. QED
    BY <2>1, <2>3 DEF Entered
<1>. QED
  BY <1>2, <1>3

\* With one command at a time and without faults, the pool has allocated what the
\* entries say and nothing else between commands, whatever has been created, deleted
\* or refused for want of addresses before.
THEOREM Accounting ==
  ASSUME OneAtATime, OnePerName, MaxFaults = 0, Implemented
  PROVE  Spec => []AddressesAccounted
<1>1. TInv /\ HInv => AddressesAccounted
  BY Accounts
<1>. QED
  BY <1>1, AddressInvariant, PTL

\* With any number of commands and without faults, the address of a workload is
\* allocated from its create's GetIp to its delete's ReleaseIp, at every step: no
\* GetIp hands it out again.
THEOREM LeasesHeld ==
  ASSUME OnePerName, MaxFaults = 0, Implemented
  PROVE  Spec => []LeasesAllocated
<1>1. HInv => LeasesAllocated
  BY DEF HInv, Allocated, LeasesAllocated
<1>. QED
  BY <1>1, AddressInvariant, PTL

\* Which addresses a move can lose.
LEMMA MovesLose ==
  ASSUME TInv, Moves, NEW a \in Lost' \ Lost
  PROVE  \E c \in Cmds : /\ At(c, "release") /\ cli[c].entry.ip = a
                         /\ Contended(c) /\ At(c, "kill")'
<1>1. /\ a \in ips' /\ a \notin {BridgeIp, EnvoyIp}
      /\ \A k \in Keys : AddressOf'[k] # a
      /\ a \in ips => \E k \in Keys : AddressOf[k] = a
  BY DEF Lost
<1>2. \A k \in Keys : AddressOf[k] = NoIp => AddressOf[k] # a \/ a \notin ips
  BY DEF TInv, TypeOK, Hosts, NoIp
<1>3. ASSUME NEW k \in Keys, NEW b \in Hosts, GrantMove(k, b) PROVE FALSE
  <2>1. /\ AddressOf'[k] = b /\ ips' = ips \cup {b} /\ AddressOf[k] = NoIp
        /\ \A j \in Keys \ {k} : AddressOf'[j] = AddressOf[j]
    BY <1>3, HeldDef DEF GrantMove
  <2>. QED
    BY <1>1, <1>2, <2>1
<1>4. ASSUME NEW k \in Keys, ReturnMove(k) PROVE FALSE
  <2>1. /\ ips' = ips \ {AddressOf[k]}
        /\ \A j \in Keys \ {k} : AddressOf'[j] = AddressOf[j]
    BY <1>4, HeldDef DEF ReturnMove
  <2>. QED
    BY <1>1, <2>1
<1>5. CASE NoMove
  BY <1>1, <1>5 DEF NoMove
<1>6. ASSUME NEW c \in Cmds, LoseMove(c)
      PROVE  /\ At(c, "release") /\ cli[c].entry.ip = a
             /\ Contended(c) /\ At(c, "kill")'
  <2>1. \A j \in Keys \ {cli[c].key} : AddressOf'[j] = AddressOf[j]
    BY <1>6, HeldDef DEF LoseMove
  <2>2. AddressOf[cli[c].key] = a
    BY <1>1, <1>6, <2>1 DEF LoseMove
  <2>. QED
    BY <1>6, <2>2 DEF LoseMove, At
<1>. QED
  BY <1>3, <1>4, <1>5, <1>6 DEF Moves

\* With any number of commands and without faults, an address is lost to the pool in
\* no other way than by a release that conflicts with another command.
THEOREM Losses ==
  ASSUME OnePerName, MaxFaults = 0, Implemented
  PROVE  Spec => LostOnlyToConflict
<1>1. TInv /\ DInv /\ AInv /\ HInv /\ [Next]_vars =>
        [\A a \in Lost' \ Lost :
            \E c \in Cmds : /\ At(c, "release") /\ cli[c].entry.ip = a
                            /\ Contended(c) /\ At(c, "kill")']_vars
  <2>. SUFFICES ASSUME TInv, DInv, AInv, HInv, [Next]_vars, NEW a \in Lost' \ Lost
                PROVE  \E c \in Cmds : /\ At(c, "release") /\ cli[c].entry.ip = a
                                       /\ Contended(c) /\ At(c, "kill")'
    OBVIOUS
  <2>1. Moves
    BY NextMoves DEF HInv
  <2>. QED
    BY <2>1, MovesLose
<1>. QED
  BY <1>1, AddressInvariant, PTL DEF Spec, LostOnlyToConflict

\* Under the same assumptions the addresses of workloads behave as AddressLease
\* says, from the GetIp of create through the registry to the ReleaseIp of delete.
THEOREM Refinement ==
  ASSUME OnePerName, MaxFaults = 0, Implemented
  PROVE  Spec => WorkloadLeases
<1>1. Init => Lease!Init
  BY InitAddresses DEF Lease!Init
<1>2. TInv /\ DInv /\ AInv /\ HInv /\ [Next]_vars => [Lease!Next]_AddressOf
  <2>. SUFFICES ASSUME TInv, DInv, AInv, HInv, [Next]_vars
                PROVE  [Lease!Next]_AddressOf
    OBVIOUS
  <2>1. Moves
    BY NextMoves DEF HInv
  <2>2. ASSUME NEW k \in Keys, NEW a \in Hosts, GrantMove(k, a)
        PROVE  Lease!Next
    <3>1. \A j \in Keys : AddressOf[j] # a
      BY <2>2 DEF GrantMove, HInv, Allocated, Hosts, NoIp
    <3>. QED
      BY <2>2, <3>1 DEF GrantMove, Lease!Next, Lease!Grant
  <2>3. ASSUME NEW k \in Keys, ReturnMove(k)
        PROVE  [Lease!Next]_AddressOf
    <3>1. CASE AddressOf[k] = NoIp
      <4>1. AddressOf' = AddressOf
        BY <2>3, <3>1, HeldDef DEF ReturnMove
      <4>. QED
        BY <4>1
    <3>2. CASE AddressOf[k] # NoIp
      BY <2>3, <3>2 DEF ReturnMove, Lease!Next, Lease!Return
    <3>. QED
      BY <3>1, <3>2
  <2>4. CASE NoMove
    BY <2>4 DEF NoMove
  <2>5. ASSUME NEW c \in Cmds, LoseMove(c)
        PROVE  [Lease!Next]_AddressOf
    <3>1. CASE AddressOf[cli[c].key] = NoIp
      <4>1. AddressOf' = AddressOf
        BY <2>5, <3>1, HeldDef DEF LoseMove
      <4>. QED
        BY <4>1
    <3>2. CASE AddressOf[cli[c].key] # NoIp
      BY <2>5, <3>2 DEF LoseMove, Lease!Next, Lease!Return
    <3>. QED
      BY <3>1, <3>2
  <2>. QED
    BY <2>1, <2>2, <2>3, <2>4, <2>5 DEF Moves
<1>. QED
  BY <1>1, <1>2, AddressInvariant, PTL DEF Spec, WorkloadLeases, Lease!Spec
=============================================================================
