--------------------------- MODULE Startup_proofs ---------------------------
(***************************************************************************)
(* What a start meets and what it leaves, for every value of the constants: *)
(* the lock of the shims and their daemons (DaemonStart), then the          *)
(* migrations (SchemaMigrations) and the secrets (SecretStore).             *)
(***************************************************************************)
EXTENDS DaemonStart, SecretStore, FiniteSetTheorems, TLAPS

-----------------------------------------------------------------------------
(* The lock of the shims, for any number of shims, daemons, releases and faults. *)

LockRecord == [by : Shim \cup {None}, dead : BOOLEAN, stale : BOOLEAN]
ShimRecord == [pc : Pcs, owner : BOOLEAN, found : Daemon \cup {None},
               token : Daemon \cup {None}]

\* Only a shim that spawns or waits owns the lock; and what LockHasOwner says.
LockInv ==
  /\ lock \in LockRecord /\ shim \in [Shim -> ShimRecord]
  /\ lock # NoLock => lock.by \in Shim
  /\ \A s \in Shim : shim[s].owner => shim[s].pc \in {"spawn", "wait"}
  /\ LockHasOwner

LEMMA NothingHeld == NoLock \in LockRecord /\ Off \in ShimRecord /\ ~Off.owner
BY DEF NoLock, LockRecord, Off, ShimRecord, Pcs

\* A step of one shim that owns nothing afterwards, and owned nothing before, changes
\* nothing for the lock.
LEMMA NotOwning ==
  ASSUME LockInv, NEW s \in Shim, NEW new \in ShimRecord, shim' = [shim EXCEPT ![s] = new],
         ~shim[s].owner, ~new.owner, lock' = lock
  PROVE  LockInv'
<1>1. \A r \in Shim : shim'[r].owner = shim[r].owner
  BY DEF LockInv, ShimRecord
<1> QED BY <1>1 DEF LockInv, LockHasOwner

\* A step between the states of an owner.
LEMMA StillOwning ==
  ASSUME LockInv, NEW s \in Shim, shim[s].pc \in {"spawn", "wait"}, Go(s, "wait"), lock' = lock
  PROVE  LockInv'
<1>1. shim' \in [Shim -> ShimRecord]
  BY DEF LockInv, Go, ShimRecord, Pcs
<1>2. \A r \in Shim : shim'[r].owner = shim[r].owner /\ (r # s => shim'[r] = shim[r])
                      /\ shim'[s].pc = "wait"
  BY DEF LockInv, Go, ShimRecord
<1> QED BY <1>1, <1>2 DEF LockInv, LockHasOwner

\* The finally of ensureDaemon: an owner takes the lock away.
LEMMA GivesBack ==
  ASSUME LockInv, NEW s \in Shim, NEW new \in ShimRecord, shim' = [shim EXCEPT ![s] = new],
         ~new.owner, lock' = Released(s)
  PROVE  LockInv'
<1>1. CASE shim[s].owner
  <2>1. lock' = NoLock
    BY <1>1 DEF Released
  <2> QED BY <2>1, NothingHeld DEF LockInv, LockHasOwner
<1>2. CASE ~shim[s].owner
  BY <1>2, NotOwning DEF Released
<1> QED BY <1>1, <1>2

LEMMA ShimStepKeeps ==
  ASSUME LockInv, NEW s \in Shim, ShimStep(s) \/ Ensure(s) \/ CrashShim(s)
  PROVE  LockInv'
<1>0. shim[s] \in ShimRecord /\ shim \in [Shim -> ShimRecord]
  BY DEF LockInv
<1>1. CASE Ensure(s)
  <2>1. [Off EXCEPT !.pc = "probe"] \in ShimRecord /\ ~[Off EXCEPT !.pc = "probe"].owner
    BY NothingHeld DEF ShimRecord, Pcs
  <2>2. ~shim[s].owner
    BY <1>1 DEF Ensure, LockInv
  <2> QED BY <1>1, <2>1, <2>2, NotOwning DEF Ensure
<1>2. CASE Probe(s)
  <2>1. PICK answer \in Daemon \cup {None} :
          /\ Sees(answer)
          /\ shim' = [shim EXCEPT ![s] =
               IF answer = None THEN [@ EXCEPT !.pc = "lock"]
               ELSE IF Older(answer, s) THEN [@ EXCEPT !.pc = "retire", !.found = answer]
               ELSE Found(s, answer)]
    BY <1>2, Zenon DEF Probe
  <2> DEFINE new == IF answer = None THEN [shim[s] EXCEPT !.pc = "lock"]
                    ELSE IF Older(answer, s) THEN [shim[s] EXCEPT !.pc = "retire", !.found = answer]
                    ELSE Found(s, answer)
  <2>2. ~shim[s].owner /\ lock' = lock
    BY <1>2 DEF Probe, LockInv
  <2>3. new \in ShimRecord /\ ~new.owner
    BY <1>0, <2>2 DEF Found, ShimRecord, Pcs
  <2>4. shim' = [shim EXCEPT ![s] = new]
    BY <1>0, <2>1
  <2> HIDE DEF new
  <2> QED BY <2>2, <2>3, <2>4, NotOwning
<1>3. CASE FetchToken(s) \/ AskToStop(s) \/ Left(s) \/ Stays(s) \/ Stat(s)
  <2>1. ~shim[s].owner /\ lock' = lock
    BY <1>3 DEF FetchToken, AskToStop, Left, Stays, Stat, LockInv
  <2>2. PICK new : new \in ShimRecord /\ ~new.owner /\ shim' = [shim EXCEPT ![s] = new]
    <3>1. CASE \E p \in Pcs : Go(s, p)
      <4>1. PICK p \in Pcs : shim' = [shim EXCEPT ![s].pc = p]
        BY <3>1 DEF Go
      <4> WITNESS [shim[s] EXCEPT !.pc = p]
      <4> QED BY <1>0, <2>1, <4>1 DEF ShimRecord
    <3>2. CASE \E d \in Daemon \cup {None} : shim' = [shim EXCEPT ![s] = Found(s, d)]
      <4>1. PICK d \in Daemon \cup {None} : shim' = [shim EXCEPT ![s] = Found(s, d)]
        BY <3>2
      <4>2. Found(s, d) \in ShimRecord /\ ~Found(s, d).owner
        BY <1>0 DEF Found, ShimRecord, Pcs
      <4> QED BY <4>1, <4>2
    <3>3. shim[s].found \in Daemon \cup {None}
      BY <1>0 DEF ShimRecord
    <3>4. CASE FetchToken(s)
      <4>1. PICK answer \in Daemon \cup {None} :
              shim' = [shim EXCEPT ![s].pc = IF answer = None THEN "leave" ELSE "post",
                                   ![s].token = answer]
        BY <3>4 DEF FetchToken
      <4> WITNESS [shim[s] EXCEPT !.pc = IF answer = None THEN "leave" ELSE "post", !.token = answer]
      <4> QED BY <1>0, <2>1, <4>1 DEF ShimRecord, Pcs
    <3>7. CASE AskToStop(s)
      <4>1. PICK answer \in Daemon \cup {None} :
              \/ shim' = [shim EXCEPT ![s] = Found(s, answer)]
              \/ shim' = [shim EXCEPT ![s].pc = "leave", ![s].token = None]
        BY <3>7 DEF AskToStop
      <4>2. CASE shim' = [shim EXCEPT ![s] = Found(s, answer)]
        BY <3>2, <4>2
      <4>3. CASE shim' = [shim EXCEPT ![s].pc = "leave", ![s].token = None]
        <5> WITNESS [shim[s] EXCEPT !.pc = "leave", !.token = None]
        <5> QED BY <1>0, <2>1, <4>3 DEF ShimRecord, Pcs
      <4> QED BY <4>1, <4>2, <4>3
    <3>8. CASE Left(s)
      <4> WITNESS [shim[s] EXCEPT !.pc = "lock", !.found = None]
      <4> QED BY <1>0, <2>1, <3>8 DEF Left, ShimRecord, Pcs
    <3>5. Stat(s) => \E p \in Pcs : Go(s, p)
      BY DEF Stat, Pcs
    <3>6. Stays(s) => \E d \in Daemon \cup {None} : shim' = [shim EXCEPT ![s] = Found(s, d)]
      BY <3>3 DEF Stays, Answering
    <3> QED BY <1>3, <3>1, <3>2, <3>4, <3>5, <3>6, <3>7, <3>8
  <2> QED BY <2>1, <2>2, NotOwning
<1>4. CASE Lock(s)
  <2>1. CASE lock = NoLock
    <3>1. lock' = [NoLock EXCEPT !.by = s]
          /\ shim' = [shim EXCEPT ![s].pc = "spawn", ![s].owner = TRUE]
      BY <1>4, <2>1 DEF Lock
    <3>2. lock' \in LockRecord /\ lock'.by = s
      BY <3>1 DEF NoLock, LockRecord
    <3>3. shim' \in [Shim -> ShimRecord] /\ shim'[s].owner /\ shim'[s].pc = "spawn"
          /\ \A r \in Shim : r # s => shim'[r] = shim[r]
      BY <1>0, <3>1 DEF ShimRecord, Pcs
    <3> QED BY <3>2, <3>3 DEF LockInv, LockHasOwner
  <2>2. CASE lock # NoLock
    <3>1. ~shim[s].owner /\ lock' = lock /\ shim' = [shim EXCEPT ![s] = [shim[s] EXCEPT !.pc = "stat"]]
      BY <1>0, <1>4, <2>2 DEF Lock, Go, LockInv
    <3>2. [shim[s] EXCEPT !.pc = "stat"] \in ShimRecord /\ ~[shim[s] EXCEPT !.pc = "stat"].owner
      BY <1>0, <3>1 DEF ShimRecord, Pcs
    <3> QED BY <3>1, <3>2, NotOwning
  <2> QED BY <2>1, <2>2
<1>5. CASE Unlink(s)
  <2>1. PICK p \in {"wait", "probe"} : shim' = [shim EXCEPT ![s].pc = p]
    BY <1>5 DEF Unlink, Go
  <2>2. ~shim[s].owner /\ lock' = NoLock
    BY <1>5 DEF Unlink, LockInv
  <2>3. shim' \in [Shim -> ShimRecord] /\ ~shim'[s].owner /\ \A r \in Shim : r # s => shim'[r] = shim[r]
    BY <1>0, <2>1, <2>2 DEF ShimRecord, Pcs
  <2> QED BY <2>2, <2>3, NothingHeld DEF LockInv, LockHasOwner
<1>6. CASE Spawn(s)
  BY <1>6, StillOwning DEF Spawn
<1>7. CASE Wait(s)
  <2>1. PICK d \in Answering : shim' = [shim EXCEPT ![s] = Found(s, d)]
    BY <1>7 DEF Wait
  <2>2. Found(s, d) \in ShimRecord /\ ~Found(s, d).owner
    BY <1>0, <2>1 DEF Found, ShimRecord, Pcs, Answering
  <2>3. lock' = Released(s)
    BY <1>7 DEF Wait
  <2> QED BY <2>1, <2>2, <2>3, GivesBack
<1>8. CASE WaitTimesOut(s)
  <2> DEFINE new == [shim[s] EXCEPT !.pc = "failed", !.owner = FALSE]
  <2>1. shim' = [shim EXCEPT ![s] = new] /\ lock' = Released(s)
    BY <1>0, <1>8 DEF WaitTimesOut
  <2>2. new \in ShimRecord /\ ~new.owner
    BY <1>0 DEF ShimRecord, Pcs
  <2> HIDE DEF new
  <2> QED BY <2>1, <2>2, GivesBack
<1>9. CASE CrashShim(s)
  <2>1. shim' = [shim EXCEPT ![s] = Off]
        /\ lock' = IF shim[s].owner /\ lock.by = s THEN [lock EXCEPT !.dead = TRUE] ELSE lock
    BY <1>9 DEF CrashShim
  <2>2. shim' \in [Shim -> ShimRecord] /\ ~shim'[s].owner /\ \A r \in Shim : r # s => shim'[r] = shim[r]
    BY <1>0, <2>1, NothingHeld
  <2>3. CASE shim[s].owner /\ lock.by = s
    <3>1. lock' \in LockRecord /\ lock'.by = lock.by /\ lock'.dead
      BY <2>1, <2>3 DEF LockInv, LockRecord
    <3> QED BY <2>2, <2>3, <3>1 DEF LockInv, LockHasOwner
  <2>4. CASE ~(shim[s].owner /\ lock.by = s)
    <3>1. lock' = lock
      BY <2>1, <2>4
    <3> QED BY <2>2, <2>4, <3>1 DEF LockInv, LockHasOwner
  <2> QED BY <2>3, <2>4
<1> QED BY <1>1, <1>2, <1>3, <1>4, <1>5, <1>6, <1>7, <1>8, <1>9 DEF ShimStep

LEMMA LockInvHolds == Spec => []LockInv
<1>1. Init => LockInv
  <2> SUFFICES ASSUME Init PROVE LockInv
    OBVIOUS
  <2>1. lock = NoLock /\ shim = [s \in Shim |-> Off]
    BY DEF Init
  <2> QED BY <2>1, NothingHeld DEF LockInv, LockHasOwner
<1>2. LockInv /\ [Next]_vars => LockInv'
  <2> SUFFICES ASSUME LockInv, [Next]_vars PROVE LockInv'
    OBVIOUS
  <2>1. ASSUME NEW s \in Shim, Ensure(s) \/ ShimStep(s) \/ CrashShim(s) PROVE LockInv'
    BY <2>1, ShimStepKeeps
  <2>2. CASE LockAges
    <3>1. lock.dead /\ lock' = [lock EXCEPT !.stale = TRUE] /\ shim' = shim /\ lock # NoLock
      BY <2>2 DEF LockAges, NoLock
    <3>2. lock' \in LockRecord /\ lock'.by = lock.by /\ lock'.dead
      BY <3>1 DEF LockInv, LockRecord
    <3> QED BY <3>1, <3>2 DEF LockInv, LockHasOwner
  <2>3. CASE UNCHANGED <<shim, lock>>
    BY <2>3 DEF LockInv, LockHasOwner
  <2> QED
    BY <2>1, <2>2, <2>3
    DEF Next, vars, DaemonStep, Listen, ContextOpens, FreePort, Exit, ContextFails, IdleExit, CrashDaemon
<1> QED BY <1>1, <1>2, PTL DEF Spec

\* No shim leaves the lock behind while it lives, however its wait ended and whoever
\* took a stale lock away from under it (shim.ts:125-171).
THEOREM LockCorrect == Spec => []LockHasOwner
<1>1. LockInv => LockHasOwner
  BY DEF LockInv
<1> QED BY <1>1, LockInvHolds, PTL

-----------------------------------------------------------------------------
(* The processes. *)

Process == [st : {"gone", "starting", "listening", "up", "closing", "released"}, version : Nat]

\* One process at most has the port.
DaemonInv ==
  /\ daemon \in [Daemon -> Process]
  /\ faults \in 0..MaxFaults
  /\ \A d, e \in OnPort : d = e

LEMMA GoneIsProcess == Gone \in Process
BY DEF Gone, Process

\* A fault, or none, is counted.
LEMMA FaultCounted ==
  ASSUME faults \in 0..MaxFaults, Fault \/ UNCHANGED faults
  PROVE  faults' \in 0..MaxFaults
BY FaultsAssumption DEF Fault

\* Steps that bring nobody to the port.
LEMMA PortFrame ==
  ASSUME DaemonInv, daemon' \in [Daemon -> Process], Fault \/ UNCHANGED faults,
         \A d \in Daemon : daemon'[d].st \in {"listening", "up", "closing"} => d \in OnPort
  PROVE  DaemonInv'
<1>1. OnPort' \subseteq OnPort
  BY DEF OnPort
<1> QED BY <1>1, FaultCounted DEF DaemonInv

LEMMA ProcessFrame ==
  ASSUME DaemonInv, UNCHANGED daemon, Fault \/ UNCHANGED faults
  PROVE  DaemonInv'
<1>1. \A d \in Daemon : daemon'[d].st \in {"listening", "up", "closing"} => d \in OnPort
  BY DEF OnPort
<1> QED BY <1>1, PortFrame DEF DaemonInv

LEMMA BecomesProcess ==
  ASSUME DaemonInv, NEW d \in Daemon,
         NEW st \in {"gone", "starting", "listening", "up", "closing", "released"}, Becomes(d, st)
  PROVE  /\ daemon' \in [Daemon -> Process]
         /\ daemon'[d].st = st
         /\ \A e \in Daemon \ {d} : daemon'[e] = daemon[e]
<1> DEFINE new == IF st = "gone" THEN Gone ELSE [daemon[d] EXCEPT !.st = st]
<1>1. daemon[d] \in Process /\ daemon \in [Daemon -> Process]
  BY DEF DaemonInv
<1>2. new \in Process /\ new.st = st
  BY <1>1, GoneIsProcess DEF Process, Gone
<1>3. daemon' = [daemon EXCEPT ![d] = new]
  BY DEF Becomes
<1> HIDE DEF new
<1> QED BY <1>1, <1>2, <1>3

\* A daemon that moves on where it has the port, or gives it up.
LEMMA MovesOn ==
  ASSUME DaemonInv, NEW d \in Daemon,
         NEW st \in {"gone", "starting", "listening", "up", "closing", "released"}, Becomes(d, st),
         st \in {"listening", "up", "closing"} => d \in OnPort, Fault \/ UNCHANGED faults
  PROVE  DaemonInv'
<1>1. /\ daemon' \in [Daemon -> Process] /\ daemon'[d].st = st
      /\ \A e \in Daemon \ {d} : daemon'[e] = daemon[e]
  BY BecomesProcess
<1>2. \A e \in Daemon : daemon'[e].st \in {"listening", "up", "closing"} => e \in OnPort
  BY <1>1 DEF OnPort
<1> QED BY <1>1, <1>2, PortFrame

LEMMA DaemonStepKeeps ==
  ASSUME DaemonInv, NEW d \in Daemon,
         DaemonStep(d) \/ ContextFails(d) \/ IdleExit(d) \/ CrashDaemon(d)
  PROVE  DaemonInv'
<1>1. CASE Listen(d)
  <2>1. CASE OnPort = {}
    <3>1. Becomes(d, "listening") /\ UNCHANGED faults
      BY <1>1, <2>1 DEF Listen
    <3>2. /\ daemon' \in [Daemon -> Process] /\ \A e \in Daemon \ {d} : daemon'[e] = daemon[e]
      BY <3>1, BecomesProcess
    <3>3. OnPort' \subseteq {d}
      BY <2>1, <3>2 DEF OnPort
    <3> QED BY <3>1, <3>2, <3>3 DEF DaemonInv
  <2>2. CASE OnPort # {}
    <3>1. Becomes(d, "gone") /\ UNCHANGED faults
      BY <1>1, <2>2 DEF Listen
    <3> QED BY <3>1, MovesOn
  <2> QED BY <2>1, <2>2
<1>2. CASE ContextOpens(d)
  <2>1. d \in OnPort /\ Becomes(d, "up") /\ UNCHANGED faults
    BY <1>2 DEF ContextOpens, OnPort
  <2> QED BY <2>1, MovesOn
<1>3. CASE FreePort(d)
  <2>1. Becomes(d, "released") /\ UNCHANGED faults
    BY <1>3 DEF FreePort
  <2> QED BY <2>1, MovesOn
<1>4. CASE Exit(d) \/ ContextFails(d) \/ CrashDaemon(d)
  <2>1. Becomes(d, "gone") /\ (Fault \/ UNCHANGED faults)
    BY <1>4 DEF Exit, ContextFails, CrashDaemon
  <2> QED BY <2>1, MovesOn
<1>5. CASE IdleExit(d)
  <2>1. d \in OnPort /\ Becomes(d, "closing") /\ UNCHANGED faults
    BY <1>5 DEF IdleExit, OnPort
  <2> QED BY <2>1, MovesOn
<1> QED BY <1>1, <1>2, <1>3, <1>4, <1>5 DEF DaemonStep

LEMMA ShimStepKeepsDaemons ==
  ASSUME LockInv, DaemonInv, NEW s \in Shim, Ensure(s) \/ ShimStep(s) \/ CrashShim(s)
  PROVE  DaemonInv'
<1>1. CASE Ensure(s) \/ Left(s) \/ Stays(s) \/ Lock(s) \/ Stat(s) \/ Unlink(s) \/ Wait(s) \/ WaitTimesOut(s)
  <2>1. UNCHANGED <<daemon, faults>>
    BY <1>1 DEF Ensure, Left, Stays, Lock, Stat, Unlink, Wait, WaitTimesOut
  <2> QED BY <2>1, ProcessFrame
<1>2. CASE Probe(s) \/ FetchToken(s)
  <2>1. UNCHANGED daemon /\ \E answer \in Daemon \cup {None} : Sees(answer)
    BY <1>2, Zenon DEF Probe, FetchToken
  <2>2. Fault \/ UNCHANGED faults
    BY <2>1 DEF Sees
  <2> QED BY <2>1, <2>2, ProcessFrame
<1>3. CASE CrashShim(s)
  <2>1. UNCHANGED daemon /\ Fault
    BY <1>3 DEF CrashShim
  <2> QED BY <2>1, ProcessFrame
<1>4. CASE AskToStop(s)
  <2>1. Fault \/ UNCHANGED faults
    BY <1>4 DEF AskToStop, Sees
  <2>2. CASE UNCHANGED daemon
    BY <2>1, <2>2, ProcessFrame
  <2>3. CASE ~UNCHANGED daemon
    <3>0. PICK answer \in Daemon \cup {None} :
            daemon' = IF Accepts(answer, s) /\ daemon[answer].st = "up"
                      THEN [daemon EXCEPT ![answer].st = "closing"] ELSE daemon
      BY <1>4, <2>3 DEF AskToStop
    <3>1. PICK d \in Daemon : daemon[d].st = "up" /\ daemon' = [daemon EXCEPT ![d].st = "closing"]
      BY <2>3, <3>0 DEF Accepts
    <3>2. daemon[d] \in Process /\ daemon \in [Daemon -> Process] /\ d \in OnPort
      BY <3>1 DEF DaemonInv, OnPort
    <3>3. [daemon[d] EXCEPT !.st = "closing"] \in Process
      BY <3>2 DEF Process
    <3>4. /\ daemon' \in [Daemon -> Process]
          /\ \A e \in Daemon : e # d => daemon'[e] = daemon[e]
      BY <3>1, <3>2, <3>3
    <3>5. \A e \in Daemon : daemon'[e].st \in {"listening", "up", "closing"} => e \in OnPort
      BY <3>2, <3>4 DEF OnPort
    <3> QED BY <2>1, <3>4, <3>5, PortFrame
  <2> QED BY <2>2, <2>3
<1>5. CASE Spawn(s)
  <2>1. Fault \/ UNCHANGED faults
    BY <1>5 DEF Spawn, Sees
  <2>2. CASE UNCHANGED daemon
    BY <2>1, <2>2, ProcessFrame
  <2>3. CASE ~UNCHANGED daemon
    <3>1. /\ \E d \in Daemon : Free(d)
          /\ daemon' = [daemon EXCEPT ![CHOOSE d \in Daemon : Free(d)] =
                          [st |-> "starting", version |-> Version[s]]]
      BY <1>5, <2>3 DEF Spawn
    <3>2. PICK d \in Daemon : daemon' = [daemon EXCEPT ![d] = [st |-> "starting", version |-> Version[s]]]
      BY <3>1
    <3>3. [st |-> "starting", version |-> Version[s]] \in Process
      BY VersionIsNat DEF Process
    <3>4. daemon \in [Daemon -> Process]
      BY DEF DaemonInv
    <3>5. /\ daemon' \in [Daemon -> Process] /\ daemon'[d].st = "starting"
          /\ \A e \in Daemon \ {d} : daemon'[e] = daemon[e]
      BY <3>2, <3>3, <3>4
    <3>6. \A e \in Daemon : daemon'[e].st \in {"listening", "up", "closing"} => e \in OnPort
      BY <3>5 DEF OnPort
    <3> QED BY <2>1, <3>5, <3>6, PortFrame
  <2> QED BY <2>2, <2>3
<1> QED BY <1>1, <1>2, <1>3, <1>4, <1>5 DEF ShimStep

\* Shims and daemons keep their types, and one daemon at most has the port: who finds
\* it taken ends (daemon.ts, EADDRINUSE), whoever spawned them and whatever crashed.
THEOREM DaemonTypeCorrect == Spec => []TypeOK
<1>1. Init => DaemonInv
  <2> SUFFICES ASSUME Init PROVE DaemonInv
    OBVIOUS
  <2>1. PICK first \in {Gone} \cup [st : {"up"}, version : Running] :
          daemon = [d \in Daemon |-> IF d = CHOOSE x \in Daemon : TRUE THEN first ELSE Gone]
    BY DEF Init
  <2>2. first \in Process
    BY GoneIsProcess, VersionIsNat DEF Process
  <2>3. OnPort \subseteq {CHOOSE x \in Daemon : TRUE}
    BY <2>1 DEF OnPort, Gone
  <2>4. faults \in 0..MaxFaults
    BY FaultsAssumption DEF Init
  <2> QED BY <2>1, <2>2, <2>3, <2>4, GoneIsProcess DEF DaemonInv
<1>2. LockInv /\ DaemonInv /\ [Next]_vars => DaemonInv'
  <2> SUFFICES ASSUME LockInv, DaemonInv, [Next]_vars PROVE DaemonInv'
    OBVIOUS
  <2>1. ASSUME NEW s \in Shim, Ensure(s) \/ ShimStep(s) \/ CrashShim(s) PROVE DaemonInv'
    BY <2>1, ShimStepKeepsDaemons
  <2>2. ASSUME NEW d \in Daemon, DaemonStep(d) \/ ContextFails(d) \/ IdleExit(d) \/ CrashDaemon(d)
        PROVE  DaemonInv'
    BY <2>2, DaemonStepKeeps
  <2>3. CASE LockAges \/ UNCHANGED vars
    BY <2>3, ProcessFrame DEF LockAges, vars
  <2> QED BY <2>1, <2>2, <2>3 DEF Next
<1>3. LockInv /\ DaemonInv => TypeOK
  <2> SUFFICES ASSUME LockInv, DaemonInv PROVE TypeOK
    OBVIOUS
  <2>1. Cardinality(OnPort) <= 1
    <3>1. CASE OnPort = {}
      BY <3>1, FS_EmptySet
    <3>2. ASSUME NEW d \in OnPort PROVE Cardinality(OnPort) <= 1
      <4>1. OnPort = {d}
        BY DEF DaemonInv
      <4> QED BY <4>1, FS_Singleton
    <3> QED BY <3>1, <3>2
  <2> QED BY <2>1 DEF LockInv, DaemonInv, TypeOK, LockRecord, ShimRecord, Process
<1> QED BY <1>1, <1>2, <1>3, LockInvHolds, PTL DEF Spec

-----------------------------------------------------------------------------
(* The migrations. *)

\* What the early migrations leave alone: all but columns and the full-text table.
SameRow(d, e) == /\ e.version = d.version /\ e.active = d.active /\ e.enabled = d.enabled
                 /\ e.indexed = d.indexed /\ e.transport = d.transport /\ e.url = d.url
                 /\ e.homepage = d.homepage /\ e.tools = d.tools /\ e.hashed = d.hashed
                 /\ e.pins = d.pins

LEMMA SameRowTrans ==
  ASSUME NEW c, NEW d, NEW e, SameRow(c, d), SameRow(d, e) PROVE SameRow(c, e)
BY DEF SameRow

LEMMA ColumnsOnly ==
  ASSUME NEW d \in Database, NEW cs \in SUBSET Column
  PROVE  /\ Added(d, cs) \in Database /\ SameRow(d, Added(d, cs)) /\ Added(d, cs).fts = d.fts
         /\ Added(d, cs).cols = d.cols \cup cs
         /\ \A c \in Column : /\ Dropped(d, c) \in Database /\ SameRow(d, Dropped(d, c))
                              /\ Dropped(d, c).fts = d.fts /\ Dropped(d, c).cols = d.cols \ {c}
<1>1. \A e \in SUBSET Column : /\ [d EXCEPT !.cols = e] \in Database
                               /\ SameRow(d, [d EXCEPT !.cols = e])
                               /\ [d EXCEPT !.cols = e].fts = d.fts /\ [d EXCEPT !.cols = e].cols = e
  BY DEF Database, SameRow
<1>2. d.cols \in SUBSET Column
  BY DEF Database
<1>3. Added(d, cs) = [d EXCEPT !.cols = d.cols \cup cs]
  BY DEF Added
<1>4. \A c : Dropped(d, c) = [d EXCEPT !.cols = d.cols \ {c}]
  BY DEF Dropped
<1>5. d.cols \cup cs \in SUBSET Column /\ \A c : d.cols \ {c} \in SUBSET Column
  BY <1>2
<1>6. /\ Added(d, cs) \in Database /\ SameRow(d, Added(d, cs)) /\ Added(d, cs).fts = d.fts
      /\ Added(d, cs).cols = d.cols \cup cs
  BY <1>1, <1>3, <1>5
<1>7. ASSUME NEW c \in Column
      PROVE  /\ Dropped(d, c) \in Database /\ SameRow(d, Dropped(d, c))
             /\ Dropped(d, c).fts = d.fts /\ Dropped(d, c).cols = d.cols \ {c}
  <2>1. PICK e \in SUBSET Column : e = d.cols \ {c}
    BY <1>5
  <2>2. Dropped(d, c) = [d EXCEPT !.cols = e]
    BY <1>4, <2>1
  <2> QED BY <1>1, <2>1, <2>2
<1> QED BY <1>6, <1>7

\* Versions 1 to 6, and 9.
Early(d, e) == /\ e \in Database /\ SameRow(d, e)
               /\ "active" \in e.cols <=> "active" \in d.cols

LEMMA Unmigrated == ASSUME NEW d \in Database PROVE Early(d, d)
BY DEF Early, SameRow

LEMMA FirstUp ==
  ASSUME NEW d \in Database
  PROVE  /\ FirstTables(d) \in Database /\ SameRow(d, FirstTables(d))
         /\ "active" \in FirstTables(d).cols
              <=> "active" \in d.cols \/ (d.version = 0 /\ d.cols = {})
<1>1. d.version \in 0..Latest
  BY DEF Database
<1> QED BY <1>1, ColumnsOnly, Unmigrated DEF FirstTables, Pending, Early, Column, Latest

LEMMA HealthUp == ASSUME NEW d \in Database PROVE Early(d, HealthColumns(d))
BY ColumnsOnly, Unmigrated DEF HealthColumns, Early, Column

LEMMA ApprovalsUp == ASSUME NEW d \in Database PROVE Early(d, NoApprovals(d))
<1> DEFINE e == Dropped(d, "approval_status")
<1>1. {} \in SUBSET Column /\ "approval_status" \in Column
  BY DEF Column
<1>2. e \in Database /\ SameRow(d, e) /\ e.cols = d.cols \ {"approval_status"}
  BY <1>1, ColumnsOnly
<1> HIDE DEF e
<1>3. NoApprovals(d) = IF Pending(d, 3) THEN e ELSE d
  BY DEF NoApprovals, e
<1> QED BY <1>2, <1>3, Unmigrated DEF Early

LEMMA FtsUp == ASSUME NEW d \in Database PROVE Early(d, ToolFts(d))
<1> DEFINE e == [d EXCEPT !.fts = [by |-> "triggers", rows |-> d.tools]]
<1>1. e \in Database /\ SameRow(d, e) /\ e.cols = d.cols
  BY DEF Database, SameRow
<1> HIDE DEF e
<1>2. ToolFts(d) = IF Pending(d, 4) THEN e ELSE d
  BY DEF ToolFts, e
<1> QED BY <1>1, <1>2, Unmigrated DEF Early

LEMMA VectorUp == ASSUME NEW d \in Database PROVE Early(d, VectorColumns(d))
BY ColumnsOnly, Unmigrated DEF VectorColumns, Early, Column

LEMMA MirrorUp ==
  ASSUME NEW d \in Database
  PROVE  Early(d, RegistryMirrorTables(d)) /\ RegistryMirrorTables(d).fts = d.fts
BY ColumnsOnly, Unmigrated DEF RegistryMirrorTables, Early, Column

LEMMA SixUp ==
  ASSUME NEW d \in Database
  PROVE  /\ FirstSix(d) \in Database /\ SameRow(d, FirstSix(d))
         /\ "active" \in FirstSix(d).cols <=> "active" \in d.cols \/ (d.version = 0 /\ d.cols = {})
<1> DEFINE one == FirstTables(d)
           two == HealthColumns(one)
           three == NoApprovals(two)
           four == ToolFts(three)
           six == VectorColumns(four)
<1>1. /\ one \in Database /\ SameRow(d, one)
      /\ "active" \in one.cols <=> "active" \in d.cols \/ (d.version = 0 /\ d.cols = {})
  BY FirstUp
<1> HIDE DEF one
<1>2. Early(one, two)
  BY <1>1, HealthUp
<1> HIDE DEF two
<1>3. Early(two, three)
  BY <1>2, ApprovalsUp DEF Early
<1> HIDE DEF three
<1>4. Early(three, four)
  BY <1>3, FtsUp DEF Early
<1> HIDE DEF four
<1>5. Early(four, six)
  BY <1>4, VectorUp DEF Early
<1> HIDE DEF six
<1>6. FirstSix(d) = six
  BY DEF FirstSix, one, two, three, four, six
<1> QED BY <1>1, <1>2, <1>3, <1>4, <1>5, <1>6 DEF Early, SameRow

LEMMA ServersUp ==
  ASSUME NEW d \in Database
  PROVE  LET e == ServersSchema(d)
             first == "active" \in d.cols
         IN /\ e \in Database /\ e.version = d.version /\ e.tools = d.tools /\ e.pins = d.pins
            /\ ~Pending(d, 7) => e = d
            /\ Pending(d, 7) =>
                 /\ e.hashed = TRUE
                 /\ e.enabled = IF first THEN d.active ELSE d.enabled
                 /\ e.url = IF first /\ d.transport \in Remote /\ d.url = Absent THEN d.homepage
                            ELSE d.url
                 /\ e.indexed <=> d.indexed \/ (first /\ d.tools # {})
<1> DEFINE f == FromActive(d)
           cut(g) == (g.cols \ {"installed", "latest_version"}) \cup {"url", "enabled"}
           new(g) == [g EXCEPT !.cols = cut(g), !.hashed = TRUE]
<1>1. /\ f \in Database /\ f.version = d.version /\ f.tools = d.tools /\ f.pins = d.pins
      /\ f.enabled = d.active /\ (f.indexed <=> d.indexed \/ d.tools # {}) /\ f.cols = d.cols
      /\ f.url = IF d.transport \in Remote /\ d.url = Absent THEN d.homepage ELSE d.url
  <2> DEFINE moves == d.transport \in Remote /\ d.url = Absent
             url == IF moves THEN d.homepage ELSE d.url
             homepage == IF moves THEN Absent ELSE d.homepage
             source == IF d.source = "smithery" THEN "registry" ELSE d.source
             indexed == d.indexed \/ d.tools # {}
  <2>1. /\ url \in Address \cup {Absent} /\ homepage \in Address \cup {Absent}
        /\ source \in {"registry", "smithery", "local"} /\ indexed \in BOOLEAN
    BY DEF Database
  <2>2. f = [d EXCEPT !.enabled = d.active, !.url = url, !.homepage = homepage,
                      !.source = source, !.indexed = indexed]
    BY DEF FromActive
  <2> HIDE DEF f, url, homepage, source, indexed
  <2>3. /\ f \in Database /\ f.version = d.version /\ f.tools = d.tools /\ f.pins = d.pins
        /\ f.enabled = d.active /\ f.indexed = indexed /\ f.cols = d.cols /\ f.url = url
    BY <2>1, <2>2 DEF Database
  <2> QED BY <2>3 DEF url, indexed
<1> HIDE DEF f
<1>2. ASSUME NEW g \in Database
      PROVE  /\ new(g) \in Database /\ new(g).version = g.version /\ new(g).tools = g.tools
             /\ new(g).pins = g.pins /\ new(g).hashed = TRUE /\ new(g).enabled = g.enabled
             /\ new(g).url = g.url /\ new(g).indexed = g.indexed
  <2>1. cut(g) \in SUBSET Column
    BY DEF Database, Column
  <2> HIDE DEF cut
  <2> QED BY <2>1 DEF Database
<1>3. CASE Pending(d, 7) /\ "active" \in d.cols
  <2> DEFINE g == Dropped(f, "active")
  <2>1. g \in Database /\ SameRow(f, g)
    BY <1>1, ColumnsOnly DEF Column
  <2>2. ServersSchema(d) = new(g)
    BY <1>3 DEF ServersSchema, f
  <2> HIDE DEF g, new
  <2> DEFINE e == ServersSchema(d)
  <2>3. /\ e \in Database /\ e.version = g.version /\ e.tools = g.tools /\ e.pins = g.pins
        /\ e.hashed = TRUE /\ e.enabled = g.enabled /\ e.url = g.url /\ e.indexed = g.indexed
    BY <1>2, <2>1, <2>2
  <2> HIDE DEF e
  <2>4. /\ g.version = d.version /\ g.tools = d.tools /\ g.pins = d.pins /\ g.enabled = d.active
        /\ g.url = f.url /\ g.indexed = f.indexed
    BY <1>1, <2>1 DEF SameRow
  <2>5. /\ e \in Database /\ e.version = d.version /\ e.tools = d.tools /\ e.pins = d.pins
        /\ e.hashed = TRUE /\ e.enabled = d.active /\ e.url = f.url
        /\ e.indexed <=> d.indexed \/ d.tools # {}
    BY <1>1, <2>3, <2>4
  <2> QED BY <1>1, <1>3, <2>5 DEF e
<1>4. CASE Pending(d, 7) /\ "active" \notin d.cols
  <2>1. ServersSchema(d) = new(d)
    BY <1>4 DEF ServersSchema
  <2> HIDE DEF new
  <2>2. d.indexed \in BOOLEAN
    BY DEF Database
  <2> QED BY <1>2, <1>4, <2>1, <2>2
<1>5. CASE ~Pending(d, 7)
  BY <1>5 DEF ServersSchema
<1> QED BY <1>3, <1>4, <1>5

LEMMA TrustUp ==
  ASSUME NEW d \in Database
  PROVE  LET e == TrustSchema(d)
         IN /\ e \in Database /\ e.version = d.version /\ e.tools = d.tools /\ e.fts = d.fts
            /\ e.enabled = d.enabled /\ e.url = d.url
            /\ e.pins = IF Pending(d, 8) /\ d.indexed /\ d.tools # {} /\ d.pins = NoPin
                        THEN [tools |-> d.tools, hashed |-> d.hashed] ELSE d.pins
<1> DEFINE p == [tools |-> d.tools, hashed |-> d.hashed]
           e == [d EXCEPT !.pins = p]
<1>1. p \in Pins
  BY DEF Database, Pins
<1> HIDE DEF p
<1>2. /\ e \in Database /\ e.version = d.version /\ e.tools = d.tools /\ e.fts = d.fts
      /\ e.enabled = d.enabled /\ e.url = d.url /\ e.pins = p
  BY <1>1 DEF Database
<1> HIDE DEF e
<1>3. TrustSchema(d) = IF Pending(d, 8) /\ d.indexed /\ d.tools # {} /\ d.pins = NoPin THEN e ELSE d
  BY DEF TrustSchema, e, p
<1> QED BY <1>2, <1>3 DEF p

LEMMA FieldedUp ==
  ASSUME NEW d \in Database
  PROVE  /\ FieldedFts(d) \in Database /\ SameRow(d, FieldedFts(d))
         /\ Pending(d, 10) => FieldedFts(d).fts = [by |-> "ToolIndex", rows |-> d.tools]
<1> DEFINE table == [by |-> "ToolIndex", rows |-> d.tools]
           e == [d EXCEPT !.fts = table, !.vectors = FALSE]
<1>1. table \in [by : {"triggers", "ToolIndex"}, rows : SUBSET Tool]
  BY DEF Database
<1> HIDE DEF table
<1>2. e \in Database /\ SameRow(d, e) /\ e.fts = table
  BY <1>1 DEF Database, SameRow
<1> HIDE DEF e
<1>3. FieldedFts(d) = IF Pending(d, 10) THEN e ELSE d
  BY DEF FieldedFts, e, table
<1> QED BY <1>2, <1>3, Unmigrated DEF Early, table

\* The last record before the version is written, and what it keeps of the first.
Migrated(d, e) ==
  LET first == "active" \in d.cols \/ (d.version = 0 /\ d.cols = {})
      below == d.version < 7
  IN /\ e \in Database /\ e.version = d.version
     /\ e.enabled = IF below /\ first THEN d.active ELSE d.enabled
     /\ e.url = IF below /\ first /\ d.transport \in Remote /\ d.url = Absent THEN d.homepage ELSE d.url
     /\ d.version < 10 => e.fts = [by |-> "ToolIndex", rows |-> d.tools]
     /\ LET indexed == d.indexed \/ (below /\ first /\ d.tools # {})
            hashed == IF below THEN TRUE ELSE d.hashed
        IN e.pins = IF d.version < 8 /\ indexed /\ d.tools # {} /\ d.pins = NoPin
                    THEN [tools |-> d.tools, hashed |-> hashed] ELSE d.pins

LEMMA AllUp ==
  ASSUME NEW d \in Database
  PROVE  \E e : Migrated(d, e) /\ RunMigrations(d) = [e EXCEPT !.version = Latest]
<1> DEFINE six == FirstSix(d)
           seven == ServersSchema(six)
           eight == TrustSchema(seven)
           nine == RegistryMirrorTables(eight)
           ten == FieldedFts(nine)
           first == "active" \in d.cols \/ (d.version = 0 /\ d.cols = {})
           below == d.version < 7
<1>1. six \in Database /\ SameRow(d, six) /\ ("active" \in six.cols <=> first)
  BY SixUp
<1> HIDE DEF six, first
<1>2. d.version \in Nat /\ d.hashed \in BOOLEAN /\ d.indexed \in BOOLEAN /\ six.hashed \in BOOLEAN
  BY <1>1 DEF Database, Latest
<1>3. /\ seven \in Database /\ seven.version = d.version /\ seven.tools = d.tools
      /\ seven.pins = d.pins
      /\ below => seven.hashed = TRUE
      /\ ~below => seven.hashed = d.hashed
      /\ seven.enabled = IF below /\ first THEN d.active ELSE d.enabled
      /\ seven.url = IF below /\ first /\ d.transport \in Remote /\ d.url = Absent THEN d.homepage
                     ELSE d.url
      /\ (seven.indexed <=> d.indexed \/ (below /\ first /\ d.tools # {}))
  <2>1. CASE below
    BY <1>1, <1>2, <2>1, ServersUp DEF SameRow, Pending
  <2>2. CASE ~below
    BY <1>1, <1>2, <2>2, ServersUp DEF SameRow, Pending
  <2> QED BY <2>1, <2>2
<1> HIDE DEF seven
<1>4. /\ eight \in Database /\ eight.version = d.version /\ eight.tools = d.tools
      /\ eight.enabled = seven.enabled /\ eight.url = seven.url
      /\ eight.pins = IF d.version < 8 /\ seven.indexed /\ d.tools # {} /\ d.pins = NoPin
                      THEN [tools |-> d.tools, hashed |-> seven.hashed] ELSE d.pins
  BY <1>2, <1>3, TrustUp DEF Pending
<1> HIDE DEF eight
<1>5. nine \in Database /\ SameRow(eight, nine)
  BY <1>4, MirrorUp DEF Early
<1> HIDE DEF nine
<1>6. /\ ten \in Database /\ SameRow(nine, ten)
      /\ d.version < 10 => ten.fts = [by |-> "ToolIndex", rows |-> d.tools]
  BY <1>2, <1>4, <1>5, FieldedUp DEF Pending, SameRow
<1> HIDE DEF ten
<1>7. RunMigrations(d) = [ten EXCEPT !.version = Latest]
  BY DEF RunMigrations, six, seven, eight, nine, ten
<1>8. Migrated(d, ten)
  BY <1>3, <1>4, <1>5, <1>6 DEF Migrated, SameRow, first
<1> QED BY <1>7, <1>8

LEMMA MigratesAll ==
  ASSUME NEW d \in Database
  PROVE  RunMigrations(d) \in Database /\ RunMigrations(d).version = Latest
<1>1. PICK e \in Database : RunMigrations(d) = [e EXCEPT !.version = Latest]
  BY AllUp DEF Migrated
<1>2. Latest \in 0..Latest
  BY DEF Latest
<1> QED BY <1>1, <1>2 DEF Database

\* A database some version left keeps what it should.
LEMMA UpgradesDated ==
  ASSUME NEW d, Dated(d), RunMigrations(d).version # d.version
  PROVE  Upgraded(d, RunMigrations(d))
<1>1. d \in Database /\ d.version \in 0..Latest /\ d.hashed \in BOOLEAN
  BY DEF Dated, Database
<1>2. PICK e : Migrated(d, e) /\ RunMigrations(d) = [e EXCEPT !.version = Latest]
  BY <1>1, AllUp
<1> DEFINE m == RunMigrations(d)
<1>3. e \in Database
  BY <1>2 DEF Migrated
<1>4. /\ m.enabled = e.enabled /\ m.url = e.url /\ m.fts = e.fts /\ m.pins = e.pins
  BY <1>2, <1>3 DEF Database
<1> HIDE DEF m
<1>5. CASE d.version < 7
  <2>1. "active" \in d.cols \/ (d.version = 0 /\ d.cols = {})
    BY <1>1, <1>5 DEF Dated, Left1x, Left2x
  <2> QED BY <1>1, <1>2, <1>4, <1>5, <2>1 DEF Migrated, Upgraded, m
<1>6. CASE d.version >= 7
  <2>1. "active" \notin d.cols /\ d.cols # {} /\ d.hashed
    BY <1>1, <1>6 DEF Dated, Left1x, Left2x
  <2> QED BY <1>1, <1>2, <1>4, <1>6, <2>1 DEF Migrated, Upgraded, m
<1> QED BY <1>1, <1>5, <1>6 DEF Latest

-----------------------------------------------------------------------------
(* The secrets: the inductive invariant.                                         *)
(*                                                                               *)
(* A value is in two places while it moves, and in pieces while it is split, so  *)
(* every conjunct says what the store has when the process stops right here:     *)
(* JobInv how far the write in hand has got, PlainInv, MoveInv and UpInv what    *)
(* the accounts of each phase still wait for, PhaseInv and FilesInv which files  *)
(* the process may rely on, and ServedInv what serving promises, weakened by     *)
(* the moves that are still to come.                                             *)

\* The writes that store a value, and those that remove one.
Putting == job.at \in {"part", "head", "rest", "file"}
Dropping == job.at \in {"unhead", "unrest", "unfile"}
\* The first n parts of a keychain entry, and a whole one: HoldsReads is why it is enough.
HasParts(e, v, n) == \A k \in 1..n : e.parts[k] = v
Holds(e, v) == /\ e.head = IF Needs(v) = 0 THEN v ELSE Split
               /\ e.count = Needs(v) /\ HasParts(e, v, Needs(v))
\* A row that names the store written to would read v.
Filed(a, v) == Get(active, a) = v /\ (active = "file" => at["secrets"] = "data")
\* The store a drop empties.
Emptied == IF pc = "move" THEN Other ELSE active

JobInv ==
  /\ job # NoJob => pc \in {"plain", "move", "up"} /\ job.a \notin left
  /\ job.at \in {"part", "head", "rest"} => active = "keyring"
  /\ job.at = "file" => active = "file"
  /\ Putting => job.v # Absent
  /\ job.at = "part" => job.upto = Needs(job.v) /\ job.i <= job.upto
                        /\ HasParts(ring[job.a], job.v, job.i - 1)
  /\ job.at = "head" => HasParts(ring[job.a], job.v, Needs(job.v))
  /\ job.at = "rest" => job.i > Needs(job.v) /\ Holds(ring[job.a], job.v)
  /\ job.at = "row" => pc # "plain" /\ (job.v = Absent \/ Filed(job.a, job.v))
  /\ Dropping => pc # "plain" /\ (pc = "up" => job.v = Absent)
  /\ job.at \in {"unhead", "unrest"} => Emptied = "keyring"
  /\ job.at = "unfile" => Emptied = "file"

PhaseInv ==
  /\ pc \notin {"plain", "move", "up"} => left = {} /\ active = "file"
  /\ active = "keyring" => reach
  /\ pc \in {"move", "up"} => \A a \in Account : rows[a].in # "plain"
  /\ pc \notin {"down", "adopt"} => at["db"] # "legacy"
  /\ schema \in OldSchemas \/ schema.version = Latest

FilesInv ==
  \A a \in Account : wanted[a] = Settled /\ rows[a].in = "file" /\ at["secrets"] = "legacy"
                       => at["db"] = "legacy" \/ pc = "adopt"

PlainInv ==
  pc = "plain" =>
    /\ \A a \in left : rows[a].in = "plain"
    /\ job # NoJob => rows[job.a].in = "plain" /\ job.v = rows[job.a].value
    /\ \A a \in Account : rows[a].in = "plain" =>
         a \in left \/ (job # NoJob /\ job.a = a) \/ Filed(a, rows[a].value)

MoveInv ==
  pc = "move" =>
    /\ \A a \in left : rows[a].in = Other /\ Get(Other, a) # Absent
    /\ job # NoJob => job.v # Absent
    /\ Putting \/ job.at = "row" => rows[job.a].in = Other /\ job.v = Get(Other, job.a)
    /\ Dropping => rows[job.a].in = active

UpInv ==
  pc = "up" => /\ \A a \in left : wanted[a] = Absent
               /\ job # NoJob => wanted[job.a] = job.v

ServedInv ==
  pc \in {"move", "up"} =>
    \A a \in Account : Known(a) =>
      \/ rows[a].in = active
      \/ rows[a].in = Other /\ (~reach \/ Get(Other, a) = Absent)
      \/ pc = "move" /\ rows[a].in = Other /\ (a \in left \/ (job # NoJob /\ job.a = a))

SecretInv == /\ SecretTypeOK /\ JobInv /\ PhaseInv /\ FilesInv
             /\ PlainInv /\ MoveInv /\ UpInv /\ ServedInv

LEMMA NeedsType == ASSUME NEW v \in Value \cup {Mixed} PROVE Needs(v) \in 0..MaxChunks
BY ChunkCounts, ValuesDiffer DEF Needs

LEMMA HoldsReads ==
  ASSUME NEW e \in Entry, NEW v \in Value \cup {Mixed}, Holds(e, v) PROVE Joined(e) = v
<1>1. CASE Needs(v) = 0
  <2>1. v # Mixed
    BY <1>1 DEF Needs
  <2>2. e.head = v /\ v # Split
    BY <1>1, <2>1, ValuesDiffer DEF Holds
  <2> QED BY <2>2 DEF Joined
<1>2. CASE Needs(v) # 0
  <2>1. Needs(v) \in 0..MaxChunks
    BY NeedsType
  <2>2. e.head = Split /\ e.count = Needs(v) /\ \A k \in 1..e.count : e.parts[k] = v
    BY <1>2 DEF Holds, HasParts
  <2> DEFINE used == {e.parts[i] : i \in 1..e.count}
  <2>3. 1 \in 1..e.count
    BY <1>2, <2>1, <2>2, ChunkCounts
  <2>4. used = {v}
    BY <2>2, <2>3
  <2>5. (CHOOSE w \in used : TRUE) = v
    BY <2>4
  <2>6. Absent \notin used
    BY <2>4, ValuesDiffer
  <2>7. CASE v = Mixed
    <3>1. ~\E w \in Value : used = {w} /\ Chunks[w] = e.count
      BY <2>4, <2>7, ValuesDiffer
    <3> QED BY <2>2, <2>6, <2>7, <3>1 DEF Joined
  <2>8. CASE v # Mixed
    <3>1. \E w \in Value : used = {w} /\ Chunks[w] = e.count
      BY <2>2, <2>4, <2>8 DEF Needs
    <3> QED BY <2>2, <2>5, <2>6, <3>1 DEF Joined
  <2> QED BY <2>7, <2>8
<1> QED BY <1>1, <1>2

LEMMA JoinedType ==
  ASSUME NEW e \in Entry PROVE Joined(e) \in Value \cup {Absent, Mixed}
<1> DEFINE used == {e.parts[i] : i \in 1..e.count}
<1>1. CASE \E w \in Value : used = {w} /\ Chunks[w] = e.count
  <2>1. PICK w \in Value : used = {w}
    BY <1>1
  <2>2. (CHOOSE x \in used : TRUE) \in Value
    BY <2>1
  <2> QED BY <1>1, <2>2 DEF Joined, Entry
<1>2. CASE ~\E w \in Value : used = {w} /\ Chunks[w] = e.count
  BY <1>2 DEF Joined, Entry
<1> QED BY <1>1, <1>2

LEMMA GetType ==
  ASSUME SecretTypeOK, NEW a \in Account, NEW store \in Stores
  PROVE  Get(store, a) \in Value \cup {Absent, Mixed}
BY JoinedType DEF SecretTypeOK, Get, RingGet, FileGet, Seal

\* What has a job, and what has none.
LEMMA InHandHasJob ==
  ASSUME SecretTypeOK
  PROVE  /\ job # NoJob <=> job \in InHand
         /\ job # NoJob <=> job.at # "none"
         /\ Putting \/ Dropping \/ job.at = "row" <=> job # NoJob
         /\ job # NoJob => job.a \in Account
BY DEF SecretTypeOK, InHand, NoJob, Putting, Dropping

LEMMA Stored ==
  ASSUME SecretTypeOK, NEW a \in Account
  PROVE  /\ rows[a] \in RowOf
         /\ rows[a] = NoRow \/ rows[a].in \in {"plain", "keyring", "file"}
         /\ rows[a].in = "plain" => rows[a].value \in Value
         /\ Known(a) <=> rows[a].in # "none"
BY DEF SecretTypeOK, RowOf, NoRow, Row, Plain, Stores, Known

LEMMA NewJob ==
  ASSUME NEW a \in Account, NEW v \in Value \cup {Absent, Mixed},
         NEW write \in {"part", "head", "file", "row", "unhead", "unfile"}
  PROVE  /\ Job(write, a, v) \in InHand /\ Job(write, a, v) # NoJob
         /\ Job(write, a, v).at = write /\ Job(write, a, v).a = a
         /\ Job(write, a, v).v = v /\ Job(write, a, v).i = 1
BY ChunkCounts DEF Job, InHand, NoJob

LEMMA PutIs ==
  ASSUME NEW a \in Account, NEW v \in Value \cup {Mixed}, NEW store \in Stores
  PROVE  /\ Put(store, a, v) \in InHand /\ Put(store, a, v) # NoJob
         /\ Put(store, a, v).a = a /\ Put(store, a, v).v = v
         /\ store = "file" => Put(store, a, v).at = "file"
         /\ store = "keyring" => \/ Put(store, a, v).at = "head" /\ Needs(v) = 0
                                 \/ /\ Put(store, a, v).at = "part" /\ Put(store, a, v).i = 1
                                    /\ Put(store, a, v).upto = Needs(v) /\ Needs(v) # 0
<1>1. Needs(v) \in 0..MaxChunks
  BY NeedsType
<1> QED BY <1>1, ChunkCounts DEF Put, Job, InHand, NoJob, Stores

LEMMA DropIs ==
  ASSUME NEW a \in Account, NEW v \in Value \cup {Absent, Mixed}, NEW store \in Stores
  PROVE  /\ Drop(store, a, v) \in InHand /\ Drop(store, a, v) # NoJob
         /\ Drop(store, a, v).a = a /\ Drop(store, a, v).v = v
         /\ Drop(store, a, v).at = IF store = "keyring" THEN "unhead" ELSE "unfile"
BY NewJob DEF Drop

LEMMA OtherStore ==
  ASSUME SecretTypeOK
  PROVE  Other \in Stores /\ Other # active /\ Stores = {active, Other}
BY DEF SecretTypeOK, Other, Stores

-----------------------------------------------------------------------------
(* One write of a put. *)

\* What such a write leaves alone: the other accounts, and the other store.
PutOnly ==
  /\ KeepsSQLite /\ UNCHANGED <<old, rekeyed>>
  /\ \A a \in Account \ {job.a} : ring'[a] = ring[a] /\ file'[a] = file[a]
  /\ active = "keyring" => file' = file /\ at' = at
  /\ active = "file" => ring' = ring /\ at' = [at EXCEPT !["secrets"] = "data"]

\* It is followed by the next one, or the row; or the value is filed.
PutOn ==
  \/ /\ job'.at \in {"part", "head", "rest", "file"} \/ (job'.at = "row" /\ pc # "plain")
     /\ job'.a = job.a /\ job'.v = job.v
  \/ /\ pc = "plain" /\ job' = NoJob
     /\ \A a \in Account, v \in Value : job.a = a /\ job.v = v => Filed(a, v)'

\* What the vault sees of a step that neither starts nor ends a write.
Undisturbed == /\ wanted' = wanted
               /\ \A a \in Account : wanted[a] = Settled => Recorded(a)' = Recorded(a)

\* The file store is not behind once a start has got to the secrets.
LEMMA FileIsHome ==
  ASSUME SecretInv, NEW a \in Account, wanted[a] = Settled, pc \in {"plain", "move", "up"},
         rows[a].in = "file"
  PROVE  at["secrets"] # "legacy"
BY DEF SecretInv, FilesInv, PhaseInv

\* An account whose row stays where it is, and whose store reads the same.
LEMMA ReadsTheSame ==
  ASSUME SecretInv, NEW a \in Account, wanted[a] = Settled, pc \in {"plain", "move", "up"},
         rows' = rows, at'["secrets"] \in {at["secrets"], "data"},
         rows[a].in \in Stores => Get(rows[a].in, a)' = Get(rows[a].in, a)
  PROVE  Recorded(a)' = Recorded(a)
<1>1. rows[a].in = "file" => at["secrets"] # "legacy" /\ at'["secrets"] # "legacy"
  BY FileIsHome
<1>2. CASE rows[a].in \notin Stores
  BY <1>2 DEF Recorded
<1>3. CASE rows[a].in = "keyring"
  BY <1>3 DEF Recorded, Stores, Get, RingGet, FileGet
<1>4. CASE rows[a].in = "file"
  BY <1>1, <1>4 DEF Recorded, Stores, Get, RingGet, FileGet
<1> QED BY <1>2, <1>3, <1>4 DEF Stores

LEMMA PutReads ==
  ASSUME SecretInv, Putting, PutOnly
  PROVE  /\ \A a \in Account \ {job.a}, s \in Stores : Get(s, a)' = Get(s, a)
         /\ \A a \in Account : Get(Other, a)' = Get(Other, a)
         /\ at'["db"] = at["db"] /\ at'["secrets"] \in {at["secrets"], "data"}
         /\ Other' = Other
         /\ pc \in {"plain", "move", "up"} /\ job # NoJob /\ job.a \in Account /\ job.a \notin left
<1>1. \A a \in Account \ {job.a}, s \in Stores : Get(s, a)' = Get(s, a)
  BY DEF PutOnly, Get, RingGet, FileGet
<1>2. active \in Stores
  BY DEF SecretInv, SecretTypeOK
<1>3. \A a \in Account : Get(Other, a)' = Get(Other, a)
  BY <1>2 DEF PutOnly, KeepsSQLite, process, Get, RingGet, FileGet, Other, Stores
<1>4. at'["db"] = at["db"] /\ at'["secrets"] \in {at["secrets"], "data"}
  BY <1>2 DEF PutOnly, SecretInv, SecretTypeOK, Files, Stores
<1>5. Other' = Other
  BY DEF PutOnly, KeepsSQLite, process, Other
<1>6. pc \in {"plain", "move", "up"} /\ job # NoJob /\ job.a \in Account /\ job.a \notin left
  BY InHandHasJob DEF SecretInv, JobInv
<1> QED BY <1>1, <1>3, <1>4, <1>5, <1>6

LEMMA PutKeeps ==
  ASSUME SecretInv, Putting, PutOnly, PutOn
  PROVE  PhaseInv' /\ FilesInv' /\ PlainInv' /\ MoveInv' /\ UpInv' /\ ServedInv'
         /\ Undisturbed
<1>0. /\ \A a \in Account \ {job.a}, s \in Stores : Get(s, a)' = Get(s, a)
      /\ \A a \in Account : Get(Other, a)' = Get(Other, a)
      /\ at'["db"] = at["db"] /\ at'["secrets"] \in {at["secrets"], "data"}
      /\ Other' = Other
      /\ pc \in {"plain", "move", "up"} /\ job # NoJob /\ job.a \in Account /\ job.a \notin left
  BY PutReads
<1>1. UNCHANGED <<pc, active, reach, left, rows, schema, wanted, torn>>
  BY DEF PutOnly, KeepsSQLite, process
<1>2. active \in Stores /\ SecretTypeOK
  BY DEF SecretInv, SecretTypeOK
<1>3. PhaseInv'
  BY <1>0, <1>1 DEF SecretInv, PhaseInv
<1>4. FilesInv'
  BY <1>0, <1>1 DEF SecretInv, FilesInv
<1>5. job' # NoJob => job'.a = job.a /\ job'.v = job.v
  BY DEF PutOn
<1>6. job' = NoJob => /\ pc = "plain"
                      /\ \A a \in Account, v \in Value : job.a = a /\ job.v = v => Filed(a, v)'
  BY DEF PutOn, NoJob
<1>7. PlainInv'
  <2> SUFFICES ASSUME pc = "plain" PROVE PlainInv'
    BY <1>1 DEF PlainInv
  <2>1. /\ \A a \in left : rows[a].in = "plain"
        /\ rows[job.a].in = "plain" /\ job.v = rows[job.a].value
        /\ \A a \in Account : rows[a].in = "plain" =>
             a \in left \/ job.a = a \/ Filed(a, rows[a].value)
    BY <1>0 DEF SecretInv, PlainInv
  <2>2. ASSUME NEW a \in Account, rows[a].in = "plain"
        PROVE  a \in left \/ (job' # NoJob /\ job'.a = a) \/ Filed(a, rows[a].value)'
    <3>1. CASE a = job.a
      <4>1. rows[a].value \in Value
        BY <1>2, <2>2, Stored
      <4>2. job' = NoJob => Filed(a, rows[a].value)'
        <5>1. PICK v \in Value : v = rows[a].value
          BY <4>1
        <5>2. job' = NoJob => Filed(a, v)'
          BY <1>6, <2>1, <3>1, <5>1
        <5>3. rows'[a].value = v
          BY <1>1, <5>1
        <5> QED BY <5>2, <5>3 DEF Filed
      <4> QED BY <1>1, <1>5, <3>1, <4>2
    <3>2. CASE a # job.a /\ Filed(a, rows[a].value)
      BY <1>0, <1>1, <1>2, <3>2 DEF Filed
    <3> QED BY <2>1, <2>2, <3>1, <3>2
  <2> QED BY <1>1, <1>5, <2>1, <2>2 DEF PlainInv
<1>8. MoveInv'
  <2> SUFFICES ASSUME pc = "move" PROVE MoveInv'
    BY <1>1 DEF MoveInv
  <2>1. /\ \A a \in left : rows[a].in = Other /\ Get(Other, a) # Absent
        /\ job.v # Absent /\ rows[job.a].in = Other /\ job.v = Get(Other, job.a)
    BY <1>0 DEF SecretInv, MoveInv
  <2>2. left \subseteq Account
    BY <1>2 DEF SecretTypeOK
  <2>3. job'.a = job.a /\ job'.v = job.v /\ ~Dropping'
    BY <1>5, <1>6 DEF PutOn, Dropping
  <2> QED BY <1>0, <1>1, <2>1, <2>2, <2>3 DEF MoveInv
<1>9. UpInv'
  BY <1>0, <1>1, <1>5 DEF SecretInv, UpInv
<1>10. ServedInv'
  <2>1. pc # "plain" => job' # NoJob /\ job'.a = job.a
    BY <1>5, <1>6
  <2>2. \A a \in Account : Known(a)' = Known(a)
    BY <1>1 DEF Known
  <2> QED BY <1>0, <1>1, <2>1, <2>2 DEF SecretInv, ServedInv
<1>11. Undisturbed
  <2> SUFFICES ASSUME NEW a \in Account, wanted[a] = Settled PROVE Recorded(a)' = Recorded(a)
    BY <1>1 DEF Undisturbed
  <2>1. CASE a # job.a
    <3>1. rows[a].in \in Stores => Get(rows[a].in, a)' = Get(rows[a].in, a)
      <4>1. \A s \in Stores : Get(s, a)' = Get(s, a)
        BY <1>0, <2>1
      <4> QED BY <1>1, <4>1 DEF Get, RingGet, FileGet
    <3> QED BY <1>0, <1>1, <3>1, ReadsTheSame
  <2>2. CASE a = job.a /\ pc = "plain"
    <3>1. rows[a].in = "plain"
      BY <1>0, <2>2 DEF SecretInv, PlainInv
    <3> QED BY <1>1, <3>1 DEF Recorded, Stores
  <2>3. CASE a = job.a /\ pc = "move"
    <3>1. rows[a].in = Other
      BY <1>0, <2>3 DEF SecretInv, MoveInv
    <3>2. Get(rows[a].in, a)' = Get(rows[a].in, a)
      BY <1>0, <1>1, <3>1 DEF Get, RingGet, FileGet
    <3> QED BY <1>0, <1>1, <3>2, ReadsTheSame
  <2>4. CASE a = job.a /\ pc = "up"
    <3>1. wanted[a] = job.v /\ job.v \in Value \cup {Mixed}
      BY <1>0, <2>4 DEF SecretInv, UpInv, SecretTypeOK, InHand, JobInv
    <3> QED BY <3>1, ValuesDiffer
  <2> QED BY <1>0, <2>1, <2>2, <2>3, <2>4
<1> QED BY <1>3, <1>4, <1>7, <1>8, <1>9, <1>10, <1>11

-----------------------------------------------------------------------------
(* One write of a drop: the same, but of the store the value is dropped from. *)

DropOnly ==
  /\ KeepsSQLite /\ UNCHANGED <<old, rekeyed>>
  /\ \A a \in Account \ {job.a} : ring'[a] = ring[a] /\ file'[a] = file[a]
  /\ Emptied = "keyring" => file' = file /\ at' = at
  /\ Emptied = "file" => ring' = ring /\ (at' = at \/ at' = [at EXCEPT !["secrets"] = "data"])

DropOn ==
  \/ /\ job'.at \in {"unhead", "unrest", "unfile"} \/ (job'.at = "row" /\ pc = "up")
     /\ job'.a = job.a /\ job'.v = job.v
  \/ pc = "move" /\ job' = NoJob

LEMMA DropReads ==
  ASSUME SecretInv, Dropping, DropOnly
  PROVE  /\ \A a \in Account \ {job.a}, s \in Stores : Get(s, a)' = Get(s, a)
         /\ pc = "up" => \A a \in Account : Get(Other, a)' = Get(Other, a)
         /\ at'["db"] = at["db"] /\ at'["secrets"] \in {at["secrets"], "data"}
         /\ Other' = Other
         /\ pc \in {"move", "up"} /\ job # NoJob /\ job.a \in Account /\ job.a \notin left
<1>1. \A a \in Account \ {job.a}, s \in Stores : Get(s, a)' = Get(s, a)
  BY DEF DropOnly, Get, RingGet, FileGet
<1>2. active \in Stores
  BY DEF SecretInv, SecretTypeOK
<1>3. Emptied \in Stores
  BY <1>2 DEF Emptied, Other, Stores
<1>4. ASSUME pc = "up" PROVE \A a \in Account : Get(Other, a)' = Get(Other, a)
  BY <1>2, <1>4 DEF DropOnly, KeepsSQLite, process, Get, RingGet, FileGet, Other, Stores, Emptied
<1>5. at'["db"] = at["db"] /\ at'["secrets"] \in {at["secrets"], "data"}
  BY <1>3 DEF DropOnly, SecretInv, SecretTypeOK, Files, Stores
<1>6. Other' = Other
  BY DEF DropOnly, KeepsSQLite, process, Other
<1>7. pc \in {"move", "up"} /\ job # NoJob /\ job.a \in Account /\ job.a \notin left
  BY InHandHasJob DEF SecretInv, JobInv
<1> QED BY <1>1, <1>4, <1>5, <1>6, <1>7

LEMMA DropKeeps ==
  ASSUME SecretInv, Dropping, DropOnly, DropOn
  PROVE  PhaseInv' /\ FilesInv' /\ PlainInv' /\ MoveInv' /\ UpInv' /\ ServedInv'
         /\ Undisturbed
<1>0. /\ \A a \in Account \ {job.a}, s \in Stores : Get(s, a)' = Get(s, a)
      /\ pc = "up" => \A a \in Account : Get(Other, a)' = Get(Other, a)
      /\ at'["db"] = at["db"] /\ at'["secrets"] \in {at["secrets"], "data"}
      /\ Other' = Other
      /\ pc \in {"move", "up"} /\ job # NoJob /\ job.a \in Account /\ job.a \notin left
  BY DropReads
<1>1. UNCHANGED <<pc, active, reach, left, rows, schema, wanted, torn>>
  BY DEF DropOnly, KeepsSQLite, process
<1>2. active \in Stores /\ SecretTypeOK
  BY DEF SecretInv, SecretTypeOK
<1>3. Other \in Stores
  BY <1>2, OtherStore
<1>4. PhaseInv'
  BY <1>0, <1>1 DEF SecretInv, PhaseInv
<1>5. FilesInv'
  BY <1>0, <1>1 DEF SecretInv, FilesInv
<1>6. PlainInv'
  BY <1>0, <1>1 DEF PlainInv
<1>7. job' # NoJob => job'.a = job.a /\ job'.v = job.v
  BY DEF DropOn
<1>8. MoveInv'
  <2> SUFFICES ASSUME pc = "move" PROVE MoveInv'
    BY <1>1 DEF MoveInv
  <2>1. /\ \A a \in left : rows[a].in = Other /\ Get(Other, a) # Absent
        /\ job.v # Absent /\ rows[job.a].in = active
    BY <1>0 DEF SecretInv, MoveInv
  <2>2. left \subseteq Account
    BY <1>2 DEF SecretTypeOK
  <2>3. ~(Putting \/ job.at = "row")'
    BY DEF DropOn, Putting, NoJob
  <2>4. \A a \in left : Get(Other, a)' # Absent
    BY <1>0, <1>3, <2>1, <2>2
  <2>5. Dropping' => rows[job'.a].in = active
    BY <1>7, <2>1 DEF Dropping, NoJob
  <2> QED BY <1>0, <1>1, <1>7, <2>1, <2>3, <2>4, <2>5 DEF MoveInv
<1>9. UpInv'
  BY <1>0, <1>1, <1>7 DEF SecretInv, UpInv
<1>10. ServedInv'
  <2>1. \A a \in Account : Known(a)' = Known(a)
    BY <1>1 DEF Known
  <2>2. CASE pc = "up"
    BY <1>0, <1>1, <2>1, <2>2 DEF SecretInv, ServedInv
  <2>3. CASE pc = "move"
    <3>1. rows[job.a].in = active
      BY <1>0, <2>3 DEF SecretInv, MoveInv
    <3>2. \A a \in Account \ {job.a} : Get(Other, a)' = Get(Other, a)
      BY <1>0, <1>3
    <3> QED BY <1>0, <1>1, <2>1, <2>3, <3>1, <3>2 DEF SecretInv, ServedInv
  <2> QED BY <1>0, <2>2, <2>3
<1>11. Undisturbed
  <2> SUFFICES ASSUME NEW a \in Account, wanted[a] = Settled PROVE Recorded(a)' = Recorded(a)
    BY <1>1 DEF Undisturbed
  <2>1. CASE a # job.a
    <3>1. rows[a].in \in Stores => Get(rows[a].in, a)' = Get(rows[a].in, a)
      <4>1. \A s \in Stores : Get(s, a)' = Get(s, a)
        BY <1>0, <2>1
      <4> QED BY <1>1, <4>1 DEF Get, RingGet, FileGet
    <3> QED BY <1>0, <1>1, <3>1, ReadsTheSame
  <2>2. CASE a = job.a /\ pc = "move"
    <3>1. rows[a].in = active
      BY <1>0, <2>2 DEF SecretInv, MoveInv
    <3>2. Get(rows[a].in, a)' = Get(rows[a].in, a)
      BY <1>1, <1>2, <2>2, <3>1 DEF DropOnly, Get, RingGet, FileGet, Emptied, Other, Stores
    <3> QED BY <1>0, <1>1, <3>2, ReadsTheSame
  <2>3. CASE a = job.a /\ pc = "up"
    <3>1. wanted[a] = Absent
      BY <1>0, <2>3 DEF SecretInv, UpInv, JobInv
    <3> QED BY <3>1, ValuesDiffer
  <2> QED BY <1>0, <2>1, <2>2, <2>3
<1> QED BY <1>4, <1>5, <1>6, <1>8, <1>9, <1>10, <1>11

-----------------------------------------------------------------------------
(* The writes one by one. *)

LEMMA PartWritten ==
  ASSUME SecretTypeOK, NEW a \in Account, NEW i \in 1..MaxChunks, NEW v \in Value \cup {Absent, Mixed},
         WritePart(a, i, v)
  PROVE  /\ ring' \in [Account -> Entry]
         /\ \A b \in Account \ {a} : ring'[b] = ring[b]
         /\ ring'[a].head = ring[a].head /\ ring'[a].count = ring[a].count
         /\ ring'[a].parts[i] = v
         /\ \A k \in 1..MaxChunks : k # i => ring'[a].parts[k] = ring[a].parts[k]
<1> DEFINE e == ring[a]
           f == [e EXCEPT !.parts[i] = v]
<1>1. ring \in [Account -> Entry] /\ e \in Entry
  BY DEF SecretTypeOK
<1>2. ring' = [ring EXCEPT ![a] = f]
  BY DEF WritePart
<1>3. /\ f \in Entry /\ f.head = e.head /\ f.count = e.count /\ f.parts[i] = v
      /\ \A k \in 1..MaxChunks : k # i => f.parts[k] = e.parts[k]
  BY <1>1 DEF Entry
<1> HIDE DEF f
<1> QED BY <1>1, <1>2, <1>3

LEMMA HeadWritten ==
  ASSUME SecretTypeOK, NEW a \in Account, NEW n \in 0..MaxChunks, NEW h \in Value \cup {Absent, Split},
         WriteHead(a, h, n)
  PROVE  /\ ring' \in [Account -> Entry]
         /\ \A b \in Account \ {a} : ring'[b] = ring[b]
         /\ ring'[a].head = h /\ ring'[a].count = n /\ ring'[a].parts = ring[a].parts
<1> DEFINE e == ring[a]
           f == [e EXCEPT !.head = h, !.count = n]
<1>1. ring \in [Account -> Entry] /\ e \in Entry
  BY DEF SecretTypeOK
<1>2. ring' = [ring EXCEPT ![a] = f]
  BY <1>1 DEF WriteHead
<1>3. f \in Entry /\ f.head = h /\ f.count = n /\ f.parts = e.parts
  BY <1>1 DEF Entry
<1> HIDE DEF f
<1> QED BY <1>1, <1>2, <1>3

LEMMA Framed ==
  ASSUME SecretTypeOK, KeepsSQLite, job' \in InHand \cup {NoJob}, UNCHANGED <<old, rekeyed>>,
         ring' \in [Account -> Entry], file' \in [Account -> Seal],
         at' = at \/ at' = [at EXCEPT !["secrets"] = "data"]
  PROVE  SecretTypeOK'
<1>1. at' \in [Files -> {"none", "legacy", "data"}]
  BY DEF SecretTypeOK, Files
<1> QED BY <1>1 DEF SecretTypeOK, KeepsSQLite, process

\* The value that was stored is read back.
LEMMA FiledNow ==
  ASSUME ring' \in [Account -> Entry], active' = "keyring", NEW a \in Account,
         NEW v \in Value \cup {Mixed}, Holds(ring'[a], v)
  PROVE  Filed(a, v)'
<1>1. Joined(ring'[a]) = v
  BY HoldsReads
<1> QED BY <1>1 DEF Filed, Get, RingGet

LEMMA Putter ==
  ASSUME SecretInv, Putting
  PROVE  /\ job \in InHand /\ job.a \in Account /\ job.v \in Value \cup {Mixed}
         /\ job.i \in 1..MaxChunks /\ job.upto \in 0..MaxChunks
         /\ Needs(job.v) \in 0..MaxChunks /\ job # NoJob
         /\ pc \in {"plain", "move", "up"} /\ job.a \notin left
<1>1. job \in InHand /\ job # NoJob
  BY InHandHasJob DEF SecretInv
<1>2. job.v \in Value \cup {Mixed}
  BY <1>1 DEF InHand, SecretInv, JobInv
<1> QED BY <1>1, <1>2, NeedsType DEF InHand, SecretInv, JobInv

\* The end of a put.
LEMMA PutEnds ==
  ASSUME SecretInv, Putting, KeepsSQLite, job' = AfterPut,
         \A a \in Account, v \in Value \cup {Mixed} : job.a = a /\ job.v = v => Filed(a, v)'
  PROVE  job' \in InHand \cup {NoJob} /\ JobInv' /\ PutOn
<1>1. job.a \in Account /\ job.v \in Value \cup {Mixed} /\ job.a \notin left
  BY Putter
<1>2. CASE pc = "plain"
  <2>1. job' = NoJob
    BY <1>2 DEF AfterPut
  <2>2. JobInv'
    BY <2>1 DEF JobInv, NoJob, Putting, Dropping
  <2> QED BY <1>2, <2>1, <2>2 DEF PutOn
<1>3. CASE pc # "plain"
  <2>1. /\ job' \in InHand /\ job' # NoJob /\ job'.at = "row"
        /\ job'.a = job.a /\ job'.v = job.v
    BY <1>1, <1>3, NewJob DEF AfterPut
  <2>2. Filed(job.a, job.v)'
    <3>1. PICK a \in Account, v \in Value \cup {Mixed} : job.a = a /\ job.v = v
      BY <1>1
    <3>2. Filed(a, v)'
      BY <3>1
    <3> QED BY <2>1, <3>1, <3>2 DEF Filed
  <2>3. pc' = pc /\ left' = left /\ pc \in {"move", "up"}
    BY <1>3 DEF KeepsSQLite, process, SecretInv, JobInv, Putting, NoJob
  <2>4. JobInv'
    BY <1>1, <2>1, <2>2, <2>3 DEF JobInv, Putting, Dropping
  <2> QED BY <1>3, <2>1, <2>4 DEF PutOn
<1> QED BY <1>2, <1>3

LEMMA PutPartKeeps == ASSUME SecretInv, PutPart PROVE SecretInv' /\ Undisturbed
<1>1. Putting /\ job.at = "part"
  BY DEF PutPart, Putting
<1>2. /\ job \in InHand /\ job.a \in Account /\ job.v \in Value \cup {Mixed}
      /\ job.i \in 1..MaxChunks /\ job.upto \in 0..MaxChunks /\ job # NoJob
      /\ Needs(job.v) \in 0..MaxChunks
      /\ pc \in {"plain", "move", "up"} /\ job.a \notin left
  BY <1>1, Putter
<1>3. job.upto = Needs(job.v) /\ job.i <= job.upto /\ HasParts(ring[job.a], job.v, job.i - 1)
      /\ active = "keyring"
  BY <1>1 DEF SecretInv, JobInv
<1>4. UNCHANGED <<file, old, at, rekeyed>> /\ KeepsSQLite /\ SecretTypeOK
  BY DEF PutPart, InRing, SecretInv
<1>5. /\ ring' \in [Account -> Entry]
      /\ \A b \in Account \ {job.a} : ring'[b] = ring[b]
      /\ ring'[job.a].parts[job.i] = job.v
      /\ \A k \in 1..MaxChunks : k # job.i => ring'[job.a].parts[k] = ring[job.a].parts[k]
  <2>1. job.v \in Value \cup {Absent, Mixed}
    BY <1>2
  <2> QED BY <1>2, <1>4, <2>1, PartWritten DEF PutPart
<1>6. HasParts(ring'[job.a], job.v, job.i)
  BY <1>2, <1>3, <1>5, ChunkCounts DEF HasParts
<1>7. PutOnly
  BY <1>3, <1>4, <1>5 DEF PutOnly
<1>8. pc' = pc /\ left' = left /\ active' = active
  BY <1>4 DEF KeepsSQLite, process
<1>9. CASE job.i < job.upto
  <2>1. job' = [job EXCEPT !.i = @ + 1]
    BY <1>9 DEF PutPart
  <2>2. job' \in InHand /\ job'.at = "part" /\ job'.a = job.a /\ job'.v = job.v
        /\ job'.i = job.i + 1 /\ job'.upto = job.upto
    BY <1>1, <1>2, <1>9, <2>1, ChunkCounts DEF InHand
  <2>3. HasParts(ring'[job'.a], job'.v, job'.i - 1) /\ job'.i <= job'.upto
    BY <1>2, <1>6, <1>9, <2>2
  <2>4. JobInv'
    BY <1>2, <1>3, <1>8, <2>2, <2>3, ValuesDiffer DEF JobInv, Putting, Dropping
  <2>5. SecretTypeOK'
    BY <1>4, <1>5, <2>2, Framed DEF SecretTypeOK
  <2>6. PutOn
    BY <2>2 DEF PutOn
  <2> QED BY <1>1, <1>7, <2>4, <2>5, <2>6, PutKeeps DEF SecretInv
<1>10. CASE ~(job.i < job.upto)
  <2>1. job' = Job("head", job.a, job.v)
    BY <1>10 DEF PutPart
  <2>2. job' \in InHand /\ job'.at = "head" /\ job'.a = job.a /\ job'.v = job.v
    BY <1>2, <2>1, NewJob
  <2>3. job.i = Needs(job.v)
    BY <1>2, <1>3, <1>10
  <2>4. HasParts(ring'[job'.a], job'.v, Needs(job'.v))
    BY <1>6, <2>2, <2>3
  <2>5. JobInv'
    BY <1>2, <1>3, <1>8, <2>2, <2>4, ValuesDiffer DEF JobInv, Putting, Dropping
  <2>6. SecretTypeOK'
    BY <1>4, <1>5, <2>2, Framed DEF SecretTypeOK
  <2>7. PutOn
    BY <2>2 DEF PutOn
  <2> QED BY <1>1, <1>7, <2>5, <2>6, <2>7, PutKeeps DEF SecretInv
<1> QED BY <1>9, <1>10

LEMMA PutHeadKeeps == ASSUME SecretInv, PutHead PROVE SecretInv' /\ Undisturbed
<1> DEFINE n == Needs(job.v)
           h == IF n = 0 THEN job.v ELSE Split
<1>1. Putting /\ job.at = "head"
  BY DEF PutHead, Putting
<1>2. /\ job \in InHand /\ job.a \in Account /\ job.v \in Value \cup {Mixed}
      /\ n \in 0..MaxChunks /\ job # NoJob
      /\ pc \in {"plain", "move", "up"} /\ job.a \notin left
  BY <1>1, Putter
<1>3. HasParts(ring[job.a], job.v, n) /\ active = "keyring"
  BY <1>1 DEF SecretInv, JobInv
<1>4. UNCHANGED <<file, old, at, rekeyed>> /\ KeepsSQLite /\ SecretTypeOK
  BY DEF PutHead, InRing, SecretInv
<1>5. h \in Value \cup {Absent, Split}
  <2>1. n = 0 => job.v # Mixed
    BY DEF Needs
  <2> QED BY <1>2, <2>1
<1>6. WriteHead(job.a, h, n)
  BY DEF PutHead
<1> HIDE DEF h, n
<1>7. /\ ring' \in [Account -> Entry]
      /\ \A b \in Account \ {job.a} : ring'[b] = ring[b]
      /\ ring'[job.a].head = h /\ ring'[job.a].count = n
      /\ ring'[job.a].parts = ring[job.a].parts
  BY <1>2, <1>4, <1>5, <1>6, HeadWritten
<1>8. Holds(ring'[job.a], job.v)
  BY <1>3, <1>7 DEF Holds, HasParts, h, n
<1>9. PutOnly
  BY <1>3, <1>4, <1>7 DEF PutOnly
<1>10. pc' = pc /\ left' = left /\ active' = active
  BY <1>4 DEF KeepsSQLite, process
<1>11. ring[job.a].count \in 0..MaxChunks
  BY <1>2, <1>4 DEF SecretTypeOK, Entry
<1>12. CASE ring[job.a].count <= n
  <2>1. job' = AfterPut
    BY <1>12 DEF PutHead, n
  <2>2. ASSUME NEW a \in Account, NEW v \in Value \cup {Mixed}, job.a = a, job.v = v
        PROVE  Filed(a, v)'
    <3>1. active' = "keyring" /\ Holds(ring'[a], v)
      BY <1>3, <1>8, <1>10, <2>2
    <3> QED BY <1>7, <3>1, FiledNow
  <2>3. job' \in InHand \cup {NoJob} /\ JobInv' /\ PutOn
    BY <1>1, <1>4, <2>1, <2>2, PutEnds
  <2>4. SecretTypeOK'
    BY <1>4, <1>7, <2>3, Framed DEF SecretTypeOK
  <2> QED BY <1>1, <1>9, <2>3, <2>4, PutKeeps DEF SecretInv
<1>13. CASE ~(ring[job.a].count <= n)
  <2>1. job' = [job EXCEPT !.at = "rest", !.i = n + 1, !.upto = ring[job.a].count]
    BY <1>13 DEF PutHead, n
  <2>2. /\ job' \in InHand /\ job'.at = "rest" /\ job'.a = job.a /\ job'.v = job.v
        /\ job'.i = n + 1 /\ job'.upto = ring[job.a].count
    <3> DEFINE c == ring[job.a].count
               k == n + 1
    <3>1. c \in 0..MaxChunks /\ k \in 1..MaxChunks
      BY <1>2, <1>11, <1>13, ChunkCounts
    <3>2. job' = [job EXCEPT !.at = "rest", !.i = k, !.upto = c]
      BY <2>1
    <3> HIDE DEF c, k
    <3>3. /\ job' \in InHand /\ job'.at = "rest" /\ job'.a = job.a /\ job'.v = job.v
          /\ job'.i = k /\ job'.upto = c
      BY <1>2, <3>1, <3>2 DEF InHand
    <3> QED BY <3>3 DEF c, k
  <2>3. Holds(ring'[job'.a], job'.v) /\ job'.i > Needs(job'.v)
    BY <1>2, <1>8, <2>2 DEF n
  <2>4. JobInv'
    BY <1>2, <1>3, <1>10, <2>2, <2>3, ValuesDiffer DEF JobInv, Putting, Dropping
  <2>5. SecretTypeOK'
    BY <1>4, <1>7, <2>2, Framed DEF SecretTypeOK
  <2>6. PutOn
    BY <2>2 DEF PutOn
  <2> QED BY <1>1, <1>9, <2>4, <2>5, <2>6, PutKeeps DEF SecretInv
<1> QED BY <1>12, <1>13

LEMMA DropRestKeeps == ASSUME SecretInv, DropChunk, job.at = "rest" PROVE SecretInv' /\ Undisturbed
<1>1. Putting
  BY DEF Putting
<1>2. /\ job \in InHand /\ job.a \in Account /\ job.v \in Value \cup {Mixed}
      /\ job.i \in 1..MaxChunks /\ job.upto \in 0..MaxChunks
      /\ Needs(job.v) \in 0..MaxChunks /\ job # NoJob
      /\ pc \in {"plain", "move", "up"} /\ job.a \notin left
  BY <1>1, Putter
<1>3. job.i > Needs(job.v) /\ Holds(ring[job.a], job.v) /\ active = "keyring"
  BY DEF SecretInv, JobInv
<1>4. UNCHANGED <<file, old, at, rekeyed>> /\ KeepsSQLite /\ SecretTypeOK
  BY DEF DropChunk, InRing, SecretInv
<1>5. /\ ring' \in [Account -> Entry]
      /\ \A b \in Account \ {job.a} : ring'[b] = ring[b]
      /\ ring'[job.a].head = ring[job.a].head /\ ring'[job.a].count = ring[job.a].count
      /\ \A k \in 1..MaxChunks : k # job.i => ring'[job.a].parts[k] = ring[job.a].parts[k]
  BY <1>2, <1>4, PartWritten DEF DropChunk
<1>6. Holds(ring'[job.a], job.v)
  BY <1>2, <1>3, <1>5, ChunkCounts DEF Holds, HasParts
<1>7. PutOnly
  BY <1>3, <1>4, <1>5 DEF PutOnly
<1>8. pc' = pc /\ left' = left /\ active' = active
  BY <1>4 DEF KeepsSQLite, process
<1>9. CASE job.i < job.upto
  <2>1. job' = [job EXCEPT !.i = @ + 1]
    BY <1>9 DEF DropChunk
  <2>2. job' \in InHand /\ job'.at = "rest" /\ job'.a = job.a /\ job'.v = job.v
        /\ job'.i = job.i + 1 /\ job'.upto = job.upto
    BY <1>2, <1>9, <2>1, ChunkCounts DEF InHand
  <2>3. Holds(ring'[job'.a], job'.v) /\ job'.i > Needs(job'.v)
    BY <1>2, <1>3, <1>6, <2>2
  <2>4. JobInv'
    BY <1>2, <1>3, <1>8, <2>2, <2>3, ValuesDiffer DEF JobInv, Putting, Dropping
  <2>5. SecretTypeOK'
    BY <1>4, <1>5, <2>2, Framed DEF SecretTypeOK
  <2>6. PutOn
    BY <2>2 DEF PutOn
  <2> QED BY <1>1, <1>7, <2>4, <2>5, <2>6, PutKeeps DEF SecretInv
<1>10. CASE ~(job.i < job.upto)
  <2>1. job' = AfterPut
    BY <1>10 DEF DropChunk
  <2>2. ASSUME NEW a \in Account, NEW v \in Value \cup {Mixed}, job.a = a, job.v = v
        PROVE  Filed(a, v)'
    <3>1. active' = "keyring" /\ Holds(ring'[a], v)
      BY <1>3, <1>6, <1>8, <2>2
    <3> QED BY <1>5, <3>1, FiledNow
  <2>3. job' \in InHand \cup {NoJob} /\ JobInv' /\ PutOn
    BY <1>1, <1>4, <2>1, <2>2, PutEnds
  <2>4. SecretTypeOK'
    BY <1>4, <1>5, <2>3, Framed DEF SecretTypeOK
  <2> QED BY <1>1, <1>7, <2>3, <2>4, PutKeeps DEF SecretInv
<1> QED BY <1>9, <1>10

LEMMA FileWritten ==
  ASSUME SecretTypeOK, NEW a \in Account, NEW s \in Seal, file' = [file EXCEPT ![a] = s]
  PROVE  file' \in [Account -> Seal] /\ file'[a] = s /\ \A b \in Account \ {a} : file'[b] = file[b]
BY DEF SecretTypeOK

LEMMA PutFileKeeps == ASSUME SecretInv, PutFile PROVE SecretInv' /\ Undisturbed
<1> DEFINE s == [value |-> job.v, rekeyed |-> rekeyed]
<1>1. Putting /\ job.at = "file"
  BY DEF PutFile, Putting
<1>2. job.a \in Account /\ job.v \in Value \cup {Mixed}
  BY <1>1, Putter
<1>3. active = "file"
  BY <1>1 DEF SecretInv, JobInv
<1>4. /\ UNCHANGED <<ring, old, rekeyed>> /\ at' = [at EXCEPT !["secrets"] = "data"]
      /\ KeepsSQLite /\ SecretTypeOK
  BY DEF PutFile, InFile, SecretInv
<1>5. s \in Seal /\ s.value = job.v /\ file' = [file EXCEPT ![job.a] = s]
  BY <1>2, <1>4 DEF PutFile, Seal, SecretTypeOK
<1> HIDE DEF s
<1>6. /\ file' \in [Account -> Seal] /\ file'[job.a].value = job.v
      /\ \A b \in Account \ {job.a} : file'[b] = file[b]
  BY <1>2, <1>4, <1>5, FileWritten
<1>7. PutOnly
  BY <1>3, <1>4, <1>6 DEF PutOnly
<1>8. active' = active /\ at'["secrets"] = "data"
  BY <1>4 DEF KeepsSQLite, process, SecretTypeOK, Files
<1>9. job' = AfterPut
  BY DEF PutFile
<1>10. ASSUME NEW a \in Account, NEW v \in Value \cup {Mixed}, job.a = a, job.v = v
       PROVE  Filed(a, v)'
  BY <1>3, <1>6, <1>8, <1>10 DEF Filed, Get, FileGet
<1>11. job' \in InHand \cup {NoJob} /\ JobInv' /\ PutOn
  BY <1>1, <1>4, <1>9, <1>10, PutEnds
<1>12. SecretTypeOK'
  BY <1>4, <1>6, <1>11, Framed DEF SecretTypeOK
<1> QED BY <1>1, <1>7, <1>11, <1>12, PutKeeps DEF SecretInv

LEMMA Dropper ==
  ASSUME SecretInv, Dropping
  PROVE  /\ job \in InHand /\ job.a \in Account /\ job.v \in Value \cup {Absent, Mixed}
         /\ job.i \in 1..MaxChunks /\ job.upto \in 0..MaxChunks /\ job # NoJob
         /\ pc \in {"move", "up"} /\ job.a \notin left /\ (pc = "up" => job.v = Absent)
<1>1. job \in InHand /\ job # NoJob
  BY InHandHasJob DEF SecretInv
<1> QED BY <1>1 DEF InHand, SecretInv, JobInv

\* The end of a drop, and a step to its next write.
LEMMA DropEnds ==
  ASSUME SecretInv, Dropping, KeepsSQLite, job' = AfterDrop
  PROVE  job' \in InHand \cup {NoJob} /\ JobInv' /\ DropOn
<1>1. /\ job.a \in Account /\ job.v \in Value \cup {Absent, Mixed} /\ job.a \notin left
      /\ pc \in {"move", "up"} /\ (pc = "up" => job.v = Absent)
  BY Dropper
<1>2. pc' = pc /\ left' = left /\ active' = active
  BY DEF KeepsSQLite, process
<1>3. CASE pc = "up"
  <2>1. /\ job' \in InHand /\ job' # NoJob /\ job'.at = "row" /\ job'.a = job.a /\ job'.v = job.v
    BY <1>1, <1>3, NewJob DEF AfterDrop
  <2>2. JobInv'
    BY <1>1, <1>2, <1>3, <2>1 DEF JobInv, Putting, Dropping
  <2> QED BY <1>3, <2>1, <2>2 DEF DropOn
<1>4. CASE pc = "move"
  <2>1. job' = NoJob
    BY <1>4 DEF AfterDrop
  <2>2. JobInv'
    BY <2>1 DEF JobInv, NoJob, Putting, Dropping
  <2> QED BY <1>4, <2>1, <2>2 DEF DropOn
<1> QED BY <1>1, <1>3, <1>4

LEMMA DropGoesOn ==
  ASSUME SecretInv, Dropping, KeepsSQLite, Emptied = "keyring",
         job' \in InHand, job'.at = "unrest", job'.a = job.a, job'.v = job.v
  PROVE  JobInv' /\ DropOn
<1>1. /\ job.a \notin left /\ pc \in {"move", "up"} /\ (pc = "up" => job.v = Absent)
  BY Dropper
<1>2. pc' = pc /\ left' = left /\ active' = active /\ Emptied' = Emptied
  BY DEF KeepsSQLite, process, Emptied, Other
<1>3. JobInv'
  BY <1>1, <1>2 DEF JobInv, Putting, Dropping
<1> QED BY <1>3 DEF DropOn

LEMMA DropHeadKeeps == ASSUME SecretInv, DropHead PROVE SecretInv' /\ Undisturbed
<1>1. Dropping /\ job.at = "unhead"
  BY DEF DropHead, Dropping
<1>2. /\ job \in InHand /\ job.a \in Account /\ job.v \in Value \cup {Absent, Mixed}
  BY <1>1, Dropper
<1>3. Emptied = "keyring"
  BY <1>1 DEF SecretInv, JobInv
<1>4. UNCHANGED <<file, old, at, rekeyed>> /\ KeepsSQLite /\ SecretTypeOK
  BY DEF DropHead, InRing, SecretInv
<1>5. ring' \in [Account -> Entry] /\ \A b \in Account \ {job.a} : ring'[b] = ring[b]
  <2>1. WriteHead(job.a, Absent, 0) /\ 0 \in 0..MaxChunks
    BY ChunkCounts DEF DropHead
  <2> QED BY <1>2, <1>4, <2>1, HeadWritten
<1>6. DropOnly
  BY <1>3, <1>4, <1>5 DEF DropOnly
<1>7. job' \in InHand \cup {NoJob} /\ JobInv' /\ DropOn
  <2>1. CASE ring[job.a].count = 0
    BY <1>1, <1>4, <2>1, DropEnds DEF DropHead
  <2>2. CASE ring[job.a].count # 0
    <3> DEFINE c == ring[job.a].count
    <3>1. c \in 0..MaxChunks
      BY <1>2, <1>4 DEF SecretTypeOK, Entry
    <3>2. job' = [job EXCEPT !.at = "unrest", !.upto = c]
      BY <2>2 DEF DropHead
    <3> HIDE DEF c
    <3>3. job' \in InHand /\ job'.at = "unrest" /\ job'.a = job.a /\ job'.v = job.v
      BY <1>2, <3>1, <3>2 DEF InHand
    <3> QED BY <1>1, <1>3, <1>4, <3>3, DropGoesOn
  <2> QED BY <2>1, <2>2
<1>8. SecretTypeOK'
  BY <1>4, <1>5, <1>7, Framed DEF SecretTypeOK
<1> QED BY <1>1, <1>6, <1>7, <1>8, DropKeeps DEF SecretInv

LEMMA DropChunkKeeps == ASSUME SecretInv, DropChunk, job.at # "rest" PROVE SecretInv' /\ Undisturbed
<1>1. Dropping /\ job.at = "unrest"
  BY DEF DropChunk, Dropping
<1>2. /\ job \in InHand /\ job.a \in Account /\ job.v \in Value \cup {Absent, Mixed}
      /\ job.i \in 1..MaxChunks /\ job.upto \in 0..MaxChunks
  BY <1>1, Dropper
<1>3. Emptied = "keyring"
  BY <1>1 DEF SecretInv, JobInv
<1>4. UNCHANGED <<file, old, at, rekeyed>> /\ KeepsSQLite /\ SecretTypeOK
  BY DEF DropChunk, InRing, SecretInv
<1>5. ring' \in [Account -> Entry] /\ \A b \in Account \ {job.a} : ring'[b] = ring[b]
  BY <1>2, <1>4, PartWritten DEF DropChunk
<1>6. DropOnly
  BY <1>3, <1>4, <1>5 DEF DropOnly
<1>7. job' \in InHand \cup {NoJob} /\ JobInv' /\ DropOn
  <2>1. CASE job.i < job.upto
    <3>1. job' = [job EXCEPT !.i = @ + 1]
      BY <2>1 DEF DropChunk
    <3>2. job' \in InHand /\ job'.at = "unrest" /\ job'.a = job.a /\ job'.v = job.v
      BY <1>1, <1>2, <2>1, <3>1, ChunkCounts DEF InHand
    <3> QED BY <1>1, <1>3, <1>4, <3>2, DropGoesOn
  <2>2. CASE ~(job.i < job.upto)
    BY <1>1, <1>4, <2>2, DropEnds DEF DropChunk
  <2> QED BY <2>1, <2>2
<1>8. SecretTypeOK'
  BY <1>4, <1>5, <1>7, Framed DEF SecretTypeOK
<1> QED BY <1>1, <1>6, <1>7, <1>8, DropKeeps DEF SecretInv

LEMMA DropFileKeeps == ASSUME SecretInv, DropFile PROVE SecretInv' /\ Undisturbed
<1>1. Dropping /\ job.at = "unfile"
  BY DEF DropFile, Dropping
<1>2. job.a \in Account
  BY <1>1, Dropper
<1>3. Emptied = "file"
  BY <1>1 DEF SecretInv, JobInv
<1>4. /\ UNCHANGED <<ring, old, rekeyed>> /\ (at' = at \/ at' = [at EXCEPT !["secrets"] = "data"])
      /\ KeepsSQLite /\ SecretTypeOK
  BY DEF DropFile, InFile, SecretInv, values
<1>5. file' = file \/ file' = [file EXCEPT ![job.a] = NoSeal]
  BY DEF DropFile, values
<1>6. file' \in [Account -> Seal] /\ \A b \in Account \ {job.a} : file'[b] = file[b]
  <2>1. NoSeal \in Seal
    BY DEF NoSeal, Seal
  <2>2. CASE file' = file
    BY <1>4, <2>2 DEF SecretTypeOK
  <2>3. CASE file' = [file EXCEPT ![job.a] = NoSeal]
    BY <1>2, <1>4, <2>1, <2>3, FileWritten
  <2> QED BY <1>5, <2>2, <2>3
<1>7. DropOnly
  BY <1>3, <1>4, <1>6 DEF DropOnly
<1>8. job' \in InHand \cup {NoJob} /\ JobInv' /\ DropOn
  BY <1>1, <1>4, DropEnds DEF DropFile
<1>9. SecretTypeOK'
  BY <1>4, <1>6, <1>8, Framed DEF SecretTypeOK
<1> QED BY <1>1, <1>7, <1>8, <1>9, DropKeeps DEF SecretInv

LEMMA NewRow ==
  ASSUME SecretTypeOK
  PROVE  /\ NoRow \in RowOf /\ NoRow.in = "none"
         /\ \A s \in Stores : Row(s) \in RowOf /\ Row(s).in = s /\ Row(s) # NoRow
BY DEF RowOf, NoRow, Row, Stores

LEMMA RowWritten ==
  ASSUME SecretTypeOK, NEW a \in Account, NEW r \in RowOf, rows' = [rows EXCEPT ![a] = r]
  PROVE  rows' \in [Account -> RowOf] /\ rows'[a] = r /\ \A b \in Account \ {a} : rows'[b] = rows[b]
BY DEF SecretTypeOK

LEMMA WriteRowKeeps == ASSUME SecretInv, WriteRow PROVE SecretInv'
<1> DEFINE r == IF job.v = Absent THEN NoRow ELSE Row(active)
<1>1. /\ job \in InHand /\ job # NoJob /\ job.at = "row" /\ SecretTypeOK
      /\ job.a \in Account /\ job.v \in Value \cup {Absent, Mixed}
  BY InHandHasJob DEF WriteRow, SecretInv, InHand
<1>2. /\ pc \in {"move", "up"} /\ job.a \notin left
      /\ job.v = Absent \/ Filed(job.a, job.v)
  BY <1>1 DEF SecretInv, JobInv
<1>3. UNCHANGED <<process, left, values, at, rekeyed, schema, torn, counts>>
  BY DEF WriteRow
<1>4. UNCHANGED <<pc, active, reach, left, ring, file, old, at, rekeyed, schema, torn>>
  BY <1>3 DEF process, values
<1>5. active \in Stores /\ Other \in Stores /\ Other # active /\ Other' = Other
  BY <1>1, <1>4, OtherStore DEF SecretTypeOK, Other
<1>6. r \in RowOf /\ r.in = (IF job.v = Absent THEN "none" ELSE active)
  BY <1>1, <1>5, NewRow
<1>7. rows' = [rows EXCEPT ![job.a] = r]
  BY DEF WriteRow
<1>8. /\ rows' \in [Account -> RowOf] /\ rows'[job.a] = r
      /\ \A b \in Account \ {job.a} : rows'[b] = rows[b]
  <2> HIDE DEF r
  <2> QED BY <1>1, <1>6, <1>7, RowWritten
<1>9. /\ wanted' \in [Account -> Value \cup {Absent, Settled}]
      /\ \A b \in Account \ {job.a} : wanted'[b] = wanted[b]
      /\ pc = "move" => wanted' = wanted
      /\ pc = "up" => wanted'[job.a] = Settled
  BY <1>1, <1>2 DEF WriteRow, SecretTypeOK
<1>10. pc = "move" => /\ job' \in InHand /\ job' # NoJob /\ job'.a = job.a /\ job'.v = job.v
                      /\ job'.at = IF Other = "keyring" THEN "unhead" ELSE "unfile"
  <2> SUFFICES ASSUME pc = "move"
               PROVE  /\ job' \in InHand /\ job' # NoJob /\ job'.a = job.a /\ job'.v = job.v
                      /\ job'.at = IF Other = "keyring" THEN "unhead" ELSE "unfile"
    OBVIOUS
  <2>1. job' = Drop(Other, job.a, job.v)
    BY DEF WriteRow, AfterRow
  <2>2. PICK s \in Stores, a \in Account, v \in Value \cup {Absent, Mixed} :
          s = Other /\ a = job.a /\ v = job.v
    BY <1>1, <1>5
  <2>3. job' = Drop(s, a, v)
    BY <2>1, <2>2
  <2> HIDE <2>1
  <2>4. /\ job' \in InHand /\ job' # NoJob /\ job'.a = a /\ job'.v = v
        /\ job'.at = IF s = "keyring" THEN "unhead" ELSE "unfile"
    BY <2>3, DropIs
  <2> QED BY <2>2, <2>4
<1>11. pc = "up" => job' = NoJob
  BY DEF WriteRow, AfterRow
<1> HIDE DEF r
<1>12. SecretTypeOK'
  BY <1>1, <1>2, <1>4, <1>8, <1>9, <1>10, <1>11 DEF SecretTypeOK
<1>13. JobInv'
  <2>1. CASE pc = "up"
    BY <1>11, <2>1 DEF JobInv, NoJob, Putting, Dropping
  <2>2. CASE pc = "move"
    BY <1>2, <1>4, <1>5, <1>10, <2>2 DEF JobInv, Putting, Dropping, Emptied, Stores
  <2> QED BY <1>2, <2>1, <2>2
<1>14. PhaseInv'
  <2>1. rows'[job.a].in # "plain"
    BY <1>5, <1>6, <1>8 DEF Stores
  <2> QED BY <1>2, <1>4, <1>8, <2>1 DEF SecretInv, PhaseInv
<1>15. FilesInv'
  <2>1. rows'[job.a].in = "file" => at["secrets"] = "data"
    BY <1>2, <1>6, <1>8 DEF Filed
  <2> QED BY <1>4, <1>8, <1>9, <2>1 DEF SecretInv, FilesInv
<1>16. PlainInv'
  BY <1>2, <1>4 DEF PlainInv
<1>17. \A b \in Account : Get(Other, b)' = Get(Other, b)
  BY <1>4, <1>5 DEF Get, RingGet, FileGet
<1>18. MoveInv'
  <2> SUFFICES ASSUME pc = "move" PROVE MoveInv'
    BY <1>4 DEF MoveInv
  <2>1. (\A b \in left : rows[b].in = Other /\ Get(Other, b) # Absent) /\ job.v # Absent
    BY <1>1 DEF SecretInv, MoveInv
  <2>2. left \subseteq Account \ {job.a}
    BY <1>1, <1>2 DEF SecretTypeOK
  <2>3. \A b \in left : rows'[b].in = Other /\ Get(Other, b)' # Absent
    BY <1>8, <1>17, <2>1, <2>2
  <2>4. ~(Putting \/ job.at = "row")'
    BY <1>10 DEF Putting
  <2>5. rows'[job'.a].in = active
    BY <1>6, <1>8, <1>10, <2>1
  <2> QED BY <1>4, <1>5, <1>10, <2>1, <2>3, <2>4, <2>5 DEF MoveInv
<1>19. UpInv'
  <2>1. left \subseteq Account \ {job.a}
    BY <1>1, <1>2 DEF SecretTypeOK
  <2> QED BY <1>4, <1>9, <1>11, <2>1 DEF SecretInv, UpInv
<1>20. ServedInv'
  <2>1. rows'[job.a] # NoRow => rows'[job.a].in = active
    BY <1>6, <1>8 DEF r
  <2>2. ASSUME NEW b \in Account \ {job.a}, Known(b)'
        PROVE  \/ rows'[b].in = active
               \/ rows'[b].in = Other /\ (~reach \/ Get(Other, b)' = Absent)
               \/ pc = "move" /\ rows'[b].in = Other /\ b \in left
    <3>1. Known(b)
      BY <1>8, <2>2 DEF Known
    <3> QED BY <1>2, <1>8, <1>17, <3>1 DEF SecretInv, ServedInv
  <2>3. ASSUME NEW b \in Account, Known(b)'
        PROVE  \/ rows'[b].in = active
               \/ rows'[b].in = Other /\ (~reach \/ Get(Other, b)' = Absent)
               \/ pc = "move" /\ rows'[b].in = Other /\ b \in left
    <3>1. CASE b = job.a
      BY <2>1, <2>3, <3>1 DEF Known
    <3>2. CASE b # job.a
      BY <2>2, <2>3, <3>2
    <3> QED BY <3>1, <3>2
  <2> QED BY <1>4, <1>5, <2>3 DEF ServedInv
<1> QED BY <1>12, <1>13, <1>14, <1>15, <1>16, <1>18, <1>19, <1>20 DEF SecretInv

-----------------------------------------------------------------------------
(* The end of a process. *)

LEMMA DownKeeps ==
  ASSUME SecretInv, Down, wanted' \in [Account -> Value \cup {Absent, Settled}],
         \A a \in Account : wanted'[a] = Settled => wanted[a] = Settled,
         \A a \in Account : wanted'[a] = Settled /\ rows[a].in = "file" /\ at["secrets"] = "legacy"
                              => pc # "adopt" \/ at["db"] = "legacy"
  PROVE  SecretInv'
<1>1. /\ pc' = "down" /\ active' = "file" /\ reach' = FALSE /\ job' = NoJob /\ left' = {}
      /\ torn' \subseteq Account
      /\ UNCHANGED <<rows, ring, file, old, at, rekeyed, schema>>
  BY DEF Down, Quit, Cut, values, SecretInv, SecretTypeOK
<1>2. SecretTypeOK'
  BY <1>1 DEF SecretInv, SecretTypeOK, Stores
<1>3. JobInv'
  BY <1>1 DEF JobInv, NoJob, Putting, Dropping
<1>4. PhaseInv'
  BY <1>1 DEF PhaseInv, SecretInv
<1>5. FilesInv'
  BY <1>1 DEF FilesInv, SecretInv
<1> QED BY <1>1, <1>2, <1>3, <1>4, <1>5 DEF SecretInv, PlainInv, MoveInv, UpInv, ServedInv

LEMMA CrashKeeps == ASSUME SecretInv, Crash PROVE SecretInv'
<1>1. Down /\ wanted' = Abandoned /\ SecretTypeOK
  BY DEF Crash, SecretInv
<1>2. wanted' \in [Account -> Value \cup {Absent, Settled}]
  BY <1>1 DEF Abandoned, SecretTypeOK
<1>3. \A a \in Account : wanted'[a] = Settled => wanted[a] = Settled
  BY <1>1, ValuesDiffer DEF Abandoned
<1>4. \A a \in Account : wanted'[a] = Settled /\ rows[a].in = "file" /\ at["secrets"] = "legacy"
                           => pc # "adopt" \/ at["db"] = "legacy"
  BY <1>1, ValuesDiffer DEF Abandoned, Interrupted, Files
<1> QED BY <1>1, <1>2, <1>3, <1>4, DownKeeps

LEMMA RefusedKeeps ==
  ASSUME SecretInv, Down, UNCHANGED wanted, pc # "adopt" \/ at["db"] = "legacy"
  PROVE  SecretInv'
BY DownKeeps DEF SecretInv, SecretTypeOK

LEMMA FailsKeeps == ASSUME SecretInv, Fails PROVE SecretInv'
<1>1. job # NoJob /\ UNCHANGED wanted
  BY DEF Fails, NoJob
<1>2. pc \in {"plain", "move", "up"}
  BY <1>1 DEF SecretInv, JobInv
<1>3. CASE pc # "up"
  BY <1>1, <1>2, <1>3, RefusedKeeps DEF Fails
<1>4. CASE pc = "up"
  <2>1. /\ job' = NoJob /\ left' = {} /\ torn' \subseteq Account
        /\ UNCHANGED <<pc, active, reach, rows, ring, file, old, at, rekeyed, schema, wanted>>
    BY <1>1, <1>4 DEF Fails, Quit, Cut, process, values, SecretInv, SecretTypeOK
  <2>2. SecretTypeOK'
    BY <2>1 DEF SecretInv, SecretTypeOK
  <2>3. JobInv'
    BY <2>1 DEF JobInv, NoJob, Putting, Dropping
  <2>4. PhaseInv' /\ FilesInv'
    BY <2>1 DEF PhaseInv, FilesInv, SecretInv
  <2>5. \A a \in Account : Get(Other, a)' = Get(Other, a) /\ Known(a)' = Known(a)
    BY <2>1 DEF Get, RingGet, FileGet, Other, Known
  <2>6. ServedInv'
    BY <1>4, <2>1, <2>5 DEF ServedInv, SecretInv, Other
  <2> QED BY <1>4, <2>1, <2>2, <2>3, <2>4, <2>6 DEF SecretInv, PlainInv, MoveInv, UpInv
<1> QED BY <1>3, <1>4

-----------------------------------------------------------------------------
(* A start. *)

\* A step of a start before any write: nothing of the phases matters yet.
LEMMA StartKeeps ==
  ASSUME SecretInv, pc' \in {"adopt", "open", "migrate"}, SecretTypeOK',
         job' = NoJob, left' = {}, active' = "file",
         pc' # "adopt" => at'["db"] # "legacy",
         schema' \in OldSchemas \/ schema'.version = Latest, FilesInv'
  PROVE  SecretInv'
<1>1. JobInv'
  BY DEF JobInv, NoJob, Putting, Dropping
<1>2. PhaseInv'
  BY DEF PhaseInv
<1> QED BY <1>1, <1>2 DEF SecretInv, PlainInv, MoveInv, UpInv, ServedInv

LEMMA AtRest ==
  ASSUME SecretInv, pc \notin {"plain", "move", "up"}
  PROVE  job = NoJob /\ left = {} /\ active = "file"
BY DEF SecretInv, JobInv, PhaseInv

LEMMA BootKeeps == ASSUME SecretInv, Boot PROVE SecretInv'
<1>1. /\ pc = "down" /\ pc' = (IF at["db"] = "legacy" THEN "adopt" ELSE "open")
      /\ reach' \in BOOLEAN
      /\ UNCHANGED <<active, job, left, rows, ring, file, old, at, rekeyed, schema, wanted, torn>>
  BY DEF Boot, values
<1>2. SecretTypeOK'
  BY <1>1 DEF SecretInv, SecretTypeOK
<1>3. FilesInv'
  BY <1>1 DEF SecretInv, FilesInv
<1>4. job' = NoJob /\ left' = {} /\ active' = "file"
  BY <1>1, AtRest
<1> QED BY <1>1, <1>2, <1>3, <1>4, StartKeeps DEF SecretInv, PhaseInv

LEMMA RenameKeeps == ASSUME SecretInv, NEW f \in Files, Rename(f) PROVE SecretInv'
<1>1. /\ pc = "adopt" /\ at' = [at EXCEPT ![f] = "data"]
      /\ UNCHANGED <<pc, active, reach, job, left, rows, ring, rekeyed, schema, wanted, torn>>
  BY DEF Rename, process
<1>2. file' \in [Account -> Seal] /\ old' \in [Account -> Seal]
  <2>1. NoSeal \in Seal
    BY DEF NoSeal, Seal
  <2> QED BY <2>1 DEF Rename, SecretInv, SecretTypeOK
<1>3. SecretTypeOK'
  BY <1>1, <1>2 DEF SecretInv, SecretTypeOK
<1>4. FilesInv'
  BY <1>1 DEF FilesInv
<1>5. job' = NoJob /\ left' = {} /\ active' = "file"
  BY <1>1, AtRest
<1> QED BY <1>1, <1>3, <1>4, <1>5, StartKeeps DEF SecretInv, PhaseInv

LEMMA MigrateKeeps == ASSUME SecretInv, Migrate PROVE SecretInv'
<1>1. /\ pc \in {"adopt", "open"} /\ pc' = "migrate" /\ at' = [at EXCEPT !["db"] = "data"]
      /\ schema' = RunMigrations(schema)
      /\ UNCHANGED <<active, reach, job, left, rows, ring, file, old, rekeyed, wanted, torn>>
  BY DEF Migrate, values
<1>2. schema \in Database
  BY DEF SecretInv, SecretTypeOK
<1>3. schema' \in Database /\ schema'.version = Latest
  BY <1>1, <1>2, MigratesAll
<1>4. /\ at' \in [Files -> {"none", "legacy", "data"}] /\ at'["db"] = "data"
      /\ at'["secrets"] = at["secrets"]
  BY <1>1 DEF SecretInv, SecretTypeOK, Files
<1>5. SecretTypeOK'
  BY <1>1, <1>3, <1>4 DEF SecretInv, SecretTypeOK
<1>6. FilesInv'
  <2>1. CASE pc = "open"
    BY <1>1, <1>4, <2>1 DEF SecretInv, FilesInv, PhaseInv
  <2>2. CASE pc = "adopt"
    BY <1>1, <1>4, <2>2 DEF Migrate, FilesInv, Files
  <2> QED BY <1>1, <2>1, <2>2
<1>7. job' = NoJob /\ left' = {} /\ active' = "file"
  BY <1>1, AtRest
<1> QED BY <1>1, <1>3, <1>4, <1>5, <1>6, <1>7, StartKeeps DEF SecretInv, PhaseInv

LEMMA KeyMadeKeeps ==
  ASSUME SecretTypeOK, NEW s \in Stores, KeyMade(s)
  PROVE  /\ at' \in [Files -> {"none", "legacy", "data"}] /\ rekeyed' \in BOOLEAN
         /\ at'["db"] = at["db"] /\ at'["secrets"] = at["secrets"]
BY DEF KeyMade, SecretTypeOK, Files

LEMMA OpenStoreKeeps ==
  ASSUME SecretInv, NEW forced \in Stores \cup {"none"}, OpenStore(forced)
  PROVE  SecretInv'
<1> DEFINE store == IF forced # "file" /\ reach THEN "keyring" ELSE "file"
<1>1. /\ pc = "migrate" /\ pc' = "plain" /\ active' = store /\ KeyMade(store)
      /\ left' = {a \in Account : rows[a].in = "plain"}
      /\ UNCHANGED <<reach, job, rows, ring, file, old, schema, wanted, torn>>
  BY DEF OpenStore, values
<1>2. store \in Stores /\ (store = "keyring" => reach)
  BY DEF Stores
<1> HIDE DEF store
<1>3. /\ at' \in [Files -> {"none", "legacy", "data"}] /\ rekeyed' \in BOOLEAN
      /\ at'["db"] = at["db"] /\ at'["secrets"] = at["secrets"]
  BY <1>1, <1>2, KeyMadeKeeps DEF SecretInv
<1>4. job' = NoJob
  BY <1>1, AtRest
<1>5. SecretTypeOK'
  BY <1>1, <1>2, <1>3 DEF SecretInv, SecretTypeOK
<1>6. JobInv'
  BY <1>4 DEF JobInv, NoJob, Putting, Dropping
<1>7. PhaseInv'
  BY <1>1, <1>2, <1>3 DEF SecretInv, PhaseInv
<1>8. FilesInv'
  BY <1>1, <1>3 DEF SecretInv, FilesInv
<1>9. PlainInv'
  BY <1>1, <1>4 DEF PlainInv
<1> QED BY <1>1, <1>5, <1>6, <1>7, <1>8, <1>9 DEF SecretInv, MoveInv, UpInv, ServedInv

\* The first write of a put, and of a drop.
LEMMA PutBegins ==
  ASSUME SecretTypeOK, NEW a \in Account, NEW v \in Value \cup {Mixed}, job' = Put(active, a, v),
         a \notin left', pc \in {"plain", "move", "up"}, UNCHANGED <<pc, active, ring>>
  PROVE  JobInv' /\ Putting' /\ job' \in InHand /\ job' # NoJob /\ job'.a = a /\ job'.v = v
<1>1. active \in Stores
  BY DEF SecretTypeOK
<1>2. Needs(v) \in 0..MaxChunks
  BY NeedsType
<1>3. /\ job' \in InHand /\ job' # NoJob /\ job'.a = a /\ job'.v = v
      /\ active = "file" => job'.at = "file"
      /\ active = "keyring" => \/ job'.at = "head" /\ Needs(v) = 0
                               \/ /\ job'.at = "part" /\ job'.i = 1
                                  /\ job'.upto = Needs(v) /\ Needs(v) # 0
  <2>1. PICK s \in Stores : s = active
    BY <1>1
  <2>2. job' = Put(s, a, v)
    BY <2>1
  <2> QED BY <2>1, <2>2, PutIs
<1>4. Putting'
  BY <1>1, <1>3 DEF Putting, Stores
<1>5. CASE active = "file"
  BY <1>3, <1>5, ValuesDiffer DEF JobInv, Putting, Dropping
<1>6. CASE active = "keyring" /\ job'.at = "head"
  <2>1. HasParts(ring'[a], v, Needs(v))
    BY <1>3, <1>6 DEF HasParts
  <2> QED BY <1>3, <1>6, <2>1, ValuesDiffer DEF JobInv, Putting, Dropping
<1>7. CASE active = "keyring" /\ job'.at = "part"
  <2>1. HasParts(ring'[a], v, job'.i - 1) /\ job'.i <= job'.upto
    BY <1>2, <1>3, <1>7, ChunkCounts DEF HasParts
  <2> QED BY <1>3, <1>7, <2>1, ValuesDiffer DEF JobInv, Putting, Dropping
<1> QED BY <1>1, <1>3, <1>4, <1>5, <1>6, <1>7 DEF Stores

LEMMA DropBegins ==
  ASSUME SecretTypeOK, NEW a \in Account, job' = Drop(active, a, Absent), pc = "up",
         a \notin left', UNCHANGED <<pc, active>>
  PROVE  JobInv' /\ job' \in InHand /\ job' # NoJob /\ job'.a = a /\ job'.v = Absent
<1>1. PICK s \in Stores : s = active
  BY DEF SecretTypeOK
<1>2. /\ job' \in InHand /\ job' # NoJob /\ job'.a = a /\ job'.v = Absent
      /\ job'.at = IF s = "keyring" THEN "unhead" ELSE "unfile"
  <2>1. job' = Drop(s, a, Absent)
    BY <1>1
  <2> QED BY <2>1, DropIs
<1>3. Emptied' = s
  BY <1>1 DEF Emptied
<1>4. JobInv'
  BY <1>1, <1>2, <1>3 DEF JobInv, Putting, Dropping, Stores
<1> QED BY <1>2, <1>4

LEMMA NextPlainKeeps == ASSUME SecretInv, NEW a \in Account, NextPlain(a) PROVE SecretInv'
<1>1. /\ pc = "plain" /\ job = NoJob /\ a \in left /\ left' = left \ {a}
      /\ job' = Put(active, a, rows[a].value) /\ SecretTypeOK
      /\ UNCHANGED <<pc, active, reach, rows, ring, file, old, at, rekeyed, schema, wanted, torn>>
  BY DEF NextPlain, Turn, process, values, SecretInv
<1>2. rows[a].in = "plain"
  BY <1>1 DEF SecretInv, PlainInv
<1>3. PICK v \in Value : v = rows[a].value
  BY <1>1, <1>2, Stored
<1>4. JobInv' /\ Putting' /\ job' \in InHand /\ job' # NoJob /\ job'.a = a /\ job'.v = v
  <2>1. job' = Put(active, a, v)
    BY <1>1, <1>3
  <2> QED BY <1>1, <2>1, PutBegins
<1>5. SecretTypeOK'
  BY <1>1, <1>4 DEF SecretTypeOK
<1>6. PhaseInv' /\ FilesInv'
  BY <1>1 DEF SecretInv, PhaseInv, FilesInv
<1>7. PlainInv'
  <2>1. \A b \in Account : rows[b].in = "plain" => b \in left \/ Filed(b, rows[b].value)
    BY <1>1 DEF SecretInv, PlainInv
  <2>2. \A b \in Account : Filed(b, rows[b].value)' = Filed(b, rows[b].value)
    BY <1>1 DEF Filed, Get, RingGet, FileGet
  <2>3. \A b \in left : rows[b].in = "plain"
    BY <1>1 DEF SecretInv, PlainInv
  <2> QED BY <1>1, <1>2, <1>3, <1>4, <2>1, <2>2, <2>3 DEF PlainInv
<1> QED BY <1>1, <1>4, <1>5, <1>6, <1>7 DEF SecretInv, MoveInv, UpInv, ServedInv

LEMMA PlainDoneKeeps == ASSUME SecretInv, PlainDone PROVE SecretInv'
<1>1. /\ pc = "plain" /\ job = NoJob /\ left = {} /\ SecretTypeOK
      /\ rows' = [a \in Account |-> IF rows[a].in = "plain" THEN Row(active) ELSE rows[a]]
      /\ UNCHANGED <<pc, active, reach, job, left, ring, file, old, at, rekeyed, schema, wanted, torn>>
  BY DEF PlainDone, process, values, SecretInv
<1>2. active \in Stores /\ Row(active) \in RowOf /\ Row(active).in = active
  BY <1>1, NewRow DEF SecretTypeOK
<1>3. \A a \in Account : rows'[a].in # "plain"
  BY <1>1, <1>2 DEF Stores
<1>4. SecretTypeOK'
  BY <1>1, <1>2 DEF SecretTypeOK
<1>5. JobInv'
  BY <1>1 DEF JobInv, NoJob, Putting, Dropping
<1>6. PhaseInv'
  BY <1>1 DEF SecretInv, PhaseInv
<1>7. FilesInv'
  <2>1. \A a \in Account : rows[a].in = "plain" => Filed(a, rows[a].value)
    BY <1>1 DEF SecretInv, PlainInv
  <2>2. \A a \in Account : rows'[a].in = "file" => rows[a].in = "file" \/ at["secrets"] = "data"
    BY <1>1, <1>2, <2>1 DEF Filed
  <2> QED BY <1>1, <2>2 DEF SecretInv, FilesInv
<1>8. PlainInv'
  BY <1>1, <1>3 DEF PlainInv
<1> QED BY <1>1, <1>4, <1>5, <1>6, <1>7, <1>8 DEF SecretInv, MoveInv, UpInv, ServedInv

LEMMA MoveStoresKeeps == ASSUME SecretInv, MoveStores PROVE SecretInv'
<1>1. /\ pc = "plain" /\ job = NoJob /\ left = {} /\ SecretTypeOK /\ pc' = "move" /\ left' = Moved
      /\ \A a \in Account : rows[a].in # "plain"
      /\ UNCHANGED <<active, reach, job, rows, ring, file, old, schema, wanted, torn>>
  BY DEF MoveStores, values, SecretInv
<1>2. /\ at' \in [Files -> {"none", "legacy", "data"}] /\ rekeyed' \in BOOLEAN
      /\ at'["db"] = at["db"] /\ at'["secrets"] = at["secrets"]
  <2>1. CASE UNCHANGED <<at, rekeyed>>
    BY <1>1, <2>1 DEF SecretTypeOK
  <2>2. CASE KeyMade("file")
    BY <1>1, <2>2, KeyMadeKeeps DEF Stores
  <2> QED BY <2>1, <2>2 DEF MoveStores
<1>3. active \in Stores /\ Other \in Stores /\ Other # active /\ Stores = {active, Other} /\ Other' = Other
  BY <1>1, OtherStore DEF SecretTypeOK, Other
<1>4. SecretTypeOK'
  BY <1>1, <1>2 DEF SecretTypeOK, Moved, Elsewhere
<1>5. JobInv'
  BY <1>1 DEF JobInv, NoJob, Putting, Dropping
<1>6. PhaseInv' /\ FilesInv'
  BY <1>1, <1>2 DEF SecretInv, PhaseInv, FilesInv
<1>7. \A a \in Account : Get(Other, a)' = Get(Other, a) /\ Known(a)' = Known(a)
  BY <1>1, <1>3 DEF Get, RingGet, FileGet, Known
<1>8. MoveInv'
  <2>1. \A a \in Moved : a \in Account /\ rows[a].in = Other /\ Get(Other, a) # Absent
    BY <1>3 DEF Moved, Elsewhere
  <2>2. \A a \in left' : rows'[a].in = Other' /\ Get(Other, a)' # Absent
    BY <1>1, <1>3, <1>7, <2>1
  <2>3. job' = NoJob /\ ~Putting' /\ ~Dropping' /\ job'.at # "row"
    BY <1>1 DEF Putting, Dropping, NoJob
  <2> QED BY <2>2, <2>3 DEF MoveInv
<1>9. ServedInv'
  <2>1. ASSUME NEW a \in Account, Known(a)
        PROVE  \/ rows[a].in = active
               \/ rows[a].in = Other /\ (~reach \/ Get(Other, a) = Absent)
               \/ rows[a].in = Other /\ a \in Moved
    <3>1. rows[a].in \in Stores
      BY <1>1, <2>1 DEF SecretTypeOK, RowOf, Row, Plain, Known
    <3> QED BY <1>3, <3>1 DEF Moved, Elsewhere
  <2> QED BY <1>1, <1>3, <1>7, <2>1 DEF ServedInv
<1> QED BY <1>1, <1>4, <1>5, <1>6, <1>8, <1>9 DEF SecretInv, PlainInv, UpInv

LEMMA NextMoveKeeps == ASSUME SecretInv, NEW a \in Account, NextMove(a) PROVE SecretInv'
<1>1. /\ pc = "move" /\ job = NoJob /\ a \in left /\ left' = left \ {a}
      /\ job' = Put(active, a, Get(Other, a)) /\ SecretTypeOK
      /\ UNCHANGED <<pc, active, reach, rows, ring, file, old, at, rekeyed, schema, wanted, torn>>
  BY DEF NextMove, Turn, process, values, SecretInv
<1>2. \A b \in left : rows[b].in = Other /\ Get(Other, b) # Absent
  BY <1>1 DEF SecretInv, MoveInv
<1>3. PICK v \in Value \cup {Mixed} : v = Get(Other, a)
  BY <1>1, <1>2, OtherStore, GetType
<1>4. JobInv' /\ Putting' /\ job' \in InHand /\ job' # NoJob /\ job'.a = a /\ job'.v = v
  <2>1. job' = Put(active, a, v)
    BY <1>1, <1>3
  <2> QED BY <1>1, <2>1, PutBegins
<1>5. SecretTypeOK'
  BY <1>1, <1>4 DEF SecretTypeOK
<1>6. PhaseInv' /\ FilesInv'
  BY <1>1 DEF SecretInv, PhaseInv, FilesInv
<1>7. Other' = Other /\ \A b \in Account : Get(Other, b)' = Get(Other, b) /\ Known(b)' = Known(b)
  BY <1>1 DEF Get, RingGet, FileGet, Known, Other
<1>8. left \subseteq Account
  BY <1>1 DEF SecretTypeOK
<1>9. MoveInv'
  <2>1. ~Dropping'
    BY <1>4 DEF Putting, Dropping
  <2>2. rows'[a].in = Other' /\ job'.v = Get(Other, a)' /\ job'.v # Absent /\ job'.a = a
    BY <1>1, <1>2, <1>3, <1>4, <1>7
  <2>3. \A b \in left' : rows'[b].in = Other' /\ Get(Other, b)' # Absent
    BY <1>1, <1>2, <1>7, <1>8
  <2> QED BY <2>1, <2>2, <2>3 DEF MoveInv, Get, RingGet, FileGet
<1>10. ServedInv'
  BY <1>1, <1>4, <1>7 DEF SecretInv, ServedInv
<1> QED BY <1>1, <1>4, <1>5, <1>6, <1>9, <1>10 DEF SecretInv, PlainInv, UpInv

LEMMA ServeKeeps == ASSUME SecretInv, Serve PROVE SecretInv'
<1>1. /\ pc = "move" /\ job = NoJob /\ left = {} /\ pc' = "up"
      /\ UNCHANGED <<active, reach, job, left, rows, ring, file, old, at, rekeyed, schema, wanted, torn>>
  BY DEF Serve, values
<1>2. SecretTypeOK'
  BY <1>1 DEF SecretInv, SecretTypeOK
<1>3. JobInv'
  BY <1>1 DEF JobInv, NoJob, Putting, Dropping
<1>4. PhaseInv' /\ FilesInv'
  BY <1>1 DEF SecretInv, PhaseInv, FilesInv
<1>5. Other' = Other /\ \A b \in Account : Get(Other, b)' = Get(Other, b) /\ Known(b)' = Known(b)
  BY <1>1 DEF Get, RingGet, FileGet, Known, Other
<1>6. ServedInv'
  BY <1>1, <1>5 DEF SecretInv, ServedInv
<1> QED BY <1>1, <1>2, <1>3, <1>4, <1>6 DEF SecretInv, PlainInv, MoveInv, UpInv

-----------------------------------------------------------------------------
(* Serving. *)

\* A request marks what it writes, and disturbs nothing else.
LEMMA RequestKeeps ==
  ASSUME SecretInv, NEW as \in SUBSET Account, NEW v \in Value \cup {Absent}, Request(as, v),
         job' \in InHand \cup {NoJob}, left' \subseteq Account, JobInv',
         left' # {} => v = Absent /\ left' \subseteq as,
         job' # NoJob => job'.a \in as /\ job'.v = v
  PROVE  SecretInv'
<1>1. /\ pc = "up" /\ SecretTypeOK
      /\ wanted' = [a \in Account |-> IF a \in as THEN v ELSE wanted[a]]
      /\ UNCHANGED <<pc, active, reach, rows, ring, file, old, at, rekeyed, schema, torn>>
  BY DEF Request, process, values, SecretInv
<1>2. SecretTypeOK'
  BY <1>1 DEF SecretTypeOK
<1>3. \A a \in Account : wanted'[a] = Settled => wanted[a] = Settled
  BY <1>1, ValuesDiffer
<1>4. PhaseInv' /\ FilesInv'
  BY <1>1, <1>3 DEF SecretInv, PhaseInv, FilesInv
<1>5. UpInv'
  BY <1>1 DEF UpInv
<1>6. Other' = Other /\ \A b \in Account : Get(Other, b)' = Get(Other, b) /\ Known(b)' = Known(b)
  BY <1>1 DEF Get, RingGet, FileGet, Known, Other
<1>7. ServedInv'
  BY <1>1, <1>6 DEF SecretInv, ServedInv
<1> QED BY <1>1, <1>2, <1>4, <1>5, <1>7 DEF SecretInv, PlainInv, MoveInv

LEMMA SetKeeps == ASSUME SecretInv, NEW a \in Account, NEW v \in Value, Set(a, v) PROVE SecretInv'
<1>1. /\ job' = Put(active, a, v) /\ left' = {} /\ Request({a}, v) /\ pc = "up" /\ SecretTypeOK
      /\ UNCHANGED <<pc, active, ring>>
  BY DEF Set, Request, process, values, SecretInv
<1>2. JobInv' /\ job' \in InHand /\ job'.a = a /\ job'.v = v
  BY <1>1, PutBegins
<1> QED BY <1>1, <1>2, RequestKeeps

LEMMA SetSameKeeps == ASSUME SecretInv, NEW a \in Account, NEW v \in Value, SetSame(a, v) PROVE SecretInv'
<1>1. /\ pc = "up" /\ job = NoJob /\ left = {} /\ SecretTypeOK /\ Answer(a) = v
      /\ wanted' = [wanted EXCEPT ![a] = IF AtHome(a) THEN Settled ELSE v]
      /\ UNCHANGED <<pc, active, reach, job, left, rows, ring, file, old, at, rekeyed, schema, torn>>
  BY DEF SetSame, process, values, SecretInv
<1>2. wanted' \in [Account -> Value \cup {Absent, Settled}]
  BY <1>1 DEF SecretTypeOK
<1>3. SecretTypeOK'
  BY <1>1, <1>2 DEF SecretTypeOK
<1>4. JobInv'
  BY <1>1 DEF JobInv, NoJob, Putting, Dropping
<1>5. PhaseInv' /\ UpInv'
  BY <1>1 DEF SecretInv, PhaseInv, UpInv
<1>6. FilesInv'
  <2>1. rows[a].in = "file" /\ AtHome(a) => at["secrets"] = "data"
    BY DEF AtHome
  <2>2. wanted'[a] = Settled => AtHome(a)
    BY <1>1, ValuesDiffer DEF SecretTypeOK
  <2>3. \A b \in Account \ {a} : wanted'[b] = wanted[b]
    BY <1>1 DEF SecretTypeOK
  <2> QED BY <1>1, <2>1, <2>2, <2>3 DEF SecretInv, FilesInv
<1>7. Other' = Other /\ \A b \in Account : Get(Other, b)' = Get(Other, b) /\ Known(b)' = Known(b)
  BY <1>1 DEF Get, RingGet, FileGet, Known, Other
<1>8. ServedInv'
  BY <1>1, <1>7 DEF SecretInv, ServedInv
<1> QED BY <1>1, <1>3, <1>4, <1>5, <1>6, <1>8 DEF SecretInv, PlainInv, MoveInv

LEMMA DeleteKeeps == ASSUME SecretInv, NEW a \in Account, Delete(a) PROVE SecretInv'
<1>1. /\ job' = Drop(active, a, Absent) /\ left' = {} /\ Request({a}, Absent) /\ pc = "up"
      /\ SecretTypeOK /\ UNCHANGED <<pc, active>>
  BY DEF Delete, Request, process, SecretInv
<1>2. JobInv' /\ job' \in InHand /\ job'.a = a /\ job'.v = Absent
  BY <1>1, DropBegins
<1> QED BY <1>1, <1>2, RequestKeeps

LEMMA DeleteAllKeeps == ASSUME SecretInv, NEW s \in Server, DeleteAll(s) PROVE SecretInv'
<1> DEFINE as == {a \in Account : a[1] = s /\ Known(a)}
<1>1. job' = NoJob /\ left' = as /\ Request(as, Absent) /\ as \in SUBSET Account
  BY DEF DeleteAll
<1> HIDE DEF as
<1>2. JobInv'
  BY <1>1 DEF JobInv, NoJob, Putting, Dropping
<1> QED BY <1>1, <1>2, RequestKeeps

LEMMA NextDeleteKeeps == ASSUME SecretInv, NEW a \in Account, NextDelete(a) PROVE SecretInv'
<1>1. /\ pc = "up" /\ a \in left /\ left' = left \ {a} /\ SecretTypeOK
      /\ job' = Drop(active, a, Absent)
      /\ UNCHANGED <<pc, active, reach, rows, ring, file, old, at, rekeyed, schema, wanted, torn>>
  BY DEF NextDelete, Turn, process, values, SecretInv
<1>2. JobInv' /\ job' \in InHand /\ job'.a = a /\ job'.v = Absent
  BY <1>1, DropBegins
<1>3. SecretTypeOK'
  BY <1>1, <1>2 DEF SecretTypeOK
<1>4. PhaseInv' /\ FilesInv'
  BY <1>1 DEF SecretInv, PhaseInv, FilesInv
<1>5. UpInv'
  BY <1>1, <1>2 DEF SecretInv, UpInv
<1>6. Other' = Other /\ \A b \in Account : Get(Other, b)' = Get(Other, b) /\ Known(b)' = Known(b)
  BY <1>1 DEF Get, RingGet, FileGet, Known, Other
<1>7. ServedInv'
  BY <1>1, <1>6 DEF SecretInv, ServedInv
<1> QED BY <1>1, <1>2, <1>3, <1>4, <1>5, <1>7 DEF SecretInv, PlainInv, MoveInv

-----------------------------------------------------------------------------
(* The invariant. *)

LEMMA WholeType == ASSUME NEW v \in Value PROVE Whole(v) \in Entry /\ Holds(Whole(v), v)
<1>1. v # Mixed /\ Chunks[v] \in 0..MaxChunks /\ Needs(v) = Chunks[v]
  BY ValuesDiffer, ChunkCounts DEF Needs
<1> QED BY <1>1, ChunkCounts DEF Whole, Entry, Holds, HasParts

LEMMA SecretInitHolds == SecretInit => SecretInv
<1> SUFFICES ASSUME SecretInit PROVE SecretInv
  OBVIOUS
<1>1. /\ pc = "down" /\ active = "file" /\ reach = FALSE /\ job = NoJob /\ left = {}
      /\ schema \in OldSchemas /\ rekeyed = FALSE /\ wanted = [a \in Account |-> Settled] /\ torn = {}
  BY DEF SecretInit
<1>2. PICK home \in Homes, given \in [Account -> OldValue] :
       /\ rows \in [Account -> OldRow]
       /\ ring = [a \in Account |-> IF rows[a].in = "keyring" THEN Whole(given[a]) ELSE NoEntry]
       /\ LET sealed == [a \in Account |-> IF rows[a].in # "file" THEN NoSeal
                                         ELSE [value |-> given[a], rekeyed |-> FALSE]]
              none == [a \in Account |-> NoSeal]
          IN /\ file = IF home = "data" THEN sealed ELSE none
             /\ old = IF home = "legacy" THEN sealed ELSE none
             /\ at = [f \in Files |-> IF f = "db" \/ sealed # none THEN home ELSE "none"]
  BY DEF SecretInit
<1>3. \A a \in Account : given[a] \in Value
  BY <1>2, LeftBehind
<1>4. rows \in [Account -> RowOf]
  BY <1>2, LeftBehind DEF OldRow, RowOf, Stores
<1>5. ring \in [Account -> Entry]
  <2>1. NoEntry \in Entry
    BY ChunkCounts DEF NoEntry, Entry
  <2> QED BY <1>2, <1>3, <2>1, WholeType
<1>6. file \in [Account -> Seal] /\ old \in [Account -> Seal]
  BY <1>2, <1>3 DEF Seal, NoSeal
<1>7. at \in [Files -> {"none", "legacy", "data"}] /\ (at["secrets"] = "legacy" => at["db"] = "legacy")
  BY <1>2 DEF Homes, Files
<1>8. schema \in Database
  BY <1>1, LeftBehind DEF Dated
<1>9. SecretTypeOK
  BY <1>1, <1>4, <1>5, <1>6, <1>7, <1>8 DEF SecretTypeOK, Stores
<1>10. JobInv
  BY <1>1 DEF JobInv, NoJob, Putting, Dropping
<1> QED BY <1>1, <1>7, <1>9, <1>10 DEF SecretInv, PhaseInv, FilesInv, PlainInv, MoveInv, UpInv, ServedInv

LEMMA StoppedKeeps ==
  ASSUME SecretInv, BootRefused \/ OpenStoreFails \/ \E a \in Account : MoveThrows(a)
  PROVE  SecretInv'
BY RefusedKeeps DEF BootRefused, OpenStoreFails, MoveThrows

LEMMA SecretStutters == ASSUME SecretInv, UNCHANGED secretVars PROVE SecretInv'
<1>1. UNCHANGED <<pc, active, reach, job, left, rows, ring, file, old, at, rekeyed, schema, wanted, torn>>
  BY DEF secretVars, process, values
<1>2. SecretTypeOK' /\ PhaseInv' /\ FilesInv' /\ UpInv'
  BY <1>1 DEF SecretInv, SecretTypeOK, PhaseInv, FilesInv, UpInv
<1>3. JobInv'
  BY <1>1 DEF SecretInv, JobInv, Putting, Dropping, Emptied, Other, Filed, Get, RingGet, FileGet
<1>4. PlainInv'
  BY <1>1 DEF SecretInv, PlainInv, Filed, Get, RingGet, FileGet
<1>5. MoveInv'
  BY <1>1 DEF SecretInv, MoveInv, Putting, Dropping, Other, Get, RingGet, FileGet
<1>6. ServedInv'
  BY <1>1 DEF SecretInv, ServedInv, Known, Other, Get, RingGet, FileGet
<1> QED BY <1>2, <1>3, <1>4, <1>5, <1>6 DEF SecretInv

LEMMA SecretStep == ASSUME SecretInv, [SecretNext]_secretVars PROVE SecretInv'
<1>1. CASE UNCHANGED secretVars
  BY <1>1, SecretStutters
<1>2. CASE PutPart \/ PutHead \/ DropHead \/ DropChunk \/ PutFile \/ DropFile \/ WriteRow
  BY <1>2, PutPartKeeps, PutHeadKeeps, DropHeadKeeps, DropRestKeeps, DropChunkKeeps, PutFileKeeps,
     DropFileKeeps, WriteRowKeeps
<1>3. CASE Crash \/ Fails \/ Boot \/ BootRefused \/ OpenStoreFails
  BY <1>3, CrashKeeps, FailsKeeps, BootKeeps, StoppedKeeps
<1>4. CASE Migrate \/ PlainDone \/ MoveStores \/ Serve
  BY <1>4, MigrateKeeps, PlainDoneKeeps, MoveStoresKeeps, ServeKeeps
<1>5. CASE \E f \in Files : Rename(f)
  BY <1>5, RenameKeeps
<1>6. CASE \E forced \in Stores \cup {"none"} : OpenStore(forced)
  BY <1>6, OpenStoreKeeps
<1>7. CASE \E a \in Account : NextPlain(a) \/ NextMove(a) \/ MoveThrows(a) \/ NextDelete(a)
  BY <1>7, NextPlainKeeps, NextMoveKeeps, StoppedKeeps, NextDeleteKeeps
<1>8. CASE \E a \in Account : \E v \in Value : Set(a, v) \/ SetSame(a, v)
  BY <1>8, SetKeeps, SetSameKeeps
<1>9. CASE (\E a \in Account : Delete(a)) \/ \E s \in Server : DeleteAll(s)
  BY <1>9, DeleteKeeps, DeleteAllKeeps
<1> QED BY <1>1, <1>2, <1>3, <1>4, <1>5, <1>6, <1>7, <1>8, <1>9 DEF SecretNext

\* The invariant the secrets keep, from which the theorems below follow.
THEOREM SecretInvariant == SecretSpec => []SecretInv
BY SecretInitHolds, SecretStep, PTL DEF SecretSpec

\* Type correctness of every variable of the store.
THEOREM SecretTypeCorrect == SecretSpec => []SecretTypeOK
<1>1. SecretInv => SecretTypeOK
  BY DEF SecretInv
<1> QED BY <1>1, SecretInvariant, PTL

\* A process that serves has every secret it can reach in its own store, wherever
\* earlier starts were cut short (secrets.ts:62-111).
THEOREM ServesCorrect == SecretSpec => []ServesFromOneStore
<1>1. SecretInv => ServesFromOneStore
  BY DEF SecretInv, ServedInv, ServesFromOneStore
<1> QED BY <1>1, SecretInvariant, PTL

-----------------------------------------------------------------------------
(* The upgrade. *)

\* Only a start that migrates touches the rest of the database.
LEMMA SchemaStays ==
  ASSUME [SecretNext]_secretVars, schema' # schema PROVE schema' = RunMigrations(schema)
<1>1. ~UNCHANGED secretVars
  BY DEF secretVars
<1>2. ~(PutPart \/ PutHead \/ DropHead \/ DropChunk \/ PutFile \/ DropFile \/ WriteRow)
  BY DEF PutPart, PutHead, DropHead, DropChunk, PutFile, DropFile, WriteRow, InRing, InFile, KeepsSQLite
<1>3. ~(Crash \/ Fails \/ Boot \/ BootRefused \/ OpenStoreFails \/ PlainDone \/ MoveStores \/ Serve)
  BY DEF Crash, Fails, Boot, BootRefused, OpenStoreFails, PlainDone, MoveStores, Serve, Down
<1>4. ~\E f \in Files : Rename(f)
  BY DEF Rename
<1>5. ~\E forced \in Stores \cup {"none"} : OpenStore(forced)
  BY DEF OpenStore
<1>6. ~\E a \in Account : NextPlain(a) \/ NextMove(a) \/ MoveThrows(a) \/ NextDelete(a)
  BY DEF NextPlain, NextMove, MoveThrows, NextDelete, Turn, Down
<1>7. ~\E a \in Account : \E v \in Value : Set(a, v) \/ SetSame(a, v)
  BY DEF Set, SetSame, Request
<1>8. ~((\E a \in Account : Delete(a)) \/ \E s \in Server : DeleteAll(s))
  BY DEF Delete, DeleteAll, Request
<1>9. Migrate
  BY <1>1, <1>2, <1>3, <1>4, <1>5, <1>6, <1>7, <1>8 DEF SecretNext
<1> QED BY <1>9 DEF Migrate

\* Whatever version left the database, an upgrade keeps the server as it was
\* (database.ts:130-148, 342-537).
THEOREM UpgradeKeeps == SecretSpec => UpgradeKeepsServers
<1>1. SecretInv /\ [SecretNext]_secretVars
        => [schema'.version # schema.version => Upgraded(schema, schema')]_schema
  <2> SUFFICES ASSUME SecretInv, [SecretNext]_secretVars, schema' # schema,
                      schema'.version # schema.version
               PROVE  Upgraded(schema, schema')
    OBVIOUS
  <2>1. schema' = RunMigrations(schema)
    BY SchemaStays
  <2>2. schema \in Database
    BY DEF SecretInv, SecretTypeOK
  <2>3. schema.version # Latest
    BY <2>1, <2>2, MigratesAll
  <2>4. Dated(schema)
    BY <2>3, LeftBehind DEF SecretInv, PhaseInv
  <2>5. PICK d : d = schema
    OBVIOUS
  <2>6. Upgraded(d, RunMigrations(d))
    BY <2>1, <2>4, <2>5, UpgradesDated
  <2> QED BY <2>1, <2>5, <2>6
<1> QED BY <1>1, SecretInvariant, PTL DEF SecretSpec, UpgradeKeepsServers

-----------------------------------------------------------------------------
(* What is read: the store a process writes to has the value its row names, or    *)
(* none, unless a write cut short left a copy.                                    *)

\* What a reader of a gets of an account no such write left.
Heard(a) == IF pc = "up" /\ wanted[a] = Settled /\ (a \in torn => rows[a].in = active)
            THEN Answer(a) ELSE Absent
ReadsTrue == \A a \in Account :
  Heard(a) \in {Absent, IF wanted[a] = Settled THEN Recorded(a) ELSE Absent}

\* The file may have a value its row does not name: a plaintext one that is put, the
\* one a move or a request works on.
InMotion(a) == \/ pc = "plain" /\ active = "file" /\ rows[a].in = "plain" /\ a \notin left
               \/ pc = "move" /\ job # NoJob /\ job.a = a
               \/ pc = "up" /\ active = "file" /\ job # NoJob /\ job.a = a
CopyInv == \A a \in Account :
  rows[a].in # "file" /\ a \notin torn /\ ~InMotion(a) => file[a].value = Absent
\* So may the old file, until it is adopted: nothing else is written before that.
OldInv == (pc = "adopt" \/ at["db"] = "legacy") /\ at["secrets"] = "legacy" =>
            \A a \in Account : rows[a].in # "file" => old[a].value = Absent
EmptiedInv == job.at = "row" /\ job.v = Absent /\ active = "file" => file[job.a].value = Absent
\* A secret that nobody is writing has a value.
HomeInv == \A a \in Account : wanted[a] = Settled /\ Known(a) => Recorded(a) # Absent

ReadInv == CopyInv /\ OldInv /\ EmptiedInv /\ HomeInv

LEMMA ReadsAre == ASSUME SecretInv, ReadInv PROVE ReadsTrue
<1> SUFFICES ASSUME NEW a \in Account, pc = "up", wanted[a] = Settled, a \in torn => rows[a].in = active
             PROVE  Answer(a) \in {Absent, Recorded(a)}
  BY DEF ReadsTrue, Heard
<1> SUFFICES ASSUME Known(a), Answer(a) = Get(active, a)
             PROVE  Get(active, a) \in {Absent, Recorded(a)}
  BY DEF Answer
<1>1. /\ SecretTypeOK /\ active \in Stores /\ Other \in Stores /\ Other # active
      /\ Stores = {active, Other}
  BY OtherStore DEF SecretInv, SecretTypeOK
<1>2. rows[a].in \in Stores
  <2>1. rows[a].in # "plain"
    BY DEF SecretInv, PhaseInv
  <2>2. rows[a].in \in {"plain", "keyring", "file"}
    BY <1>1, Stored DEF Known
  <2> QED BY <2>1, <2>2 DEF Stores
<1>3. CASE rows[a].in = active
  BY <1>1, <1>2, <1>3, FileIsHome DEF Recorded
<1>4. CASE rows[a].in = Other /\ active = "file"
  <2>1. ~(job # NoJob /\ job.a = a)
    <3>1. job # NoJob => wanted[job.a] = job.v /\ job.v # Settled
      BY <1>1, ValuesDiffer DEF SecretInv, UpInv, SecretTypeOK, InHand
    <3> QED BY <3>1
  <2>2. file[a].value = Absent
    BY <1>1, <1>4, <2>1 DEF ReadInv, CopyInv, InMotion
  <2> QED BY <1>4, <2>2 DEF Get, FileGet
<1>5. CASE rows[a].in = Other /\ active = "keyring"
  <2>1. Other = "file" /\ reach
    BY <1>1, <1>5 DEF Other, SecretInv, PhaseInv
  <2>2. Get(Other, a) = Absent
    BY <1>1, <1>5, <2>1 DEF SecretInv, ServedInv
  <2>3. Recorded(a) = Absent
    BY <1>1, <1>5, <2>1, <2>2, FileIsHome DEF Recorded
  <2> QED BY <2>3 DEF ReadInv, HomeInv
<1> QED BY <1>1, <1>2, <1>3, <1>4, <1>5 DEF Stores

LEMMA ReadInitHolds == SecretInit => ReadInv
<1> SUFFICES ASSUME SecretInit PROVE ReadInv
  OBVIOUS
<1>1. pc = "down" /\ job = NoJob
  BY DEF SecretInit
<1>2. PICK home \in Homes, given \in [Account -> OldValue] :
       /\ rows \in [Account -> OldRow]
       /\ home = "none" => \A a \in Account : ~Known(a)
       /\ ring = [a \in Account |-> IF rows[a].in = "keyring" THEN Whole(given[a]) ELSE NoEntry]
       /\ LET sealed == [a \in Account |-> IF rows[a].in # "file" THEN NoSeal
                                         ELSE [value |-> given[a], rekeyed |-> FALSE]]
              none == [a \in Account |-> NoSeal]
          IN /\ file = IF home = "data" THEN sealed ELSE none
             /\ old = IF home = "legacy" THEN sealed ELSE none
             /\ at = [f \in Files |-> IF f = "db" \/ sealed # none THEN home ELSE "none"]
  BY DEF SecretInit
<1> DEFINE sealed == [a \in Account |-> IF rows[a].in # "file" THEN NoSeal
                                        ELSE [value |-> given[a], rekeyed |-> FALSE]]
           none == [a \in Account |-> NoSeal]
<1>3. /\ file = (IF home = "data" THEN sealed ELSE none)
      /\ old = (IF home = "legacy" THEN sealed ELSE none)
      /\ at["secrets"] = IF sealed # none THEN home ELSE "none"
  BY <1>2 DEF Files
<1>4. \A a \in Account : rows[a].in # "file" => sealed[a] = NoSeal /\ none[a] = NoSeal
  OBVIOUS
<1>5. CopyInv /\ OldInv
  BY <1>3, <1>4 DEF CopyInv, OldInv, NoSeal
<1>6. EmptiedInv
  BY <1>1 DEF EmptiedInv, NoJob
<1>7. HomeInv
  <2> SUFFICES ASSUME NEW a \in Account, Known(a) PROVE Recorded(a) # Absent
    BY DEF HomeInv
  <2>1. rows[a] \in RowOf /\ given[a] \in Value /\ given[a] # Absent
    BY <1>2, SecretInitHolds, LeftBehind, ValuesDiffer DEF SecretInv, SecretTypeOK
  <2>2. CASE rows[a].in = "keyring"
    <3>1. ring[a] = Whole(given[a])
      BY <1>2, <2>2
    <3>2. Joined(ring[a]) = given[a]
      BY <2>1, <3>1, WholeType, HoldsReads
    <3> QED BY <2>1, <2>2, <3>2 DEF Recorded, Get, RingGet, Stores
  <2>3. CASE rows[a].in = "file"
    <3>1. home \in {"legacy", "data"}
      BY <1>2 DEF Homes
    <3>2. sealed[a] = [value |-> given[a], rekeyed |-> FALSE] /\ none[a].value = Absent
      BY <2>3 DEF NoSeal
    <3>3. sealed # none
      BY <2>1, <3>2
    <3>4. at["secrets"] = home
      BY <1>3, <3>3
    <3>5. home = "legacy" => old[a].value = given[a]
      BY <1>3, <3>2
    <3>6. home = "data" => file[a].value = given[a]
      BY <1>3, <3>2
    <3> QED BY <2>1, <2>3, <3>1, <3>4, <3>5, <3>6 DEF Recorded, Get, FileGet, Stores
  <2>4. CASE rows[a].in \notin Stores
    <3>1. rows[a].in = "plain" /\ rows[a].value \in Value
      BY <2>1, <2>4, NewRow, SecretInitHolds, Stored DEF SecretInv, Stores, Known
    <3> QED BY <2>4, <3>1, ValuesDiffer DEF Recorded
  <2> QED BY <2>2, <2>3, <2>4 DEF Stores
<1> QED BY <1>5, <1>6, <1>7 DEF ReadInv

\* A step that leaves the file alone, and no account in motion but with a cause.
LEMMA CopyStays ==
  ASSUME CopyInv, UNCHANGED <<rows, file>>, torn \subseteq torn',
         \A a \in Account : InMotion(a) => InMotion(a)' \/ a \in torn' \/ rows[a].in = "file"
  PROVE  CopyInv'
BY DEF CopyInv

\* A write of the keychain.
LEMMA RingWriteKeepsCopies ==
  ASSUME SecretInv, CopyInv, PutPart \/ PutHead \/ DropHead \/ DropChunk
  PROVE  CopyInv'
<1>1. /\ UNCHANGED <<pc, active, left, rows, file, torn>> /\ pc \in {"plain", "move", "up"}
      /\ job # NoJob /\ SecretTypeOK
  BY DEF PutPart, PutHead, DropHead, DropChunk, InRing, KeepsSQLite, process, SecretInv, JobInv, NoJob
<1>2. CASE pc = "plain"
  BY <1>1, <1>2, CopyStays DEF InMotion
<1>3. CASE pc = "up"
  <2>1. active = "keyring"
    BY <1>1, <1>3 DEF PutPart, PutHead, DropHead, DropChunk, SecretInv, JobInv, Emptied
  <2> QED BY <1>1, <1>3, <2>1, CopyStays DEF InMotion
<1>4. CASE pc = "move" /\ Putting
  <2>1. job \in InHand /\ ~DropHead
    BY <1>1, <1>4, InHandHasJob DEF DropHead, Putting
  <2>2. AfterPut # NoJob /\ AfterPut.a = job.a
    BY <1>4 DEF AfterPut, Job, NoJob
  <2>3. Job("head", job.a, job.v) # NoJob /\ Job("head", job.a, job.v).a = job.a
    BY DEF Job, NoJob
  <2>4. job' # NoJob /\ job'.a = job.a
    <3>1. CASE PutPart
      <4>1. job' = [job EXCEPT !.i = @ + 1] => job'.at = "part" /\ job'.a = job.a
        BY <2>1, <3>1 DEF InHand, PutPart
      <4> QED BY <2>3, <3>1, <4>1 DEF PutPart, NoJob
    <3>2. CASE PutHead
      <4> DEFINE n == Needs(job.v)
                 e == [job EXCEPT !.at = "rest", !.i = n + 1, !.upto = ring[job.a].count]
      <4>1. e.at = "rest" /\ e.a = job.a
        BY <2>1 DEF InHand
      <4>2. job' = AfterPut \/ job' = e
        BY <3>2 DEF PutHead
      <4> HIDE DEF e
      <4> QED BY <2>2, <4>1, <4>2 DEF NoJob
    <3>3. CASE DropChunk
      <4>1. job.at = "rest"
        BY <1>4, <3>3 DEF DropChunk, Putting
      <4>2. job' = [job EXCEPT !.i = @ + 1] => job'.at = "rest" /\ job'.a = job.a
        BY <2>1, <4>1 DEF InHand
      <4> QED BY <2>2, <3>3, <4>1, <4>2 DEF DropChunk, NoJob
    <3> QED BY <2>1, <3>1, <3>2, <3>3
  <2> QED BY <1>1, <1>4, <2>4, CopyStays DEF InMotion
<1>5. CASE pc = "move" /\ ~Putting
  <2>1. Dropping /\ active = "file" /\ rows[job.a].in = "file"
    <3>1. Dropping /\ Other = "keyring"
      BY <1>1, <1>5 DEF PutPart, PutHead, DropHead, DropChunk, Putting, Dropping, SecretInv, JobInv, Emptied
    <3> QED BY <1>1, <1>5, <3>1 DEF Other, SecretInv, MoveInv, SecretTypeOK, Stores
  <2> QED BY <1>1, <1>5, <2>1, CopyStays DEF InMotion
<1> QED BY <1>1, <1>2, <1>3, <1>4, <1>5

LEMMA PutFileKeepsCopies == ASSUME SecretInv, CopyInv, PutFile PROVE CopyInv'
<1>1. Putting /\ job.at = "file" /\ SecretTypeOK
  BY DEF PutFile, Putting, SecretInv
<1>2. /\ UNCHANGED <<pc, active, left, rows, torn>> /\ pc \in {"plain", "move", "up"} /\ job.a \in Account
      /\ job # NoJob /\ active = "file" /\ job' = AfterPut /\ job.a \notin left
      /\ file' = [file EXCEPT ![job.a] = [value |-> job.v, rekeyed |-> rekeyed]]
  BY <1>1, Putter DEF PutFile, InFile, KeepsSQLite, process, SecretInv, JobInv
<1>3. \A b \in Account \ {job.a} : file'[b] = file[b]
  BY <1>1, <1>2 DEF SecretTypeOK
<1>4. pc # "plain" => job' # NoJob /\ job'.a = job.a
  BY <1>2 DEF AfterPut, Job, NoJob
<1>5. PICK c \in Account : c = job.a
  BY <1>2
<1>6. InMotion(c)'
  <2>1. CASE pc = "plain"
    BY <1>2, <1>5, <2>1 DEF InMotion, SecretInv, PlainInv
  <2>2. CASE pc # "plain"
    BY <1>2, <1>4, <1>5, <2>2 DEF InMotion
  <2> QED BY <2>1, <2>2
<1>7. ASSUME NEW b \in Account \ {c}, InMotion(b) PROVE InMotion(b)'
  <2>1. pc = "plain"
    BY <1>5, <1>7 DEF InMotion
  <2> QED BY <1>2, <1>7, <2>1 DEF InMotion
<1> QED BY <1>2, <1>3, <1>5, <1>6, <1>7 DEF CopyInv

LEMMA DropFileKeepsCopies == ASSUME SecretInv, CopyInv, DropFile PROVE CopyInv' /\ file'[job.a].value = Absent
<1>1. Dropping /\ job.at = "unfile" /\ SecretTypeOK
  BY DEF DropFile, Dropping, SecretInv
<1>2. /\ UNCHANGED <<pc, active, left, rows, torn>> /\ pc \in {"move", "up"} /\ job.a \in Account
      /\ job # NoJob /\ job' = AfterDrop /\ (pc = "up" => active = "file")
  BY <1>1, Dropper DEF DropFile, InFile, KeepsSQLite, process, SecretInv, JobInv, Emptied
<1>3. file'[job.a].value = Absent /\ \A b \in Account \ {job.a} : file'[b] = file[b]
  BY <1>1, <1>2 DEF DropFile, SecretTypeOK, NoSeal, values
<1>4. \A b \in Account \ {job.a} : ~InMotion(b)
  BY <1>2 DEF InMotion
<1> QED BY <1>2, <1>3, <1>4 DEF CopyInv

LEMMA WriteRowKeepsCopies == ASSUME SecretInv, CopyInv, EmptiedInv, WriteRow PROVE CopyInv'
<1>1. /\ job \in InHand /\ job # NoJob /\ job.at = "row" /\ SecretTypeOK /\ job.a \in Account
      /\ job.v \in Value \cup {Absent, Mixed} /\ active \in Stores
  BY InHandHasJob DEF WriteRow, SecretInv, InHand, SecretTypeOK
<1>2. pc \in {"move", "up"} /\ UNCHANGED <<pc, active, left, file, torn>>
  BY <1>1 DEF SecretInv, JobInv, WriteRow, process, values
<1>3. /\ \A b \in Account \ {job.a} : rows'[b] = rows[b]
      /\ rows'[job.a] = IF job.v = Absent THEN NoRow ELSE Row(active)
  BY <1>1 DEF WriteRow, SecretTypeOK
<1>4. \A b \in Account \ {job.a} : ~InMotion(b)
  BY <1>2 DEF InMotion
<1>5. PICK c \in Account : c = job.a
  BY <1>1
<1>6. rows'[c].in # "file" /\ c \notin torn /\ ~InMotion(c)' => file[c].value = Absent
  <2>1. CASE pc = "move"
    <3>1. job' # NoJob /\ job'.a = job.a
      BY <1>1, <2>1 DEF WriteRow, AfterRow, Drop, Job, NoJob
    <3> QED BY <1>2, <1>5, <2>1, <3>1 DEF InMotion
  <2>2. CASE pc = "up" /\ active = "file"
    BY <1>1, <1>3, <1>5, <2>2, NewRow DEF EmptiedInv
  <2>3. CASE pc = "up" /\ active = "keyring"
    <3>1. rows[job.a].in = "file" => file[job.a].value = Absent
      <4> SUFFICES ASSUME rows[job.a].in = "file" PROVE file[job.a].value = Absent
        OBVIOUS
      <4>1. Known(job.a) /\ reach /\ Other = "file"
        BY <1>1, <2>3 DEF Known, NoRow, SecretInv, PhaseInv, Other
      <4>2. Get(Other, job.a) = Absent
        BY <1>1, <2>3, <4>1 DEF SecretInv, ServedInv
      <4> QED BY <4>1, <4>2 DEF Get, FileGet
    <3>2. ~InMotion(job.a)
      BY <2>3 DEF InMotion
    <3> QED BY <1>1, <1>5, <3>1, <3>2 DEF CopyInv
  <2> QED BY <1>1, <1>2, <2>1, <2>2, <2>3 DEF Stores
<1> QED BY <1>1, <1>2, <1>3, <1>4, <1>5, <1>6 DEF CopyInv

LEMMA DownKeepsCopies == ASSUME SecretInv, CopyInv, Down PROVE CopyInv'
<1>1. UNCHANGED <<rows, file>> /\ torn' = torn \cup Cut
  BY DEF Down, Quit, values
<1>2. \A a \in Account : InMotion(a) => a \in Cut
  BY DEF InMotion, Cut
<1> QED BY <1>1, <1>2, CopyStays

LEMMA FailsKeepsCopies == ASSUME SecretInv, CopyInv, Fails PROVE CopyInv'
<1>1. CASE pc # "up"
  BY <1>1, DownKeepsCopies DEF Fails
<1>2. CASE pc = "up"
  <2>1. UNCHANGED <<rows, file>> /\ torn' = torn \cup Cut
    BY <1>2 DEF Fails, Quit, values
  <2>2. \A a \in Account : InMotion(a) => a \in Cut
    BY <1>2 DEF InMotion, Cut
  <2> QED BY <2>1, <2>2, CopyStays
<1> QED BY <1>1, <1>2

\* The steps of a start, and the requests.
LEMMA StartKeepsCopies ==
  ASSUME SecretInv, CopyInv,
         \/ Boot \/ Migrate \/ MoveStores \/ Serve
         \/ (\E forced \in Stores \cup {"none"} : OpenStore(forced))
  PROVE  CopyInv'
<1>1. UNCHANGED <<rows, file, torn>>
  BY DEF Boot, Migrate, MoveStores, Serve, OpenStore, values
<1>2. \A a \in Account : ~InMotion(a)
  BY DEF Boot, Migrate, MoveStores, Serve, OpenStore, InMotion
<1> QED BY <1>1, <1>2, CopyStays

LEMMA TurnKeepsCopies ==
  ASSUME SecretInv, CopyInv, NEW a \in Account, NextPlain(a) \/ NextMove(a) \/ NextDelete(a)
  PROVE  CopyInv'
<1>1. UNCHANGED <<pc, active, rows, file, torn>> /\ job = NoJob /\ left' = left \ {a}
  BY DEF NextPlain, NextMove, NextDelete, Turn, process, values
<1>2. \A b \in Account : InMotion(b) => InMotion(b)'
  BY <1>1 DEF InMotion
<1> QED BY <1>1, <1>2, CopyStays

LEMMA AskedKeepsCopies ==
  ASSUME SecretInv, CopyInv, pc = "up", job = NoJob, UNCHANGED <<rows, file, torn>>
  PROVE  CopyInv'
<1>1. \A b \in Account : ~InMotion(b)
  BY DEF InMotion
<1> QED BY <1>1, CopyStays

LEMMA PlainDoneKeepsCopies == ASSUME SecretInv, CopyInv, PlainDone PROVE CopyInv'
<1>1. /\ pc = "plain" /\ job = NoJob /\ left = {} /\ SecretTypeOK /\ active \in Stores
      /\ rows' = [a \in Account |-> IF rows[a].in = "plain" THEN Row(active) ELSE rows[a]]
      /\ UNCHANGED <<pc, active, left, file, torn>>
  BY DEF PlainDone, process, values, SecretInv, SecretTypeOK
<1> SUFFICES ASSUME NEW a \in Account, rows'[a].in # "file", a \notin torn
             PROVE  file[a].value = Absent
  BY <1>1 DEF CopyInv
<1>2. rows[a].in # "file" /\ ~(rows[a].in = "plain" /\ active = "file")
  BY <1>1, NewRow
<1> QED BY <1>1, <1>2 DEF CopyInv, InMotion

LEMMA RenameKeepsCopies == ASSUME SecretInv, CopyInv, OldInv, NEW f \in Files, Rename(f) PROVE CopyInv'
<1>1. /\ pc = "adopt" /\ at[f] = "legacy" /\ UNCHANGED <<pc, rows, torn>>
  BY DEF Rename, process
<1>2. \A a \in Account : ~InMotion(a) /\ ~InMotion(a)'
  BY <1>1 DEF InMotion
<1>3. CASE f = "secrets"
  <2>1. file' = old /\ \A a \in Account : rows[a].in # "file" => old[a].value = Absent
    BY <1>1, <1>3 DEF Rename, OldInv
  <2> QED BY <1>1, <1>2, <2>1 DEF CopyInv
<1>4. CASE f # "secrets"
  BY <1>1, <1>2, <1>4 DEF Rename, CopyInv
<1> QED BY <1>3, <1>4

LEMMA CopyStep == ASSUME SecretInv, ReadInv, [SecretNext]_secretVars PROVE CopyInv'
<1>0. CopyInv /\ OldInv /\ EmptiedInv
  BY DEF ReadInv
<1>1. CASE UNCHANGED secretVars
  <2>1. UNCHANGED <<pc, active, job, left, rows, file, torn>>
    BY <1>1 DEF secretVars, process, values
  <2> QED BY <1>0, <2>1 DEF CopyInv, InMotion
<1>2. CASE PutPart \/ PutHead \/ DropHead \/ DropChunk \/ PutFile \/ DropFile \/ WriteRow
  BY <1>0, <1>2, RingWriteKeepsCopies, PutFileKeepsCopies, DropFileKeepsCopies, WriteRowKeepsCopies
<1>3. CASE Crash \/ Fails \/ BootRefused \/ OpenStoreFails \/ \E a \in Account : MoveThrows(a)
  BY <1>0, <1>3, DownKeepsCopies, FailsKeepsCopies DEF Crash, BootRefused, OpenStoreFails, MoveThrows
<1>4. CASE Boot \/ Migrate \/ MoveStores \/ Serve
  BY <1>0, <1>4, StartKeepsCopies
<1>5. CASE \E forced \in Stores \cup {"none"} : OpenStore(forced)
  BY <1>0, <1>5, StartKeepsCopies
<1>6. CASE PlainDone
  BY <1>0, <1>6, PlainDoneKeepsCopies
<1>7. CASE \E f \in Files : Rename(f)
  BY <1>0, <1>7, RenameKeepsCopies
<1>8. CASE \E a \in Account : NextPlain(a) \/ NextMove(a) \/ NextDelete(a)
  BY <1>0, <1>8, TurnKeepsCopies
<1>9. CASE (\E a \in Account : \E v \in Value : Set(a, v) \/ SetSame(a, v))
           \/ (\E a \in Account : Delete(a)) \/ \E s \in Server : DeleteAll(s)
  <2>1. pc = "up" /\ job = NoJob /\ UNCHANGED <<rows, file, torn>>
    BY <1>9 DEF Set, SetSame, Delete, DeleteAll, Request, values
  <2> QED BY <1>0, <2>1, AskedKeepsCopies
<1> QED BY <1>1, <1>2, <1>3, <1>4, <1>5, <1>6, <1>7, <1>8, <1>9 DEF SecretNext

LEMMA OldStep == ASSUME SecretInv, ReadInv, [SecretNext]_secretVars PROVE OldInv'
<1>0. OldInv /\ SecretTypeOK /\ PhaseInv /\ (job # NoJob => pc \in {"plain", "move", "up"})
  BY DEF ReadInv, SecretInv, JobInv
<1>1. CASE pc \in {"open", "migrate", "plain", "move", "up"}
  <2>1. at["db"] # "legacy" /\ at'["db"] # "legacy"
    BY <1>0, <1>1 DEF SecretTypeOK, PhaseInv, SecretNext, secretVars, PutPart, PutHead, DropHead, DropChunk,
       PutFile, DropFile, WriteRow, InRing, InFile, Crash, Fails, Down, Boot, BootRefused, Migrate, KeyMade,
       OpenStore, OpenStoreFails, PlainDone, MoveStores, Serve, Rename, NextPlain, NextMove, MoveThrows,
       NextDelete, Turn, Set, SetSame, Delete, DeleteAll, Request, Files
  <2>2. pc' # "adopt"
    BY <1>1 DEF SecretNext, secretVars, process, PutPart, PutHead, DropHead, DropChunk, KeepsSQLite,
       PutFile, DropFile, WriteRow, InRing, InFile, Crash, Fails, Down, Boot, BootRefused, Migrate,
       OpenStore, OpenStoreFails, PlainDone, MoveStores, Serve, Rename, NextPlain, NextMove, MoveThrows,
       NextDelete, Turn, Set, SetSame, Delete, DeleteAll, Request
  <2> QED BY <2>1, <2>2 DEF OldInv
<1>2. CASE pc \in {"down", "adopt"}
  <2>1. job.at = "none"
    BY <1>0, <1>2 DEF NoJob
  <2>2. CASE UNCHANGED secretVars
    BY <1>0, <2>2 DEF OldInv, secretVars, process, values
  <2>3. CASE Crash \/ BootRefused
    BY <1>0, <1>2, <2>3 DEF OldInv, Crash, BootRefused, Down, values
  <2>4. CASE Boot
    BY <1>0, <2>4 DEF OldInv, Boot, values
  <2>5. CASE Migrate
    BY <1>0, <2>5 DEF OldInv, Migrate, SecretTypeOK, Files
  <2>6. ASSUME NEW f \in Files, Rename(f) PROVE OldInv'
    <3>1. CASE f = "secrets"
      BY <1>0, <2>6, <3>1 DEF OldInv, Rename, SecretTypeOK, Files
    <3>2. CASE f # "secrets"
      BY <1>0, <2>6, <3>2 DEF OldInv, Rename, process, SecretTypeOK, Files
    <3> QED BY <3>1, <3>2
  <2>7. UNCHANGED secretVars \/ Crash \/ BootRefused \/ Boot \/ Migrate \/ \E f \in Files : Rename(f)
    BY <1>2, <2>1 DEF SecretNext, PutPart, PutHead, DropHead, DropChunk, PutFile, DropFile, WriteRow, Fails,
       OpenStore, OpenStoreFails, PlainDone, MoveStores, Serve, NextPlain, NextMove, MoveThrows,
       NextDelete, Set, SetSame, Delete, DeleteAll, Request
  <2> QED BY <2>2, <2>3, <2>4, <2>5, <2>6, <2>7
<1> QED BY <1>0, <1>1, <1>2 DEF SecretTypeOK

LEMMA EmptiedStep == ASSUME SecretInv, ReadInv, [SecretNext]_secretVars PROVE EmptiedInv'
<1>0. SecretTypeOK /\ EmptiedInv
  BY DEF SecretInv, ReadInv
<1>1. CASE job' = job /\ ~PutFile /\ ~DropFile
  <2> SUFFICES ASSUME job.at = "row" PROVE UNCHANGED <<active, file>>
    BY <1>0, <1>1 DEF EmptiedInv
  <2>1. job # NoJob /\ pc \in {"move", "up"}
    BY DEF SecretInv, JobInv, NoJob
  <2>2. CASE UNCHANGED secretVars \/ WriteRow \/ PutPart \/ PutHead \/ DropHead \/ DropChunk
    BY <2>2 DEF secretVars, process, values, WriteRow, PutPart, PutHead, DropHead, DropChunk
  <2>3. CASE \E a \in Account : \E v \in Value : Set(a, v) \/ SetSame(a, v)
    BY <2>1, <2>3 DEF Set, SetSame, Request
  <2>4. CASE (\E a \in Account : Delete(a)) \/ \E s \in Server : DeleteAll(s)
    BY <2>1, <2>4 DEF Delete, DeleteAll, Request
  <2>5. CASE Crash \/ Fails \/ BootRefused \/ OpenStoreFails \/ \E a \in Account : MoveThrows(a)
    BY <1>1, <2>1, <2>5 DEF Crash, Fails, BootRefused, OpenStoreFails, MoveThrows, Down, Quit
  <2>6. CASE \/ Boot \/ Migrate \/ MoveStores \/ Serve \/ PlainDone
             \/ (\E f \in Files : Rename(f))
             \/ (\E forced \in Stores \cup {"none"} : OpenStore(forced))
    BY <2>1, <2>6 DEF Boot, Migrate, MoveStores, Serve, PlainDone, Rename, OpenStore
  <2>7. CASE \E a \in Account : NextPlain(a) \/ NextMove(a) \/ NextDelete(a)
    BY <2>1, <2>7 DEF NextPlain, NextMove, NextDelete, Turn
  <2> QED BY <1>1, <2>2, <2>3, <2>4, <2>5, <2>6, <2>7 DEF SecretNext
<1>2. CASE Putting /\ (PutPart \/ PutHead \/ DropChunk \/ PutFile)
  <2>1. job'.at = "row" => job' = AfterPut
    <3>1. job \in InHand
      BY <1>0, <1>2, InHandHasJob
    <3>2. CASE PutPart
      <4>1. job' = [job EXCEPT !.i = @ + 1] => job'.at = "part"
        BY <3>1, <3>2 DEF PutPart, InHand
      <4> QED BY <3>2, <4>1 DEF PutPart, Job
    <3>3. CASE PutHead
      <4> DEFINE e == [job EXCEPT !.at = "rest", !.i = Needs(job.v) + 1, !.upto = ring[job.a].count]
      <4>1. e.at = "rest"
        BY <3>1 DEF InHand
      <4>2. job' = AfterPut \/ job' = e
        BY <3>3 DEF PutHead
      <4> HIDE DEF e
      <4> QED BY <4>1, <4>2
    <3>4. CASE DropChunk
      <4>1. job.at = "rest"
        BY <1>2, <3>4 DEF DropChunk, Putting
      <4>2. job' = [job EXCEPT !.i = @ + 1] => job'.at = "rest"
        BY <3>1, <4>1 DEF InHand
      <4> QED BY <3>4, <4>1, <4>2 DEF DropChunk
    <3>5. CASE PutFile
      BY <3>5 DEF PutFile
    <3> QED BY <1>2, <3>2, <3>3, <3>4, <3>5
  <2>2. AfterPut.at = "row" => AfterPut.v = job.v
    BY DEF AfterPut, Job, NoJob
  <2>3. job.v # Absent
    BY <1>2 DEF SecretInv, JobInv
  <2> QED BY <2>1, <2>2, <2>3 DEF EmptiedInv
<1>3. CASE DropFile
  <2>1. job' = NoJob \/ job'.a = job.a
    BY <1>3 DEF DropFile, AfterDrop, Job
  <2>2. file'[job.a].value = Absent
    BY <1>3, DropFileKeepsCopies DEF ReadInv
  <2> QED BY <2>1, <2>2 DEF EmptiedInv, NoJob
<1>4. CASE Dropping /\ (DropHead \/ DropChunk)
  <2>1. /\ active' = active /\ pc \in {"move", "up"} /\ job \in InHand
        /\ job.at \in {"unhead", "unrest"} /\ (pc = "up" => active = "keyring")
    BY <1>4, Dropper DEF DropHead, DropChunk, InRing, KeepsSQLite, process, SecretInv, JobInv, Emptied, Dropping
  <2>2. job'.at = "row" => job' = AfterDrop
    <3>1. CASE DropHead
      <4> DEFINE e == [job EXCEPT !.at = "unrest", !.upto = ring[job.a].count]
      <4>1. e.at = "unrest"
        BY <2>1 DEF InHand
      <4>2. job' = AfterDrop \/ job' = e
        BY <3>1 DEF DropHead
      <4> HIDE DEF e
      <4> QED BY <4>1, <4>2
    <3>2. CASE DropChunk
      <4>1. job' = [job EXCEPT !.i = @ + 1] => job'.at \in {"unhead", "unrest"}
        BY <2>1 DEF InHand
      <4> QED BY <2>1, <3>2, <4>1 DEF DropChunk
    <3> QED BY <1>4, <3>1, <3>2
  <2>3. AfterDrop.at = "row" => pc = "up"
    BY DEF AfterDrop, NoJob
  <2> QED BY <2>1, <2>2, <2>3 DEF EmptiedInv
<1>5. CASE job'.at # "row"
  BY <1>5 DEF EmptiedInv
<1>6. \/ (job' = job /\ ~PutFile /\ ~DropFile) \/ job'.at # "row" \/ DropFile \/ (Putting /\ (PutPart \/ PutHead \/ DropChunk \/ PutFile))
      \/ (Dropping /\ (DropHead \/ DropChunk))
  <2>1. CASE PutPart \/ PutHead \/ DropHead \/ DropChunk \/ PutFile \/ DropFile
    BY <2>1 DEF PutPart, PutHead, DropHead, DropChunk, PutFile, DropFile, Putting, Dropping
  <2>2. CASE WriteRow
    BY <2>2 DEF WriteRow, AfterRow, Drop, Job, NoJob
  <2>3. CASE \E a \in Account : NextPlain(a) \/ NextMove(a) \/ NextDelete(a)
    BY <2>3 DEF NextPlain, NextMove, NextDelete, Put, Drop, Job
  <2>4. CASE (\E a \in Account : \E v \in Value : Set(a, v) \/ SetSame(a, v))
             \/ (\E a \in Account : Delete(a)) \/ \E s \in Server : DeleteAll(s)
    <3>1. CASE \E a \in Account : \E v \in Value : Set(a, v)
      BY <3>1 DEF Set, Put, Job
    <3>2. CASE \E a \in Account : \E v \in Value : SetSame(a, v)
      BY <3>2 DEF SetSame, PutFile, DropFile, NoJob
    <3>3. CASE \E a \in Account : Delete(a)
      <4>1. PICK a \in Account : job' = Drop(active, a, Absent)
        BY <3>3 DEF Delete
      <4>2. Drop(active, a, Absent).at \in {"unhead", "unfile"}
        BY DEF Drop, Job
      <4> QED BY <4>1, <4>2
    <3>4. CASE \E s \in Server : DeleteAll(s)
      BY <3>4 DEF DeleteAll, NoJob
    <3> QED BY <2>4, <3>1, <3>2, <3>3, <3>4
  <2>5. CASE Crash \/ Fails \/ BootRefused \/ OpenStoreFails \/ \E a \in Account : MoveThrows(a)
    BY <2>5 DEF Crash, Fails, BootRefused, OpenStoreFails, MoveThrows, Down, Quit, NoJob
  <2>6. CASE \/ UNCHANGED secretVars \/ Boot \/ Migrate \/ MoveStores \/ Serve \/ PlainDone
             \/ (\E f \in Files : Rename(f))
             \/ (\E forced \in Stores \cup {"none"} : OpenStore(forced))
    <3>1. job' = job
      BY <2>6 DEF secretVars, Boot, Migrate, MoveStores, Serve, PlainDone, Rename, OpenStore
    <3>2. PutFile \/ DropFile => job' # job \/ DropFile
      BY <1>0, InHandHasJob DEF PutFile, AfterPut, Job, NoJob
    <3> QED BY <3>1, <3>2 DEF PutFile
  <2> QED BY <2>1, <2>2, <2>3, <2>4, <2>5, <2>6 DEF SecretNext
<1> QED BY <1>1, <1>2, <1>3, <1>4, <1>5, <1>6

-----------------------------------------------------------------------------
(* The vault. *)

LEMMA HeardMaps == ASSUME ReadsTrue' PROVE TheVault!ReadsValues
BY DEF ReadsTrue, Heard, TheVault!ReadsValues

LEMMA UndisturbedMaps == ASSUME Undisturbed PROVE TheVault!Reach
<1>1. UNCHANGED [a \in Account |-> IF wanted[a] = Settled THEN Recorded(a) ELSE Absent]
  BY DEF Undisturbed
<1> QED BY <1>1 DEF TheVault!Reach, Undisturbed

\* Nothing a value is read from changes.
LEMMA NothingWritten ==
  ASSUME UNCHANGED <<rows, ring, file, old, wanted>>, at'["secrets"] = at["secrets"]
  PROVE  Undisturbed
BY DEF Undisturbed, Recorded, Get, RingGet, FileGet

LEMMA StartDisturbsNothing ==
  ASSUME SecretInv,
         \/ Boot \/ BootRefused \/ Migrate \/ OpenStoreFails \/ MoveStores \/ Serve \/ Fails
         \/ (\E forced \in Stores \cup {"none"} : OpenStore(forced))
         \/ (\E a \in Account : NextPlain(a) \/ NextMove(a) \/ MoveThrows(a) \/ NextDelete(a))
  PROVE  Undisturbed
<1>1. UNCHANGED <<rows, ring, file, old, wanted>>
  BY DEF Boot, BootRefused, Migrate, OpenStoreFails, MoveStores, Serve, Fails, OpenStore, NextPlain,
         NextMove, MoveThrows, NextDelete, Turn, Down, values
<1>2. at \in [Files -> {"none", "legacy", "data"}]
  BY DEF SecretInv, SecretTypeOK
<1>3. at'["secrets"] = at["secrets"]
  <2>1. CASE Boot \/ BootRefused \/ OpenStoreFails \/ Serve \/ Fails
    BY <2>1 DEF Boot, BootRefused, OpenStoreFails, Serve, Fails, Down
  <2>2. CASE Migrate
    BY <1>2, <2>2 DEF Migrate, Files
  <2>3. CASE MoveStores
    BY <1>2, <2>3 DEF MoveStores, KeyMade, Files
  <2>4. CASE \E forced \in Stores \cup {"none"} : OpenStore(forced)
    BY <1>2, <2>4 DEF OpenStore, KeyMade, Files
  <2>5. CASE \E a \in Account : NextPlain(a) \/ NextMove(a) \/ MoveThrows(a) \/ NextDelete(a)
    BY <2>5 DEF NextPlain, NextMove, MoveThrows, NextDelete, Turn, Down
  <2> QED BY <2>1, <2>2, <2>3, <2>4, <2>5
<1> QED BY <1>1, <1>3, NothingWritten

LEMMA RenameDisturbsNothing == ASSUME SecretInv, NEW f \in Files, Rename(f) PROVE Undisturbed
<1>1. /\ at' = [at EXCEPT ![f] = "data"] /\ UNCHANGED <<rows, ring, wanted>> /\ at[f] = "legacy"
      /\ at \in [Files -> {"none", "legacy", "data"}]
  BY DEF Rename, SecretInv, SecretTypeOK
<1>2. CASE f # "secrets"
  <2>1. UNCHANGED <<file, old>> /\ at'["secrets"] = at["secrets"]
    BY <1>1, <1>2 DEF Rename, Files
  <2> QED BY <1>1, <2>1, NothingWritten
<1>3. CASE f = "secrets"
  <2>1. at["secrets"] = "legacy" /\ at'["secrets"] = "data" /\ file' = old
    BY <1>1, <1>3 DEF Rename, Files
  <2>2. ASSUME NEW a \in Account PROVE Recorded(a)' = Recorded(a)
    <3>1. rows'[a] = rows[a]
      BY <1>1
    <3>2. CASE rows[a].in = "keyring"
      BY <1>1, <3>1, <3>2 DEF Recorded, Get, RingGet
    <3>3. CASE rows[a].in = "file"
      BY <2>1, <3>1, <3>3 DEF Recorded, Get, FileGet, Stores
    <3>4. CASE rows[a].in \notin Stores
      BY <3>1, <3>4 DEF Recorded
    <3> QED BY <3>2, <3>3, <3>4 DEF Stores
  <2> QED BY <1>1, <2>2 DEF Undisturbed
<1> QED BY <1>2, <1>3

\* An account whose row is written with the store that has the value.
LEMMA FiledReads ==
  ASSUME SecretTypeOK, NEW a \in Account, NEW v, Filed(a, v), rows'[a] = Row(active),
         UNCHANGED <<active, ring, file, old, at>>
  PROVE  Recorded(a)' = v
<1>1. rows'[a].in = active /\ active \in Stores
  BY NewRow DEF SecretTypeOK, Row
<1>2. Get(active, a)' = v
  BY DEF Filed, Get, RingGet, FileGet
<1> QED BY <1>1, <1>2 DEF Recorded, Filed, Get, RingGet, FileGet, Stores

LEMMA PlainDoneDisturbsNothing == ASSUME SecretInv, PlainDone PROVE Undisturbed
<1>1. /\ pc = "plain" /\ job = NoJob /\ left = {} /\ SecretTypeOK
      /\ rows' = [a \in Account |-> IF rows[a].in = "plain" THEN Row(active) ELSE rows[a]]
      /\ UNCHANGED <<active, ring, file, old, at, wanted>>
  BY DEF PlainDone, process, values, SecretInv
<1> SUFFICES ASSUME NEW a \in Account PROVE Recorded(a)' = Recorded(a)
  BY <1>1 DEF Undisturbed
<1>2. CASE rows[a].in = "plain"
  <2>1. PICK v \in Value : v = rows[a].value
    BY <1>1, <1>2, Stored
  <2>2. Filed(a, v)
    BY <1>1, <1>2, <2>1 DEF SecretInv, PlainInv
  <2>3. rows'[a] = Row(active)
    BY <1>1, <1>2
  <2>4. Recorded(a)' = v
    BY <1>1, <2>2, <2>3, FiledReads
  <2> QED BY <1>2, <2>1, <2>4 DEF Recorded, Stores
<1>3. CASE rows[a].in # "plain"
  BY <1>1, <1>3 DEF Recorded, Get, RingGet, FileGet
<1> QED BY <1>2, <1>3

\* The row of a moved secret, and of a request: the first changes no value, the
\* second finishes the write.
LEMMA RowReads ==
  ASSUME SecretInv, WriteRow
  PROVE  /\ job.a \in Account /\ pc \in {"move", "up"} /\ job.v \in Value \cup {Absent, Mixed}
         /\ \A a \in Account : a = job.a => Recorded(a)' = job.v
         /\ \A b \in Account \ {job.a} : Recorded(b)' = Recorded(b)
<1>1. /\ job \in InHand /\ job # NoJob /\ job.at = "row" /\ SecretTypeOK
      /\ job.a \in Account /\ job.v \in Value \cup {Absent, Mixed}
  BY InHandHasJob DEF WriteRow, SecretInv, InHand
<1>2. pc \in {"move", "up"} /\ (job.v = Absent \/ Filed(job.a, job.v))
  BY <1>1 DEF SecretInv, JobInv
<1>3. UNCHANGED <<active, ring, file, old, at>>
  BY DEF WriteRow, process, values
<1>4. PICK a \in Account, v \in Value \cup {Absent, Mixed} : a = job.a /\ v = job.v
  BY <1>1
<1> DEFINE r == IF v = Absent THEN NoRow ELSE Row(active)
<1>5. r \in RowOf
  BY <1>1, NewRow DEF SecretTypeOK
<1>6. rows' = [rows EXCEPT ![a] = r]
  BY <1>4 DEF WriteRow
<1> HIDE DEF r
<1>7. rows'[a] = r /\ \A b \in Account \ {a} : rows'[b] = rows[b]
  BY <1>1, <1>5, <1>6, RowWritten
<1>8. Recorded(a)' = v
  <2>1. CASE v = Absent
    <3>1. rows'[a] = NoRow
      BY <1>7, <2>1 DEF r
    <3> QED BY <2>1, <3>1 DEF Recorded, NoRow, Stores
  <2>2. CASE v # Absent
    <3>1. rows'[a] = Row(active)
      BY <1>7, <2>2 DEF r
    <3>2. Filed(a, v)
      BY <1>2, <1>4, <2>2
    <3> QED BY <1>1, <1>3, <3>1, <3>2, FiledReads
  <2> QED BY <2>1, <2>2
<1>9. \A b \in Account \ {a} : Recorded(b)' = Recorded(b)
  BY <1>3, <1>7 DEF Recorded, Get, RingGet, FileGet
<1> QED BY <1>1, <1>2, <1>4, <1>8, <1>9

LEMMA RowMaps == ASSUME SecretInv, WriteRow PROVE TheVault!Change
<1>1. /\ job.a \in Account /\ pc \in {"move", "up"} /\ job.v \in Value \cup {Absent, Mixed}
      /\ \A b \in Account \ {job.a} : Recorded(b)' = Recorded(b)
  BY RowReads
<1>2. PICK a \in Account, v \in Value \cup {Absent, Mixed} : a = job.a /\ v = job.v
  BY <1>1
<1>3. Recorded(a)' = v
  BY <1>2, RowReads
<1>4. job # NoJob /\ job.at = "row" /\ SecretTypeOK /\ wanted \in [Account -> Value \cup {Absent, Settled}]
  BY DEF WriteRow, NoJob, SecretInv, SecretTypeOK
<1>5. CASE pc = "move"
  <2>1. wanted' = wanted
    BY <1>5 DEF WriteRow
  <2>2. rows[a].in = Other /\ v = Get(Other, a) /\ Other \in Stores
    BY <1>2, <1>4, <1>5, OtherStore DEF SecretInv, MoveInv
  <2>3. wanted[a] = Settled => Recorded(a) = v
    BY <1>5, <2>2, FileIsHome DEF Recorded
  <2>4. Undisturbed
    BY <1>1, <1>2, <1>3, <2>1, <2>3 DEF Undisturbed
  <2> QED BY <2>4, UndisturbedMaps DEF TheVault!Change
<1>6. CASE pc = "up"
  <2>1. wanted[a] = v /\ wanted[a] # Settled
    BY <1>2, <1>4, <1>6, ValuesDiffer DEF SecretInv, UpInv
  <2>2. wanted' = [wanted EXCEPT ![a] = Settled]
    BY <1>2, <1>6 DEF WriteRow
  <2> DEFINE value == [b \in Account |-> IF wanted[b] = Settled THEN Recorded(b) ELSE Absent]
  <2>3. value' = [value EXCEPT ![a] = wanted[a]]
    BY <1>1, <1>2, <1>3, <1>4, <2>1, <2>2
  <2>4. TheVault!Finish(a)
    BY <2>1, <2>2, <2>3 DEF TheVault!Finish
  <2> QED BY <2>4 DEF TheVault!Change
<1> QED BY <1>1, <1>5, <1>6

\* A set that writes nothing, where the row is.
LEMMA SameIsHome ==
  ASSUME SecretInv, NEW a \in Account, NEW v \in Value, SetSame(a, v), AtHome(a)
  PROVE  Recorded(a) = v
<1>1. Answer(a) = v /\ v # Absent /\ active \in Stores
  BY ValuesDiffer DEF SetSame, SecretInv, SecretTypeOK
<1> QED BY <1>1 DEF Answer, AtHome, Recorded

LEMMA HomeStays ==
  ASSUME HomeInv, Undisturbed, \A a \in Account : Known(a)' = Known(a) PROVE HomeInv'
BY DEF HomeInv, Undisturbed

LEMMA HomeStep == ASSUME SecretInv, ReadInv, [SecretNext]_secretVars PROVE HomeInv'
<1>0. HomeInv /\ SecretTypeOK
  BY DEF ReadInv, SecretInv
<1>1. CASE PutPart \/ PutHead \/ DropHead \/ DropChunk \/ PutFile \/ DropFile
  <2>1. Undisturbed
    BY <1>1, PutPartKeeps, PutHeadKeeps, DropHeadKeeps, DropRestKeeps, DropChunkKeeps, PutFileKeeps,
       DropFileKeeps
  <2>2. rows' = rows
    BY <1>1 DEF PutPart, PutHead, DropHead, DropChunk, PutFile, DropFile, InRing, InFile, KeepsSQLite
  <2> QED BY <1>0, <2>1, <2>2, HomeStays DEF Known
<1>2. CASE WriteRow
  <2>1. /\ job.a \in Account /\ job.v \in Value \cup {Absent, Mixed}
        /\ \A b \in Account \ {job.a} : Recorded(b)' = Recorded(b)
    BY <1>2, RowReads
  <2>2. \A a \in Account : a = job.a => Recorded(a)' = job.v
    BY <1>2, RowReads
  <2>3. \A b \in Account \ {job.a} : rows'[b] = rows[b] /\ wanted'[b] = wanted[b]
    BY <1>0, <1>2, <2>1 DEF WriteRow, SecretTypeOK
  <2>4. rows'[job.a] # NoRow => job.v # Absent
    BY <1>0, <1>2, <2>1 DEF WriteRow, SecretTypeOK
  <2>5. ASSUME NEW a \in Account, Known(a)', wanted'[a] = Settled PROVE Recorded(a)' # Absent
    <3>1. CASE a = job.a
      BY <2>2, <2>4, <2>5, <3>1 DEF Known
    <3>2. CASE a # job.a
      BY <1>0, <2>1, <2>3, <2>5, <3>2 DEF HomeInv, Known
    <3> QED BY <3>1, <3>2
  <2> QED BY <2>5 DEF HomeInv
<1>3. CASE PlainDone
  <2>1. Undisturbed
    BY <1>3, PlainDoneDisturbsNothing
  <2>2. \A a \in Account : Known(a)' = Known(a)
    BY <1>0, <1>3, NewRow DEF PlainDone, Known, SecretTypeOK, NoRow
  <2> QED BY <1>0, <2>1, <2>2, HomeStays
<1>4. CASE \E f \in Files : Rename(f)
  <2>1. Undisturbed
    BY <1>4, RenameDisturbsNothing
  <2> QED BY <1>0, <1>4, <2>1, HomeStays DEF Rename, Known
<1>5. CASE \/ Boot \/ BootRefused \/ Migrate \/ OpenStoreFails \/ MoveStores \/ Serve \/ Fails
           \/ (\E forced \in Stores \cup {"none"} : OpenStore(forced))
           \/ (\E a \in Account : NextPlain(a) \/ NextMove(a) \/ MoveThrows(a) \/ NextDelete(a))
  <2>1. Undisturbed
    BY <1>5, StartDisturbsNothing
  <2>2. rows' = rows
    BY <1>5 DEF Boot, BootRefused, Migrate, OpenStoreFails, MoveStores, Serve, Fails, OpenStore, NextPlain,
       NextMove, MoveThrows, NextDelete, Turn, Down
  <2> QED BY <1>0, <2>1, <2>2, HomeStays DEF Known
<1>6. CASE UNCHANGED secretVars
  <2>1. UNCHANGED <<rows, ring, file, old, wanted, at>>
    BY <1>6 DEF secretVars, values
  <2> QED BY <1>0, <2>1, NothingWritten, HomeStays DEF Known
\* A request or a crash: fewer accounts are settled.
<1>7. ASSUME UNCHANGED <<rows, ring, file, old, at>>,
             \A a \in Account : wanted'[a] = Settled => wanted[a] = Settled
      PROVE  HomeInv'
  BY <1>0, <1>7 DEF HomeInv, Known, Recorded, Get, RingGet, FileGet
<1>8. CASE Crash
  BY <1>0, <1>7, <1>8, ValuesDiffer DEF Crash, Down, Abandoned, values
<1>9. ASSUME NEW as \in SUBSET Account, NEW v \in Value \cup {Absent}, Request(as, v) PROVE HomeInv'
  <2>1. wanted' = [a \in Account |-> IF a \in as THEN v ELSE wanted[a]] /\ v # Settled
    BY <1>9, ValuesDiffer DEF Request
  <2> QED BY <1>7, <1>9, <2>1 DEF Request, values
<1>10. ASSUME NEW a \in Account, NEW v \in Value, SetSame(a, v) PROVE HomeInv'
  <2>1. /\ UNCHANGED <<rows, ring, file, old, at>>
        /\ wanted' = [wanted EXCEPT ![a] = IF AtHome(a) THEN Settled ELSE v]
    BY <1>10 DEF SetSame, values
  <2>2. \A b \in Account : Recorded(b)' = Recorded(b) /\ Known(b)' = Known(b)
    BY <2>1 DEF Recorded, Get, RingGet, FileGet, Known
  <2>3. \A b \in Account \ {a} : wanted'[b] = wanted[b]
    BY <1>0, <2>1 DEF SecretTypeOK
  <2>4. wanted'[a] = Settled => Recorded(a) = v
    <3>1. wanted'[a] = Settled => AtHome(a)
      BY <1>0, <2>1, ValuesDiffer DEF SecretTypeOK
    <3> QED BY <1>10, <3>1, SameIsHome
  <2> QED BY <1>0, <2>2, <2>3, <2>4, ValuesDiffer DEF HomeInv
<1>11. CASE \/ (\E a \in Account : \E v \in Value : Set(a, v) \/ SetSame(a, v))
            \/ (\E a \in Account : Delete(a)) \/ \E s \in Server : DeleteAll(s)
  <2>1. CASE \E as \in SUBSET Account : \E v \in Value \cup {Absent} : Request(as, v)
    BY <1>9, <2>1
  <2>2. CASE \E a \in Account : \E v \in Value : Set(a, v)
    BY <2>1, <2>2 DEF Set
  <2>3. CASE \E a \in Account : Delete(a)
    BY <2>1, <2>3 DEF Delete
  <2>4. CASE \E s \in Server : DeleteAll(s)
    BY <2>1, <2>4 DEF DeleteAll
  <2> QED BY <1>10, <1>11, <2>2, <2>3, <2>4
<1> QED BY <1>1, <1>2, <1>3, <1>4, <1>5, <1>6, <1>8, <1>11 DEF SecretNext

\* A value is read where the row says, or was left by a write cut short.
THEOREM ReadInvariant == SecretSpec => []ReadInv
<1>1. SecretInv /\ ReadInv /\ [SecretNext]_secretVars => ReadInv'
  BY CopyStep, OldStep, EmptiedStep, HomeStep DEF ReadInv
<1> QED BY <1>1, ReadInitHolds, SecretInvariant, PTL DEF SecretSpec

\* A write of some accounts starts.
LEMMA BeginMaps ==
  ASSUME NEW as \in SUBSET Account, NEW v \in Value \cup {Absent},
         wanted' = [a \in Account |-> IF a \in as THEN v ELSE wanted[a]],
         UNCHANGED <<rows, ring, file, old, at>>
  PROVE  TheVault!Change
<1> DEFINE want == [a \in as |-> v]
           value == [b \in Account |-> IF wanted[b] = Settled THEN Recorded(b) ELSE Absent]
<1>1. want \in [as -> Value \cup {Absent}]
  OBVIOUS
<1>2. \A b \in Account : Recorded(b)' = Recorded(b)
  BY DEF Recorded, Get, RingGet, FileGet
<1>3. value' = [a \in Account |-> IF a \in as THEN Absent ELSE value[a]]
  BY <1>2, ValuesDiffer
<1>4. wanted' = [a \in Account |-> IF a \in as THEN want[a] ELSE wanted[a]]
  OBVIOUS
<1>5. TheVault!Begin(as, want)
  BY <1>3, <1>4 DEF TheVault!Begin
<1> QED BY <1>1, <1>5 DEF TheVault!Change

LEMMA RequestMaps ==
  ASSUME NEW as \in SUBSET Account, NEW v \in Value \cup {Absent}, Request(as, v)
  PROVE  TheVault!Change
BY BeginMaps DEF Request, values

\* A process that dies in the middle of an adoption gives up what the file had.
LEMMA CrashMaps == ASSUME SecretInv, Crash PROVE TheVault!Change
<1>1. wanted' = Abandoned /\ UNCHANGED <<rows, ring, file, old, at>>
  BY DEF Crash, Down, values
<1>2. CASE ~Interrupted
  <2>1. wanted' = wanted
    BY <1>1, <1>2 DEF Abandoned
  <2> QED BY <1>1, <2>1, NothingWritten, UndisturbedMaps DEF TheVault!Change
<1>3. CASE Interrupted
  <2>1. PICK as \in SUBSET Account : as = {a \in Account : rows[a].in = "file"}
    OBVIOUS
  <2>2. wanted' = [a \in Account |-> IF a \in as THEN Absent ELSE wanted[a]]
    BY <1>1, <1>3, <2>1 DEF Abandoned
  <2> QED BY <1>1, <2>2, BeginMaps
<1> QED BY <1>2, <1>3

LEMMA VaultInit == SecretInit => TheVault!Init
<1> SUFFICES ASSUME SecretInit PROVE TheVault!Init
  OBVIOUS
<1>1. wanted = [a \in Account |-> Settled]
  BY DEF SecretInit
<1>2. PICK home \in Homes, given \in [Account -> OldValue] :
       /\ rows \in [Account -> OldRow]
       /\ home = "none" => \A a \in Account : ~Known(a)
       /\ ring = [a \in Account |-> IF rows[a].in = "keyring" THEN Whole(given[a]) ELSE NoEntry]
       /\ LET sealed == [a \in Account |-> IF rows[a].in # "file" THEN NoSeal
                                         ELSE [value |-> given[a], rekeyed |-> FALSE]]
              none == [a \in Account |-> NoSeal]
          IN /\ file = IF home = "data" THEN sealed ELSE none
             /\ old = IF home = "legacy" THEN sealed ELSE none
             /\ at = [f \in Files |-> IF f = "db" \/ sealed # none THEN home ELSE "none"]
  BY DEF SecretInit
<1>3. SecretTypeOK
  BY SecretInitHolds DEF SecretInv
<1>4. ASSUME NEW a \in Account PROVE Recorded(a) \in Value \cup {Absent}
  <2>1. rows[a] \in RowOf /\ given[a] \in Value
    BY <1>2, <1>3, LeftBehind DEF SecretTypeOK
  <2>2. CASE rows[a].in = "keyring"
    <3>1. ring[a] = Whole(given[a])
      BY <1>2, <2>2
    <3>2. Joined(ring[a]) = given[a]
      BY <2>1, <3>1, WholeType, HoldsReads
    <3> QED BY <2>1, <2>2, <3>2 DEF Recorded, Get, RingGet, Stores
  <2>3. CASE rows[a].in = "file"
    <3>1. old[a].value \in Value \cup {Absent} /\ file[a].value \in Value \cup {Absent}
      BY <1>2, <2>1 DEF NoSeal
    <3> QED BY <2>3, <3>1 DEF Recorded, Get, FileGet, Stores
  <2>4. CASE rows[a].in \notin Stores
    BY <2>1, <2>4 DEF Recorded, RowOf, NoRow, Row, Plain
  <2> QED BY <2>2, <2>3, <2>4 DEF Stores
<1>5. [a \in Account |-> IF wanted[a] = Settled THEN Recorded(a) ELSE Absent] \in [Account -> Value \cup {Absent}]
  BY <1>4
<1>6. [a \in Account |-> IF pc = "up" /\ wanted[a] = Settled /\ (a \in torn => rows[a].in = active)
                        THEN Answer(a) ELSE Absent] = [a \in Account |-> Absent]
  BY DEF SecretInit
<1> QED BY <1>1, <1>5, <1>6 DEF TheVault!Init

\* A set of a value the store has already: done at once, or dropped.
LEMMA SameMaps == ASSUME SecretInv, NEW a \in Account, NEW v \in Value, SetSame(a, v) PROVE TheVault!Change
<1>1. /\ pc = "up" /\ SecretTypeOK /\ Answer(a) = v /\ UNCHANGED <<rows, ring, file, old, at>>
      /\ wanted' = [wanted EXCEPT ![a] = IF AtHome(a) THEN Settled ELSE v]
  BY DEF SetSame, values, SecretInv
<1>2. \A b \in Account : Recorded(b)' = Recorded(b)
  BY <1>1 DEF Recorded, Get, RingGet, FileGet
<1>3. wanted \in [Account -> Value \cup {Absent, Settled}] /\ v # Absent /\ v # Settled
  BY <1>1, ValuesDiffer DEF SecretTypeOK
<1>4. CASE AtHome(a)
  <2>1. Recorded(a) = v
    BY <1>4, SameIsHome
  <2> DEFINE value == [b \in Account |-> IF wanted[b] = Settled THEN Recorded(b) ELSE Absent]
  <2>2. wanted' = [wanted EXCEPT ![a] = Settled]
    BY <1>1, <1>4
  <2>3. value' = [value EXCEPT ![a] = v]
    BY <1>2, <1>3, <2>1, <2>2
  <2>4. TheVault!Write(a, v)
    BY <2>2, <2>3 DEF TheVault!Write
  <2> QED BY <2>4 DEF TheVault!Change
<1>5. CASE ~AtHome(a)
  <2>1. PICK as \in SUBSET Account, w \in Value \cup {Absent} : as = {a} /\ w = v
    OBVIOUS
  <2>2. wanted' = [b \in Account |-> IF b \in as THEN w ELSE wanted[b]]
    BY <1>1, <1>3, <1>5, <2>1
  <2>3. UNCHANGED <<rows, ring, file, old, at>>
    BY <1>1
  <2> QED BY <2>2, <2>3, BeginMaps
<1> QED BY <1>4, <1>5

LEMMA VaultStep == ASSUME SecretInv, [SecretNext]_secretVars PROVE TheVault!Change
<1>1. CASE UNCHANGED secretVars
  <2>1. UNCHANGED <<rows, ring, file, old, wanted, at>>
    BY <1>1 DEF secretVars, values
  <2> QED BY <2>1, NothingWritten, UndisturbedMaps DEF TheVault!Change
<1>2. CASE PutPart \/ PutHead \/ DropHead \/ DropChunk \/ PutFile \/ DropFile
  BY <1>2, PutPartKeeps, PutHeadKeeps, DropHeadKeeps, DropRestKeeps, DropChunkKeeps, PutFileKeeps,
     DropFileKeeps, UndisturbedMaps DEF TheVault!Change
<1>3. CASE WriteRow
  BY <1>3, RowMaps
<1>4. CASE Crash
  BY <1>4, CrashMaps
<1>5. CASE \/ Boot \/ BootRefused \/ Migrate \/ OpenStoreFails \/ MoveStores \/ Serve \/ Fails
           \/ (\E forced \in Stores \cup {"none"} : OpenStore(forced))
           \/ (\E a \in Account : NextPlain(a) \/ NextMove(a) \/ MoveThrows(a) \/ NextDelete(a))
  BY <1>5, StartDisturbsNothing, UndisturbedMaps DEF TheVault!Change
<1>6. CASE PlainDone
  BY <1>6, PlainDoneDisturbsNothing, UndisturbedMaps DEF TheVault!Change
<1>7. CASE \E f \in Files : Rename(f)
  BY <1>7, RenameDisturbsNothing, UndisturbedMaps DEF TheVault!Change
<1>8. CASE \E a \in Account : \E v \in Value : Set(a, v) \/ SetSame(a, v)
  <2>1. ASSUME NEW a \in Account, NEW v \in Value, Set(a, v) PROVE TheVault!Change
    <3>1. Request({a}, v)
      BY <2>1 DEF Set
    <3> QED BY <3>1, RequestMaps
  <2> QED BY <1>8, <2>1, SameMaps
<1>9. CASE \E a \in Account : Delete(a)
  <2>1. PICK a \in Account : Request({a}, Absent)
    BY <1>9 DEF Delete
  <2> QED BY <2>1, RequestMaps
<1>10. CASE \E s \in Server : DeleteAll(s)
  <2>1. PICK as \in SUBSET Account : Request(as, Absent)
    BY <1>10 DEF DeleteAll
  <2> QED BY <2>1, RequestMaps
<1> QED BY <1>1, <1>2, <1>3, <1>4, <1>5, <1>6, <1>7, <1>8, <1>9, <1>10 DEF SecretNext

\* Crashes, refusals of the keychain, moves and adoptions included, the store
\* implements the vault: a value changes only as somebody asked, and a reader gets
\* that value or none, but for the copies a write cut short left (secrets.ts).
THEOREM StoreIsVault == SecretSpec => KeepsTheVault
<1>1. SecretInv /\ ReadsTrue' /\ [SecretNext]_secretVars => [TheVault!Next]_(TheVault!vars)
  BY VaultStep, HeardMaps DEF TheVault!Next
<1>2. SecretInv /\ ReadInv => ReadsTrue
  BY ReadsAre
<1> QED BY <1>1, <1>2, VaultInit, SecretInvariant, ReadInvariant, PTL
        DEF SecretSpec, KeepsTheVault, TheVault!Spec
=============================================================================
