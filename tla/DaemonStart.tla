----------------------------- MODULE DaemonStart -----------------------------
(***************************************************************************)
(* How the shims of several hosts find, start and replace the one daemon:  *)
(* ensureDaemon of src/shim.ts against src/daemon.ts and src/index.ts.     *)
(* The shims share a port, a lock file and nothing else; each step between *)
(* two awaits or two file calls of a shim is an action, since another      *)
(* process may run there.                                                  *)
(*                                                                         *)
(* Time: a lock is old (STALE_LOCK_MS) only once its creator is dead, and  *)
(* a shim stops waiting (READY_TIMEOUT_MS) only when no daemon is coming:  *)
(* an owner waits 20 s plus two probes, less than the 30 s of a stale lock.*)
(***************************************************************************)
EXTENDS Integers, FiniteSets

CONSTANTS Shim, Daemon,      \* Daemon: process ids
          Version,           \* Version[s]: the release shim s, and the daemon it spawns, is of
          Running,           \* the releases of a daemon that may already run
          Legacy,            \* the releases without POST /api/shutdown
          None,
          MaxFaults          \* bound on crashes, failed starts and slow probes

ASSUME VersionIsNat == Version \in [Shim -> Nat] /\ Running \cup Legacy \subseteq Nat
ASSUME FaultsAssumption == MaxFaults \in Nat

VARIABLES
  shim,     \* shim[s]: where ensureDaemon is, whether it owns the lock, the daemon it
            \* found, the daemon whose token it holds
  lock,     \* daemon-<port>.lock: NoLock, or who made it, and whether it is stale
  daemon,   \* daemon[d]: the process and its release
  faults

vars == <<shim, lock, daemon, faults>>

NoLock == [by |-> None, dead |-> FALSE, stale |-> FALSE]
Gone == [st |-> "gone", version |-> 0]
Off == [pc |-> "off", owner |-> FALSE, found |-> None, token |-> None]

\* The port is bound before the context exists, and freed before it is closed.
OnPort == {d \in Daemon : daemon[d].st \in {"listening", "up", "closing"}}
Answering == {d \in Daemon : daemon[d].st \in {"up", "closing"}}
Open == {d \in Daemon : daemon[d].st \in {"up", "closing", "released"}}
\* A daemon is on its way: it starts, or an owner is about to spawn it.
Coming == \/ \E d \in Daemon : daemon[d].st \in {"starting", "listening"}
          \/ \E s \in Shim : shim[s].pc = "spawn"
Older(d, s) == daemon[d].version < Version[s]

Go(s, pc) == shim' = [shim EXCEPT ![s].pc = pc]
Fault == faults < MaxFaults /\ faults' = faults + 1

------------------------------------------------------------------------------
(* The shim: ensureDaemon, line by line. *)

\* The host starts the shim, a message of the host finds the daemon gone, or the
\* host tries again after an error.
Ensure(s) ==
  /\ \/ shim[s].pc \in {"off", "failed"}
     \/ shim[s].pc = "ready" /\ shim[s].found \notin Answering
  /\ shim' = [shim EXCEPT ![s] = [Off EXCEPT !.pc = "probe"]]
  /\ UNCHANGED <<lock, daemon, faults>>

\* The pid stays known: an id is reused only when no shim names it.
Found(s, d) == [shim[s] EXCEPT !.pc = "ready", !.found = d, !.owner = FALSE, !.token = None]
Released(s) == IF shim[s].owner THEN NoLock ELSE lock       \* finally: unlink, whosever it is

\* What a probe of the health route may say: a busy daemon misses the second it has.
Sees(answer) ==
  \/ Answering = {} /\ answer = None /\ UNCHANGED faults
  \/ answer \in Answering /\ UNCHANGED faults
  \/ Answering # {} /\ answer = None /\ Fault

Probe(s) ==
  \E answer \in Daemon \cup {None} :
    /\ shim[s].pc = "probe" /\ Sees(answer)
    /\ shim' = [shim EXCEPT ![s] =
         IF answer = None THEN [@ EXCEPT !.pc = "lock"]
         ELSE IF Older(answer, s) THEN [@ EXCEPT !.pc = "retire", !.found = answer]
         ELSE Found(s, answer)]
    /\ UNCHANGED <<lock, daemon>>

\* GET /api/token, from whoever has the port by now; any failure is left to the wait.
FetchToken(s) ==
  \E answer \in Daemon \cup {None} :
    /\ shim[s].pc = "retire" /\ Sees(answer)
    /\ shim' = [shim EXCEPT ![s].pc = IF answer = None THEN "leave" ELSE "post",
                            ![s].token = answer]
    /\ UNCHANGED <<lock, daemon>>

\* The daemon checks the token it minted when it was launched, and nothing else.
Accepts(answer, s) == answer # None /\ answer = shim[s].token

\* POST /api/shutdown, to whoever has the port by now; any failure is left to the wait.
AskToStop(s) ==
  \E answer \in Daemon \cup {None} :
    /\ shim[s].pc = "post" /\ Sees(answer)
    /\ IF Accepts(answer, s) /\ daemon[answer].version \in Legacy
       THEN shim' = [shim EXCEPT ![s] = Found(s, answer)] /\ UNCHANGED daemon
       ELSE /\ shim' = [shim EXCEPT ![s].pc = "leave", ![s].token = None]
            /\ daemon' = IF Accepts(answer, s) /\ daemon[answer].st = "up"
                         THEN [daemon EXCEPT ![answer].st = "closing"] ELSE daemon
    /\ UNCHANGED lock

\* Replaced by another shim, or gone from the port and from the process table.
Replaced(s) == \/ \E d \in Answering : ~Older(d, s)
               \/ Answering = {} /\ daemon[shim[s].found] = Gone

Left(s) ==
  /\ shim[s].pc = "leave" /\ Replaced(s)
  /\ shim' = [shim EXCEPT ![s].pc = "lock", ![s].found = None]
  /\ UNCHANGED <<lock, daemon, faults>>

\* SHUTDOWN_WAIT_MS is over: what answers is used after all.
Stays(s) ==
  /\ shim[s].pc = "leave" /\ ~Replaced(s)
  /\ \E d \in IF Answering = {} THEN {shim[s].found} ELSE Answering :
       shim' = [shim EXCEPT ![s] = Found(s, d)]
  /\ UNCHANGED <<lock, daemon, faults>>

\* open(lock, 'wx')
Lock(s) ==
  /\ shim[s].pc = "lock"
  /\ IF lock = NoLock
     THEN /\ lock' = [NoLock EXCEPT !.by = s]
          /\ shim' = [shim EXCEPT ![s].pc = "spawn", ![s].owner = TRUE]
     ELSE Go(s, "stat") /\ UNCHANGED lock
  /\ UNCHANGED <<daemon, faults>>

\* A slip the shim does not make: a lock is never too old.
StatAnyAge(s) ==
  /\ shim[s].pc = "stat" /\ Go(s, "wait")
  /\ UNCHANGED <<lock, daemon, faults>>

\* A lock that vanished before the stat, or that is not old: wait for its owner.
Stat(s) ==
  /\ shim[s].pc = "stat"
  /\ Go(s, IF lock.stale THEN "unlink" ELSE "wait")
  /\ UNCHANGED <<lock, daemon, faults>>

\* unlink takes whatever lock is there now; when there is none it throws, and the shim waits.
Unlink(s) ==
  /\ shim[s].pc = "unlink"
  /\ IF lock = NoLock THEN Go(s, "wait") ELSE Go(s, "probe")
  /\ lock' = NoLock
  /\ UNCHANGED <<daemon, faults>>

Free(d) == daemon[d] = Gone /\ \A s \in Shim : d \notin {shim[s].found, shim[s].token}

\* The owner looks once more, and spawns.
Spawn(s) ==
  \E answer \in Daemon \cup {None} :
    /\ shim[s].pc = "spawn" /\ Sees(answer)
    /\ Go(s, "wait")
    /\ IF answer # None THEN UNCHANGED daemon
       ELSE /\ \E d \in Daemon : Free(d)
            /\ daemon' = [daemon EXCEPT ![CHOOSE d \in Daemon : Free(d)] =
                            [st |-> "starting", version |-> Version[s]]]
    /\ UNCHANGED lock

Wait(s) ==
  \E d \in Answering :
    /\ shim[s].pc = "wait"
    /\ shim' = [shim EXCEPT ![s] = Found(s, d)]
    /\ lock' = Released(s)
    /\ UNCHANGED <<daemon, faults>>

\* A slip the wait does not make: it throws before the lock is given back.
WaitTimesOutLocked(s) ==
  /\ shim[s].pc = "wait" /\ Answering = {} /\ ~Coming
  /\ shim' = [shim EXCEPT ![s].pc = "failed", ![s].owner = FALSE]
  /\ UNCHANGED <<lock, daemon, faults>>

WaitTimesOut(s) ==
  /\ shim[s].pc = "wait" /\ Answering = {} /\ ~Coming
  /\ shim' = [shim EXCEPT ![s].pc = "failed", ![s].owner = FALSE]
  /\ lock' = Released(s)
  /\ UNCHANGED <<daemon, faults>>

\* The host ends or is killed.  An owner leaves its lock behind.
CrashShim(s) ==
  /\ shim[s].pc # "off" /\ Fault
  /\ shim' = [shim EXCEPT ![s] = Off]
  /\ lock' = IF shim[s].owner /\ lock.by = s THEN [lock EXCEPT !.dead = TRUE] ELSE lock
  /\ UNCHANGED daemon

LockAges ==
  /\ lock.dead /\ ~lock.stale
  /\ lock' = [lock EXCEPT !.stale = TRUE]
  /\ UNCHANGED <<shim, daemon, faults>>

------------------------------------------------------------------------------
(* The daemon. *)

Becomes(d, st) == daemon' = [daemon EXCEPT ![d] = IF st = "gone" THEN Gone ELSE [@ EXCEPT !.st = st]]

\* Slips the code does not make, here and below: each breaks a property.
ListenAnyway(d) ==
  /\ daemon[d].st = "starting" /\ Becomes(d, "listening")
  /\ UNCHANGED <<shim, lock, faults>>

\* listen(); EADDRINUSE ends the process with code 0.
Listen(d) ==
  /\ daemon[d].st = "starting"
  /\ Becomes(d, IF OnPort = {} THEN "listening" ELSE "gone")
  /\ UNCHANGED <<shim, lock, faults>>

\* createContext opens the database; only then are requests answered.
ContextOpens(d) ==
  /\ daemon[d].st = "listening" /\ Becomes(d, "up")
  /\ UNCHANGED <<shim, lock, faults>>

ContextFails(d) ==
  /\ daemon[d].st = "listening" /\ Becomes(d, "gone") /\ Fault
  /\ UNCHANGED <<shim, lock>>

\* No open exchange for idleMs: nobody is looking for the daemon either.
IdleExit(d) ==
  /\ daemon[d].st = "up"
  /\ \A s \in Shim : shim[s].pc \in {"off", "failed", "ready"}
  /\ Becomes(d, "closing")
  /\ UNCHANGED <<shim, lock, faults>>

\* close(): the MCP endpoint, then the port, then the context.
FreePort(d) ==
  /\ daemon[d].st = "closing" /\ Becomes(d, "released")
  /\ UNCHANGED <<shim, lock, faults>>

Exit(d) ==
  /\ daemon[d].st = "released" /\ Becomes(d, "gone")
  /\ UNCHANGED <<shim, lock, faults>>

CrashDaemon(d) ==
  /\ daemon[d].st # "gone" /\ Becomes(d, "gone") /\ Fault
  /\ UNCHANGED <<shim, lock>>

------------------------------------------------------------------------------
Init == /\ shim = [s \in Shim |-> Off]
        /\ lock = NoLock
        /\ \E first \in {Gone} \cup [st : {"up"}, version : Running] :
             daemon = [d \in Daemon |-> IF d = CHOOSE x \in Daemon : TRUE THEN first ELSE Gone]
        /\ faults = 0

ShimStep(s) ==
  \/ Probe(s) \/ FetchToken(s) \/ AskToStop(s) \/ Left(s) \/ Stays(s) \/ Lock(s) \/ Stat(s) \/ Unlink(s)
  \/ Spawn(s) \/ Wait(s) \/ WaitTimesOut(s)
DaemonStep(d) == Listen(d) \/ ContextOpens(d) \/ FreePort(d) \/ Exit(d)

Next ==
  \/ \E s \in Shim : Ensure(s) \/ ShimStep(s) \/ CrashShim(s)
  \/ LockAges
  \/ \E d \in Daemon : DaemonStep(d) \/ ContextFails(d) \/ IdleExit(d) \/ CrashDaemon(d)

Spec == Init /\ [][Next]_vars

\* Processes that run make their next step; a host whose shim failed tries again;
\* time passes.  Nobody has to start, to fall idle or to fail.
Fairness ==
  /\ \A s \in Shim : WF_vars(ShimStep(s)) /\ WF_vars(shim[s].pc = "failed" /\ Ensure(s))
  /\ \A d \in Daemon : WF_vars(DaemonStep(d))
  /\ WF_vars(LockAges)
FairSpec == Spec /\ Fairness

------------------------------------------------------------------------------
(* Properties. *)

Pcs == {"off", "probe", "retire", "post", "leave", "lock", "stat", "unlink", "spawn", "wait",
        "ready", "failed"}

TypeOK ==
  /\ shim \in [Shim -> [pc : Pcs, owner : BOOLEAN,
                     found : Daemon \cup {None}, token : Daemon \cup {None}]]
  /\ lock \in [by : Shim \cup {None}, dead : BOOLEAN, stale : BOOLEAN]
  /\ daemon \in [Daemon -> [st : {"gone", "starting", "listening", "up", "closing", "released"},
                            version : Nat]]
  /\ Cardinality(OnPort) <= 1
  /\ faults \in 0..MaxFaults

\* No shim that finished, however its wait ended, leaves the lock behind: a lock
\* is there only while the shim that made it still owns one, or after it died
\* (shim.ts:125-171).
LockHasOwner == lock # NoLock => lock.dead \/ shim[lock.by].owner

\* A shim that looks for the daemon finds one, whatever crashes, stale locks and
\* failed starts come first (shim.ts:119-172).
Recovers == \A s \in Shim : shim[s].pc \notin {"off", "ready"} ~> shim[s].pc \in {"off", "ready"}

\* "Lets a newer shim replace this daemon" (rest.ts:148): a shim stops only a daemon
\* older than itself.  A slow shim refutes it: by the time it asks, the daemon that
\* answers is the one that replaced the one it found.
StopsOnlyOlder ==
  [][\A s \in Shim, d \in Daemon :
       shim[s].pc = "post" /\ shim'[s].pc = "leave" /\ daemon'[d] # daemon[d] => Older(d, s)]_vars
=============================================================================
