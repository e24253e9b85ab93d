-------------------------- MODULE NetworkAdmission --------------------------
(***************************************************************************)
(* The network controls every outgoing request passes: the kill switches   *)
(* (global and per Target), the concurrency permits and the gateway that   *)
(* holds a permit while it resolves, connects, sends and reads.            *)
(*                                                                         *)
(* shared: PostgresNetworkExecutionController.  The switches and the limit *)
(* are rows, a permit is a session advisory lock on a slot number, and a   *)
(* session that is invalidated keeps its lock until the server ends it.    *)
(* The server may also end the session of a call that goes on; the call    *)
(* finds out at its next statement, and there is none under the permit.    *)
(* Otherwise: NetworkExecutionController, switches behind a thread lock    *)
(* and a BoundedSemaphore, whose permits are slots nobody scans for.       *)
(***************************************************************************)
EXTENDS Naturals, FiniteSets

CONSTANTS
  Call,           \* gateway.request calls, of any number of processes
  Target,
  Slots,          \* the largest maximum_concurrency (1024 in the code)
  Free, Orphan    \* a slot nobody holds; one held by an invalidated session

ASSUME AdmissionAssumption ==
  /\ Slots \in Nat \ {0}
  /\ Free \notin Call /\ Orphan \notin Call /\ Free # Orphan

VARIABLES
  shared,         \* which controller the gateway was built with
  globalEnabled,  \* network_global_control.global_enabled
  disabled,       \* network_disabled_targets
  maximum,        \* network_global_control.maximum_concurrency
  lock,           \* who holds each slot
  pc,
  target,         \* the Target of each call
  slot,           \* acquired_slot; 0 is None
  scan,           \* the slot the scan tries next, and the limit it read
  expired,        \* has the permit deadline of the call passed?
  connected,      \* does the call have a connection to its destination?
  enabledSince,   \* history: was the network enabled for the call's Target
                  \* at some moment since its destination was resolved?
  granted         \* history: the limit under which the call was admitted; 0
                  \* if it was not, or if the server has ended its session

controls == <<shared, globalEnabled, disabled, maximum>>
vars == <<controls, lock, pc, target, slot, scan, expired, connected, enabledSince, granted>>

Slot == 1 .. Slots

TypeOK ==
  /\ shared \in BOOLEAN /\ globalEnabled \in BOOLEAN
  /\ disabled \subseteq Target
  /\ maximum \in Slot
  /\ lock \in [Slot -> Call \cup {Free, Orphan}]
  /\ pc \in [Call -> {"idle", "check", "limit", "try", "poll", "acquired",
                      "recheck", "admitted", "resolved", "connect", "open",
                      "release"}]
  /\ target \in [Call -> Target]
  /\ slot \in [Call -> 0 .. Slots]
  /\ scan \in [Call -> [next : 1 .. Slots + 1, limit : 0 .. Slots]]
  /\ expired \in [Call -> BOOLEAN]
  /\ connected \in [Call -> BOOLEAN]
  /\ enabledSince \in [Call -> BOOLEAN]
  /\ granted \in [Call -> 0 .. Slots]

NoScan == [next |-> 1, limit |-> 0]

Init ==
  /\ shared \in BOOLEAN
  /\ globalEnabled = TRUE
  /\ disabled = {}
  /\ maximum = Slots
  /\ lock = [s \in Slot |-> Free]
  /\ pc = [c \in Call |-> "idle"]
  /\ target \in [Call -> Target]
  /\ slot = [c \in Call |-> 0]
  /\ scan = [c \in Call |-> NoScan]
  /\ expired = [c \in Call |-> FALSE]
  /\ connected = [c \in Call |-> FALSE]
  /\ enabledSince = [c \in Call |-> FALSE]
  /\ granted = [c \in Call |-> 0]

\* Mutant of Enabled: the global switch is not read.
EnabledTargetOnly(t) == t \notin disabled

\* The row of network_global_control and of network_disabled_targets allow t.
Enabled(t) == globalEnabled /\ t \notin disabled

Goto(c, p) == pc' = [pc EXCEPT ![c] = p]

\* What an ended or failed call leaves behind: nothing but its locks.
Reset(c) ==
  /\ Goto(c, "idle")
  /\ slot' = [slot EXCEPT ![c] = 0]
  /\ scan' = [scan EXCEPT ![c] = NoScan]
  /\ expired' = [expired EXCEPT ![c] = FALSE]
  /\ connected' = [connected EXCEPT ![c] = FALSE]
  /\ enabledSince' = [enabledSince EXCEPT ![c] = FALSE]
  /\ granted' = [granted EXCEPT ![c] = 0]

\* connection.invalidate(), or the end of the process: the locks of the
\* session stay until the server notices.
Orphaned(c) == [s \in Slot |-> IF lock[s] = c THEN Orphan ELSE lock[s]]

\* The session that took the slot lives, so a statement of the call succeeds.
HasSession(c) == lock[slot[c]] = c

-----------------------------------------------------------------------------
(* admission: check_enabled, then a permit                                 *)

Request(c) ==
  /\ pc[c] = "idle"
  /\ Goto(c, "check")
  /\ UNCHANGED <<controls, lock, target, slot, scan, expired, connected, enabledSince, granted>>

CheckEnabled(c) ==
  /\ pc[c] = "check"
  /\ Enabled(target[c])
  /\ Goto(c, IF shared THEN "limit" ELSE "poll")
  /\ UNCHANGED <<controls, lock, target, slot, scan, expired, connected, enabledSince, granted>>

\* NetworkExecutionDenied, from a switch or from a failed read.
CheckDenies(c) ==
  /\ pc[c] = "check"
  /\ ~Enabled(target[c]) \/ shared
  /\ Reset(c)
  /\ UNCHANGED <<controls, lock, target>>

\* _read_limit starts a scan over the slots.
ReadLimit(c) ==
  /\ pc[c] = "limit"
  /\ ~expired[c]
  /\ scan' = [scan EXCEPT ![c] = [next |-> 1, limit |-> maximum]]
  /\ Goto(c, "try")
  /\ UNCHANGED <<controls, lock, target, slot, expired, connected, enabledSince, granted>>

\* pg_try_advisory_lock on the next slot of the scan.
TrySlot(c) ==
  LET s == scan[c].next IN
  /\ pc[c] = "try"
  /\ ~expired[c]
  /\ s <= scan[c].limit
  /\ IF lock[s] = Free
     THEN /\ lock' = [lock EXCEPT ![s] = c]
          /\ slot' = [slot EXCEPT ![c] = s]
          /\ Goto(c, "acquired")
          /\ UNCHANGED scan
     ELSE /\ scan' = [scan EXCEPT ![c].next = s + 1]
          /\ UNCHANGED <<lock, slot, pc>>
  /\ UNCHANGED <<controls, target, expired, connected, enabledSince, granted>>

\* The lock is taken and its answer is lost: the session is invalidated.
TryAnswerLost(c) ==
  LET s == scan[c].next IN
  /\ pc[c] = "try"
  /\ s <= scan[c].limit
  /\ lock[s] = Free
  /\ lock' = [lock EXCEPT ![s] = Orphan]
  /\ Reset(c)
  /\ UNCHANGED <<controls, target>>

\* No slot was free: commit, sleep, read the limit again.
ScanFails(c) ==
  /\ pc[c] = "try"
  /\ scan[c].next > scan[c].limit
  /\ Goto(c, "poll")
  /\ UNCHANGED <<controls, lock, target, slot, scan, expired, connected, enabledSince, granted>>

Poll(c) ==
  /\ shared
  /\ pc[c] = "poll"
  /\ ~expired[c]
  /\ Goto(c, "limit")
  /\ UNCHANGED <<controls, lock, target, slot, scan, expired, connected, enabledSince, granted>>

\* BoundedSemaphore.acquire(timeout): any permit will do.
AcquirePermit(c) ==
  /\ ~shared
  /\ pc[c] = "poll"
  /\ ~expired[c]
  /\ \E s \in 1 .. maximum :
       /\ lock[s] = Free
       /\ lock' = [lock EXCEPT ![s] = c]
       /\ slot' = [slot EXCEPT ![c] = s]
  /\ Goto(c, "recheck")
  /\ UNCHANGED <<controls, target, scan, expired, connected, enabledSince, granted>>

DeadlinePasses(c) ==
  /\ pc[c] \in {"limit", "try", "poll", "acquired"}
  /\ ~expired[c]
  /\ expired' = [expired EXCEPT ![c] = TRUE]
  /\ UNCHANGED <<controls, lock, pc, target, slot, scan, connected, enabledSince, granted>>

\* Mutant of Timeout: a permit that came after the deadline is forgotten.
TimeoutForgets(c) ==
  /\ pc[c] \in {"limit", "try", "poll", "acquired"}
  /\ expired[c]
  /\ Reset(c)
  /\ UNCHANGED <<controls, lock, target>>

\* network_concurrency_timeout; a permit that came too late is unlocked.
Timeout(c) ==
  /\ pc[c] \in {"limit", "try", "poll", "acquired"}
  /\ expired[c]
  /\ Goto(c, "release")
  /\ UNCHANGED <<controls, lock, target, slot, scan, expired, connected, enabledSince, granted>>

\* The last deadline check, after the commit that ends the scan.
InTime(c) ==
  /\ pc[c] = "acquired"
  /\ ~expired[c]
  /\ HasSession(c)
  /\ Goto(c, "recheck")
  /\ UNCHANGED <<controls, lock, target, slot, scan, expired, connected, enabledSince, granted>>

\* Mutant of Recheck: the limit is not compared again.
RecheckEnabledOnly(c) ==
  /\ pc[c] = "recheck"
  /\ HasSession(c)
  /\ Enabled(target[c])
  /\ Goto(c, "admitted")
  /\ granted' = [granted EXCEPT ![c] = maximum]
  /\ UNCHANGED <<controls, lock, target, slot, scan, expired, connected, enabledSince>>

\* The switches and the limit are read again under the permit.
Recheck(c) ==
  /\ pc[c] = "recheck"
  /\ HasSession(c)
  /\ Enabled(target[c])
  /\ slot[c] <= maximum
  /\ Goto(c, "admitted")
  /\ granted' = [granted EXCEPT ![c] = maximum]
  /\ UNCHANGED <<controls, lock, target, slot, scan, expired, connected, enabledSince>>

RecheckDenies(c) ==
  /\ pc[c] = "recheck"
  /\ HasSession(c)
  /\ ~Enabled(target[c])
  /\ Goto(c, "release")
  /\ UNCHANGED <<controls, lock, target, slot, scan, expired, connected, enabledSince, granted>>

\* A statement of admission fails, or the slot is beyond the limit by now:
\* network_coordination_failed, and the session is discarded.
CoordinationFails(c) ==
  /\ shared
  /\ pc[c] \in {"limit", "try", "acquired", "recheck"}
  /\ lock' = Orphaned(c)
  /\ Reset(c)
  /\ UNCHANGED <<controls, target>>

-----------------------------------------------------------------------------
(* NetworkGateway under the permit                                         *)

\* evaluate_destination_policy, which may wait for DNS, allows every address;
\* the TLS context and the headers pass.
Resolve(c) ==
  /\ pc[c] = "admitted"
  /\ Goto(c, "resolved")
  /\ enabledSince' = [enabledSince EXCEPT ![c] = Enabled(target[c])]
  /\ UNCHANGED <<controls, lock, target, slot, scan, expired, connected, granted>>

\* Mutant of ConnectCheck: connect_tcp trusts the admission.
ConnectUnchecked(c) ==
  /\ pc[c] = "resolved"
  /\ Goto(c, "connect")
  /\ UNCHANGED <<controls, lock, target, slot, scan, expired, connected, enabledSince, granted>>

\* connect_tcp: the switches are read once more before the socket is opened.
ConnectCheck(c) ==
  /\ pc[c] = "resolved"
  /\ Enabled(target[c])
  /\ Goto(c, "connect")
  /\ UNCHANGED <<controls, lock, target, slot, scan, expired, connected, enabledSince, granted>>

\* The destination is refused, or the check in connect_tcp is.
GatewayDenies(c) ==
  /\ pc[c] \in {"admitted", "resolved"}
  /\ Goto(c, "release")
  /\ UNCHANGED <<controls, lock, target, slot, scan, expired, connected, enabledSince, granted>>

\* The socket connects and its peer is the approved address.
Connect(c) ==
  /\ pc[c] = "connect"
  /\ connected' = [connected EXCEPT ![c] = TRUE]
  /\ Goto(c, "open")
  /\ UNCHANGED <<controls, lock, target, slot, scan, expired, enabledSince, granted>>

\* The connection fails, or its peer does not match and it is closed.
ConnectFails(c) ==
  /\ pc[c] = "connect"
  /\ Goto(c, "release")
  /\ UNCHANGED <<controls, lock, target, slot, scan, expired, connected, enabledSince, granted>>

\* The response is read to its end or its bound, or a timeout ends it; the
\* pool closes the connection.
Respond(c) ==
  /\ pc[c] = "open"
  /\ connected' = [connected EXCEPT ![c] = FALSE]
  /\ Goto(c, "release")
  /\ UNCHANGED <<controls, lock, target, slot, scan, expired, enabledSince, granted>>

\* The finally of admission: pg_advisory_unlock, or release of the permit.
Release(c) ==
  /\ pc[c] = "release"
  /\ slot[c] # 0 => HasSession(c)
  /\ lock' = [s \in Slot |-> IF lock[s] = c THEN Free ELSE lock[s]]
  /\ Reset(c)
  /\ UNCHANGED <<controls, target>>

\* The unlock fails, on a session that the server has ended or for another
\* reason, and the session is discarded.
ReleaseFails(c) ==
  /\ shared
  /\ pc[c] = "release"
  /\ lock' = Orphaned(c)
  /\ Reset(c)
  /\ UNCHANGED <<controls, target>>

-----------------------------------------------------------------------------
(* Around the calls                                                        *)

\* PostgreSQL ends the invalidated session and drops its advisory locks.
SessionEnds(s) ==
  /\ lock[s] = Orphan
  /\ lock' = [lock EXCEPT ![s] = Free]
  /\ UNCHANGED <<controls, pc, target, slot, scan, expired, connected, enabledSince, granted>>

\* PostgreSQL ends the session of a call, which does not notice: its slot is
\* free for others while its request goes on.
SessionLost(c) ==
  /\ shared
  /\ slot[c] # 0 /\ HasSession(c)
  /\ lock' = [lock EXCEPT ![slot[c]] = Free]
  /\ granted' = [granted EXCEPT ![c] = 0]
  /\ UNCHANGED <<controls, pc, target, slot, scan, expired, connected, enabledSince>>

\* The process of the call dies; its sockets close with it.
Crash(c) ==
  /\ shared
  /\ pc[c] # "idle"
  /\ lock' = Orphaned(c)
  /\ Reset(c)
  /\ UNCHANGED <<controls, target>>

\* The history after a change of the switches.
Witness ==
  enabledSince' = [c \in Call |->
                     \/ enabledSince[c]
                     \/ pc[c] \in {"resolved", "connect", "open"} /\ Enabled(target[c])']

SetGlobal(enabled) ==
  /\ globalEnabled' = enabled
  /\ UNCHANGED <<shared, disabled, maximum, lock, pc, target, slot, scan, expired, connected, granted>>
  /\ Witness

DisableTarget(t) ==
  /\ disabled' = disabled \cup {t}
  /\ UNCHANGED <<shared, globalEnabled, maximum, lock, pc, target, slot, scan, expired, connected, granted>>
  /\ Witness

EnableTarget(t) ==
  /\ disabled' = disabled \ {t}
  /\ UNCHANGED <<shared, globalEnabled, maximum, lock, pc, target, slot, scan, expired, connected, granted>>
  /\ Witness

\* An operator's UPDATE of maximum_concurrency; no code in app/ changes it.
SetMaximum(m) ==
  /\ shared
  /\ maximum' = m
  /\ UNCHANGED <<shared, globalEnabled, disabled, lock, pc, target, slot, scan,
                 expired, connected, enabledSince, granted>>

Step(c) ==
  \/ CheckEnabled(c) \/ CheckDenies(c)
  \/ ReadLimit(c) \/ TrySlot(c) \/ TryAnswerLost(c) \/ ScanFails(c)
  \/ Poll(c) \/ AcquirePermit(c) \/ Timeout(c) \/ InTime(c)
  \/ Recheck(c) \/ RecheckDenies(c) \/ CoordinationFails(c)
  \/ Resolve(c) \/ ConnectCheck(c) \/ GatewayDenies(c) \/ Connect(c) \/ ConnectFails(c)
  \/ Respond(c) \/ Release(c) \/ ReleaseFails(c)

Next ==
  \/ \E c \in Call : Request(c) \/ Step(c) \/ DeadlinePasses(c) \/ Crash(c) \/ SessionLost(c)
  \/ \E s \in Slot : SessionEnds(s)
  \/ \E enabled \in BOOLEAN : SetGlobal(enabled)
  \/ \E t \in Target : DisableTarget(t) \/ EnableTarget(t)
  \/ \E m \in Slot : SetMaximum(m)

Spec == Init /\ [][Next]_vars

\* A call that can go on does; its deadline passes if it keeps waiting, and
\* the server ends the sessions it has lost.
FairSpec ==
  /\ Spec
  /\ \A c \in Call : WF_vars(Step(c)) /\ WF_vars(DeadlinePasses(c))
  /\ \A s \in Slot : WF_vars(SessionEnds(s))

-----------------------------------------------------------------------------
(* Properties                                                              *)

Admitted(c) == pc[c] \in {"admitted", "resolved", "connect", "open"}

\* An admitted call holds the advisory lock of its own slot until it is done,
\* unless the server has ended its very own session: a call whose session is
\* gone takes nothing from the one that has its slot now.
PermitHeld ==
  \A c \in Call : Admitted(c) /\ granted[c] # 0 => slot[c] \in Slot /\ lock[slot[c]] = c

\* No permit leaks: a slot held in the name of a call is the slot the call
\* knows it has, so the finally of admission gives it back.
NoPermitLeak ==
  \A s \in Slot : lock[s] \in Call => slot[lock[s]] = s

\* The calls with a permit, those aside whose session the server has ended.
Counted == {c \in Call : granted[c] # 0}

\* The calls with a permit are never more than the largest of the limits under
\* which they were admitted: a lowered maximum_concurrency holds for the calls
\* that are admitted after it, also if they took their slots under the old
\* one, and a slot that a lost session gave up is never given up twice.
LimitHolds == Counted # {} => \E c \in Counted : Cardinality(Counted) <= granted[c]

\* A call connects only if the network was enabled for its Target at some
\* moment after its destination was resolved: a switch thrown while it waited
\* for a permit or for DNS, and not reversed, stops the call.
SwitchStops == \A c \in Call : connected[c] => enabledSince[c]

\* Once the global switch is off for good, no connection stays open for ever
\* and none is opened again.
StopDrains == <>[](~globalEnabled) => <>[](\A c \in Call : ~connected[c])

\* Every slot is free again and again, or is held by a call that is running:
\* no lost answer and no crash takes a slot out of use for good.
SlotsReturn == \A s \in Slot : lock[s] # Free ~> lock[s] = Free
=============================================================================
