----------------------------- MODULE CufileSetup -----------------------------
(***************************************************************************)
(* The process-wide setup of src/czarr/cufile.py: the driver is opened     *)
(* once, by double-checked locking, after configure has set its knobs; and *)
(* device buffers are registered with it by pointer, in a dictionary whose *)
(* first look is not under the lock.  _close, which runs at exit, is in    *)
(* HandleCache.                                                            *)
(***************************************************************************)
EXTENDS Naturals, Sequences

CONSTANTS
  Callers,   \* threads
  Buffers,   \* device pointers
  Sizes,     \* sizes they are registered with
  KnobLists, \* arguments of configure: sequences of knobs
  Known,     \* _SIZET_PARAMS and _BOOL_PARAMS; any other knob is a KeyError
  Free       \* a lock nobody holds

ASSUME FreeAssumption == Free \notin Callers
ASSUME SizesAssumption == Sizes \subseteq Nat \ {0}
ASSUME KnobsAssumption == KnobLists \subseteq Seq(STRING)

VARIABLES
  disabled,   \* CZARR_CUFILE=0
  opened,     \* _opened
  driverLock, \* _lock
  opens,      \* driver_open calls that returned
  hooks,      \* atexit registrations of _close
  knobs,      \* knobs libcufile has been given before it was opened
  inForce,    \* those it read when it was opened
  sizes,      \* _registered_bufs, 0 where a pointer is missing
  bufLock,    \* _registration_lock
  driver,     \* pointer -> size registered with libcufile, 0 for none
  call,       \* thread -> its call
  lost        \* history: pointers whose last buf_register raised

driverVars == <<disabled, opened, driverLock, opens, hooks, knobs, inForce>>
bufVars == <<sizes, bufLock, driver, lost>>
setupVars == <<driverVars, bufVars, call>>

NotCalling == [pc |-> "idle"]
Steps(t, pc) == call' = [call EXCEPT ![t].pc = pc]
Ends(t) == call' = [call EXCEPT ![t] = NotCalling]

-----------------------------------------------------------------------------
(* ensure_driver_open, is_available, set_poll_mode *)

Opening == {t \in Callers : call[t].pc \in {"check", "lock", "open", "flag"}}
Configuring == {t \in Callers : call[t].pc \in {"configure", "set"}}

\* configure calls in progress see that the driver may open under them.
Need(t) ==
  /\ call[t].pc = "idle"
  /\ call' = [u \in Callers |-> IF u = t THEN [pc |-> "check"]
                                ELSE IF u \in Configuring THEN [call[u] EXCEPT !.quiet = FALSE]
                                ELSE call[u]]
  /\ UNCHANGED <<driverVars, bufVars>>

\* The first look, without the lock; the switch is read after it.
SwitchIgnoredFault(t) ==
  /\ call[t].pc = "check"
  /\ Steps(t, IF opened THEN "open for use" ELSE "lock")
  /\ UNCHANGED <<driverVars, bufVars>>
CheckOpened(t) ==
  /\ call[t].pc = "check"
  /\ Steps(t, IF opened THEN "open for use" ELSE IF disabled THEN "unavailable" ELSE "lock")
  /\ UNCHANGED <<driverVars, bufVars>>

CheckedOnceFault(t) ==
  /\ call[t].pc = "lock" /\ driverLock = Free
  /\ Steps(t, "open") /\ driverLock' = t
  /\ UNCHANGED <<disabled, opened, opens, hooks, knobs, inForce, bufVars>>
LockDriver(t) ==
  /\ call[t].pc = "lock" /\ driverLock = Free
  /\ IF opened
     THEN Steps(t, "open for use") /\ UNCHANGED driverLock
     ELSE Steps(t, "open") /\ driverLock' = t
  /\ UNCHANGED <<disabled, opened, opens, hooks, knobs, inForce, bufVars>>

FlagFirstFault(t) ==
  /\ call[t].pc = "open"
  /\ Steps(t, "flag") /\ opened' = TRUE
  /\ UNCHANGED <<disabled, driverLock, opens, hooks, knobs, inForce, bufVars>>
DriverOpen(t) ==
  /\ call[t].pc = "open"
  /\ Steps(t, "flag") /\ opens' = opens + 1 /\ inForce' = knobs
  /\ UNCHANGED <<disabled, opened, driverLock, hooks, knobs, bufVars>>

\* The exception leaves the lock; is_available turns it into False.
DriverOpenRaises(t) ==
  /\ call[t].pc = "open"
  /\ Steps(t, "unavailable") /\ driverLock' = Free
  /\ UNCHANGED <<disabled, opened, opens, hooks, knobs, inForce, bufVars>>

FlagOpened(t) ==
  /\ call[t].pc = "flag"
  /\ opened' = TRUE /\ hooks' = hooks + 1 /\ driverLock' = Free
  /\ Steps(t, "open for use")
  /\ UNCHANGED <<disabled, opens, knobs, inForce, bufVars>>

-----------------------------------------------------------------------------
(* configure *)

Configure(t) ==
  /\ call[t].pc = "idle"
  /\ \E ks \in KnobLists :
       call' = [call EXCEPT ![t] = [pc |-> "configure", left |-> ks, set |-> {},
                                    quiet |-> Opening = {}]]
  /\ UNCHANGED <<driverVars, bufVars>>

\* RuntimeError when the driver is open; _opened is read without the lock.
NoRefusalFault(t) ==
  /\ call[t].pc = "configure"
  /\ Steps(t, "set")
  /\ UNCHANGED <<driverVars, bufVars>>
CheckNotOpen(t) ==
  /\ call[t].pc = "configure"
  /\ IF opened THEN Ends(t) ELSE Steps(t, "set")
  /\ UNCHANGED <<driverVars, bufVars>>

\* The knobs are set one by one; libcufile ignores those it gets too late, or
\* refuses them (KnobRaises).
SetKnob(t) ==
  /\ call[t].pc = "set" /\ call[t].left # <<>>
  /\ LET k == Head(call[t].left)
     IN  /\ k \in Known
         /\ knobs' = IF opens = 0 THEN knobs \cup {k} ELSE knobs
         /\ call' = [call EXCEPT ![t].left = Tail(@), ![t].set = @ \cup {k}]
  /\ UNCHANGED <<disabled, opened, driverLock, opens, hooks, inForce, bufVars>>

\* KeyError, or an error of libcufile: the knobs before it stay set.
KnobRaises(t) ==
  /\ call[t].pc = "set" /\ call[t].left # <<>>
  /\ Head(call[t].left) \notin Known \/ opens > 0
  /\ Ends(t)
  /\ UNCHANGED <<driverVars, bufVars>>

Configured(t) ==
  /\ call[t].pc = "set" /\ call[t].left = <<>>
  /\ Steps(t, "configured")
  /\ UNCHANGED <<driverVars, bufVars>>

-----------------------------------------------------------------------------
(* ensure_buf_registered and deregister_buf *)

BufCalls(b) == {t \in Callers : call[t].pc \in {"look", "wait", "deregister", "register",
                                                "registered", "ensured"}
                                /\ call[t].buf = b}

\* Every other call on the pointer sees that it has company.
Joins(t, b, c) ==
  call' = [u \in Callers |-> IF u = t THEN [c EXCEPT !.alone = BufCalls(b) = {}]
                             ELSE IF u \in BufCalls(b) THEN [call[u] EXCEPT !.alone = FALSE]
                             ELSE call[u]]

Register(t) ==
  /\ call[t].pc = "idle"
  /\ \E b \in Buffers, n \in Sizes :
       Joins(t, b, [pc |-> "look", buf |-> b, size |-> n, alone |-> TRUE])
  /\ UNCHANGED <<driverVars, bufVars>>

Deregister(t) ==
  /\ call[t].pc = "idle"
  /\ \E b \in Buffers : Joins(t, b, [pc |-> "look", buf |-> b, size |-> 0, alone |-> TRUE])
  /\ UNCHANGED <<driverVars, bufVars>>

\* The look at the dictionary without the lock; size 0 stands for deregister_buf.
KnownIsEnoughFault(t) == call[t].size > 0 /\ sizes[call[t].buf] > 0
Satisfied(t) == IF call[t].size = 0 THEN sizes[call[t].buf] = 0
                ELSE sizes[call[t].buf] >= call[t].size
Look(t) ==
  /\ call[t].pc = "look"
  /\ Steps(t, IF Satisfied(t) THEN "ensured" ELSE "wait")
  /\ UNCHANGED <<driverVars, bufVars>>

\* Under the lock only the presence of the pointer is looked at again.
LockBuffers(t) ==
  /\ call[t].pc = "wait" /\ bufLock = Free
  /\ LET present == sizes[call[t].buf] > 0
     IN  IF call[t].size = 0 /\ ~present
         THEN Steps(t, "ensured") /\ UNCHANGED bufLock
         ELSE Steps(t, IF present THEN "deregister" ELSE "register") /\ bufLock' = t
  /\ UNCHANGED <<driverVars, sizes, driver, lost>>

\* Errors of buf_deregister are swallowed.
BufDeregister(t) ==
  /\ call[t].pc = "deregister"
  /\ driver' = [driver EXCEPT ![call[t].buf] = 0]
  /\ Steps(t, IF call[t].size = 0 THEN "registered" ELSE "register")
  /\ UNCHANGED <<driverVars, sizes, bufLock, lost>>

BufRegister(t) ==
  /\ call[t].pc = "register"
  /\ driver' = [driver EXCEPT ![call[t].buf] = call[t].size]
  /\ Steps(t, "registered")
  /\ UNCHANGED <<driverVars, sizes, bufLock, lost>>

\* The dictionary keeps the size of the registration given up before.
BufRegisterRaises(t) ==
  /\ call[t].pc = "register"
  /\ lost' = lost \cup {call[t].buf}
  /\ bufLock' = Free /\ Ends(t)
  /\ UNCHANGED <<driverVars, sizes, driver>>

\* _registered_bufs[dev_ptr] = size, or pop.
KeepsSizeFault(t) ==
  /\ call[t].pc = "registered"
  /\ sizes' = [sizes EXCEPT ![call[t].buf] = IF @ > call[t].size THEN @ ELSE call[t].size]
  /\ lost' = lost \ {call[t].buf}
  /\ bufLock' = Free /\ Steps(t, "ensured")
  /\ UNCHANGED <<driverVars, driver>>
Recorded(t) ==
  /\ call[t].pc = "registered"
  /\ sizes' = [sizes EXCEPT ![call[t].buf] = call[t].size]
  /\ lost' = lost \ {call[t].buf}
  /\ bufLock' = Free /\ Steps(t, "ensured")
  /\ UNCHANGED <<driverVars, driver>>

\* The call returns (or has raised).
Returns(t) ==
  /\ call[t].pc \in {"open for use", "unavailable", "configured", "ensured"}
  /\ Ends(t)
  /\ UNCHANGED <<driverVars, bufVars>>

-----------------------------------------------------------------------------
SetupInit ==
  /\ disabled \in BOOLEAN /\ opened = FALSE /\ driverLock = Free
  /\ opens = 0 /\ hooks = 0
  /\ knobs = {} /\ inForce = {}
  /\ sizes = [b \in Buffers |-> 0] /\ driver = [b \in Buffers |-> 0]
  /\ bufLock = Free /\ lost = {}
  /\ call = [t \in Callers |-> NotCalling]

SetupNext == \E t \in Callers :
  \/ Need(t) \/ CheckOpened(t) \/ LockDriver(t) \/ DriverOpen(t) \/ DriverOpenRaises(t) \/ FlagOpened(t)
  \/ Configure(t) \/ CheckNotOpen(t) \/ SetKnob(t) \/ KnobRaises(t) \/ Configured(t)
  \/ Register(t) \/ Deregister(t) \/ Look(t) \/ LockBuffers(t) \/ BufDeregister(t)
  \/ BufRegister(t) \/ BufRegisterRaises(t) \/ Recorded(t) \/ Returns(t)

SetupSpec == SetupInit /\ [][SetupNext]_setupVars

-----------------------------------------------------------------------------
(* Properties *)

\* "Open the cuFile driver exactly once per process": never twice, never when it
\* is switched off, and whoever was told it is open finds it open.
DriverOpensOnce ==
  /\ opens <= 1 /\ hooks <= opens
  /\ disabled => opens = 0
  /\ \A t \in Callers : call[t].pc = "open for use" => opens = 1

\* A configure that has done its work, with no call opening the driver beside it,
\* has set what the driver runs with once another call opens it.
QuietConfigureIsInForce ==
  \A t \in Callers : call[t].pc = "configured" /\ call[t].quiet /\ opens > 0 =>
    call[t].set \subseteq inForce

\* An ensure_buf_registered that returned, without another call on its pointer
\* beside it, leaves the pointer registered for the size it asked for; unless
\* the pointer's last registration raised.
QuietBuffersAreRegistered ==
  \A t \in Callers :
    call[t].pc = "ensured" /\ call[t].alone /\ call[t].buf \notin lost =>
      IF call[t].size = 0 THEN driver[call[t].buf] = 0
      ELSE driver[call[t].buf] >= call[t].size
=============================================================================
