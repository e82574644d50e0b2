-------------------------------- MODULE Alloc --------------------------------
(***************************************************************************)
(* register_nvcomp_allocator of src/czarr/alloc.py: the default allocator  *)
(* is installed once, by double-checked locking; a custom one is installed *)
(* without the lock. The module that extends this one starts the calls and *)
(* takes them up again when they are done.                                 *)
(***************************************************************************)
CONSTANTS
  Threads,     \* callers
  Customs,     \* custom allocators
  CustomRaces, \* a custom registration may overlap a default one
  Nobody       \* _lock is free

ASSUME NobodyAssumption == Nobody \notin Threads
ASSUME DefaultsAssumption == {"none", "cupy"} \cap Customs = {}
ASSUME CustomRacesAssumption == CustomRaces \in BOOLEAN

VARIABLES
  device,     \* what nvcomp.set_device_allocator was given last
  registered, \* _registered
  lock,       \* holder of _lock
  reg,        \* thread -> its call of register_nvcomp_allocator
  customs     \* history: the custom registrations that returned

allocVars == <<device, registered, lock, reg, customs>>

NoCall == [pc |-> "idle"]
To(t, pc) == reg' = [reg EXCEPT ![t] = [pc |-> pc]]
At(pcs) == {t \in Threads : reg[t].pc \in pcs}

AllocInit ==
  /\ device = "none" /\ registered = FALSE
  /\ lock = Nobody
  /\ reg = [t \in Threads |-> NoCall]
  /\ customs = {}

\* The default allocator: the first, unlocked check.
StartDefault(t) ==
  /\ reg[t].pc = "idle"
  /\ CustomRaces \/ At({"custom", "customFlag"}) = {}
  /\ To(t, "check")
  /\ UNCHANGED <<device, registered, lock, customs>>

Check(t) ==
  /\ reg[t].pc = "check"
  /\ To(t, IF registered THEN "done" ELSE "lock")
  /\ UNCHANGED <<device, registered, lock, customs>>

\* The second check, under the lock.
Acquire(t) ==
  /\ reg[t].pc = "lock" /\ lock = Nobody
  /\ IF registered
     THEN To(t, "done") /\ UNCHANGED lock
     ELSE To(t, "set") /\ lock' = t
  /\ UNCHANGED <<device, registered, customs>>

SetDefaultLateFault(t) ==
  /\ reg[t].pc = "set"
  /\ registered' = TRUE
  /\ To(t, "flag")
  /\ UNCHANGED <<device, lock, customs>>
SetDefault(t) ==
  /\ reg[t].pc = "set"
  /\ device' = "cupy"
  /\ To(t, "flag")
  /\ UNCHANGED <<registered, lock, customs>>

Flag(t) ==
  /\ reg[t].pc = "flag"
  /\ registered' = TRUE
  /\ lock' = Nobody
  /\ To(t, "done")
  /\ UNCHANGED <<device, customs>>

\* A custom allocator, whatever was registered before.
StartCustom(t, c) ==
  /\ reg[t].pc = "idle"
  /\ CustomRaces \/ At({"check", "lock", "set", "flag", "custom", "customFlag"}) = {}
  /\ reg' = [reg EXCEPT ![t] = [pc |-> "custom", allocator |-> c]]
  /\ UNCHANGED <<device, registered, lock, customs>>

SetCustom(t) ==
  /\ reg[t].pc = "custom"
  /\ device' = reg[t].allocator
  /\ reg' = [reg EXCEPT ![t].pc = "customFlag"]
  /\ UNCHANGED <<registered, lock, customs>>

FlagCustomForgetsFault(t) ==
  /\ reg[t].pc = "customFlag"
  /\ registered' = registered
  /\ customs' = customs \cup {reg[t].allocator}
  /\ To(t, "done")
  /\ UNCHANGED <<device, lock>>
FlagCustom(t) ==
  /\ reg[t].pc = "customFlag"
  /\ registered' = TRUE
  /\ customs' = customs \cup {reg[t].allocator}
  /\ To(t, "done")
  /\ UNCHANGED <<device, lock>>

\* The caller goes on.
Done(t) ==
  /\ reg[t].pc = "done"
  /\ To(t, "idle")
  /\ UNCHANGED <<device, registered, lock, customs>>

AllocStep(t) == Check(t) \/ Acquire(t) \/ SetDefault(t) \/ Flag(t) \/ SetCustom(t) \/ FlagCustom(t)

-----------------------------------------------------------------------------
(* Properties *)

\* "passing a custom callable replaces whatever was registered before": once a
\* custom registration returned, the default one never replaces it.
CustomAllocatorStays == customs # {} => device \in Customs
=============================================================================
