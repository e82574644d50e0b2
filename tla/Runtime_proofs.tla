---------------------------- MODULE Runtime_proofs -----------------------------
(***************************************************************************)
(* Proofs about what a process sets up once for all its threads, and about *)
(* the commands that benchmark it.                                         *)
(* CufileSetup, for every number of callers, pointers, sizes and lists of  *)
(* knobs: the driver is opened once, and with what was configured before.  *)
(* NvcompCodecs, and the registration it extends: no codec comes before an *)
(* allocator, a custom allocator stays, no codec of a batch is used by     *)
(* another thread, and a batch answers every chunk at its place.           *)
(* Bench, for every number of points, every command line and every choice  *)
(* of arms and of points the GPU codecs decode wrongly.                    *)
(***************************************************************************)
EXTENDS CufileSetup, NvcompCodecs, Bench, Ascending_proofs, SequenceTheorems, TLAPS

\* The calls, by what they are about.
OpenPcs == {"idle", "check", "lock", "open", "flag", "open for use", "unavailable"}
KnobPcs == {"configure", "set", "configured"}
BufPcs == {"look", "wait", "deregister", "register", "registered", "ensured"}
Calls == [pc : OpenPcs]
           \cup [pc : KnobPcs, left : Seq(STRING), set : SUBSET STRING, quiet : BOOLEAN]
           \cup [pc : BufPcs, buf : Buffers, size : Nat, alone : BOOLEAN]

SetupTypeOK ==
  /\ call \in [Callers -> Calls]
  /\ disabled \in BOOLEAN /\ opened \in BOOLEAN
  /\ opens \in Nat /\ hooks \in Nat
  /\ driverLock \in Callers \cup {Free}

\* _lock is held by the call that opens the driver, by nobody else.
LockIsHeld == \A t \in Callers : call[t].pc \in {"open", "flag"} <=> driverLock = t

\* What _opened says of the driver; under the lock it may lag behind.
FlagIsTrue ==
  /\ opened => opens = 1 /\ hooks = 1 /\ driverLock = Free
  /\ ~opened => hooks = 0
  /\ ~opened /\ driverLock = Free => opens = 0
  /\ \A t \in Callers : /\ call[t].pc = "open" => opens = 0
                        /\ call[t].pc = "flag" => opens = 1
                        /\ call[t].pc = "open for use" => opened
  /\ disabled => /\ opens = 0
                 /\ \A t \in Callers : call[t].pc \notin {"lock", "open", "flag"}

\* What a configure call with no opening beside it has set.
KnobsAreKept ==
  \A t \in Callers : call[t].pc \in KnobPcs /\ call[t].quiet =>
    /\ call[t].pc \in {"configure", "set"} => Opening = {}
    /\ call[t].pc = "configure" => call[t].set = {}
    /\ call[t].pc = "set" => opens = 0
    /\ IF opens = 0 THEN call[t].set \subseteq knobs ELSE call[t].set \subseteq inForce

SetupInv == SetupTypeOK /\ LockIsHeld /\ FlagIsTrue /\ KnobsAreKept

-----------------------------------------------------------------------------
\* One caller moves from pc to pc, with the other fields of its call as they were.
LEMMA StepsType ==
  ASSUME NEW t \in Callers, NEW pc, call \in [Callers -> Calls], Steps(t, pc),
         \/ call[t].pc \in OpenPcs /\ pc \in OpenPcs
         \/ call[t].pc \in KnobPcs /\ pc \in KnobPcs
         \/ call[t].pc \in BufPcs /\ pc \in BufPcs
  PROVE  /\ call' \in [Callers -> Calls]
         /\ call'[t] = [call[t] EXCEPT !.pc = pc] /\ call'[t].pc = pc
         /\ \A u \in Callers : u # t => call'[u] = call[u]
<1>1. call[t] \in Calls
  OBVIOUS
<1>2. [call[t] EXCEPT !.pc = pc] \in Calls /\ [call[t] EXCEPT !.pc = pc].pc = pc
  BY <1>1 DEF Calls, OpenPcs, KnobPcs, BufPcs
<1>3. QED
  BY <1>2 DEF Steps

LEMMA EndsType ==
  ASSUME NEW t \in Callers, call \in [Callers -> Calls], Ends(t)
  PROVE  /\ call' \in [Callers -> Calls]
         /\ call'[t].pc = "idle"
         /\ \A u \in Callers : u # t => call'[u] = call[u]
  BY DEF Ends, NotCalling, Calls, OpenPcs

LEMMA SetupInitially == SetupInit => SetupInv
<1> SUFFICES ASSUME SetupInit PROVE SetupInv
  OBVIOUS
<1>1. \A t \in Callers : call[t].pc = "idle" /\ driverLock # t
  BY FreeAssumption DEF SetupInit, NotCalling
<1>2. NotCalling \in Calls
  BY DEF NotCalling, Calls, OpenPcs
<1>3. SetupTypeOK
  BY <1>2 DEF SetupInit, SetupTypeOK
<1>4. LockIsHeld /\ FlagIsTrue
  BY <1>1 DEF SetupInit, LockIsHeld, FlagIsTrue
<1>5. KnobsAreKept
  BY <1>1 DEF KnobsAreKept, KnobPcs
<1>6. QED
  BY <1>3, <1>4, <1>5 DEF SetupInv

-----------------------------------------------------------------------------
\* A caller goes from one step to another, none of them one of opening, and the
\* driver's variables stay; what KnobsAreKept says of the caller is shown apart.
LEMMA AsideStep ==
  ASSUME SetupInv, NEW t \in Callers, UNCHANGED driverVars,
         call' \in [Callers -> Calls],
         call[t].pc \notin {"lock", "open", "flag"},
         call'[t].pc \notin {"check", "lock", "open", "flag", "open for use"},
         \A u \in Callers : u # t => call'[u] = call[u],
         call'[t].pc \notin KnobPcs
  PROVE  SetupInv'
<1>1. SetupTypeOK'
  BY DEF SetupInv, SetupTypeOK, driverVars
<1>2. LockIsHeld'
  BY DEF SetupInv, LockIsHeld, driverVars
<1>3. FlagIsTrue'
  BY DEF SetupInv, FlagIsTrue, driverVars
<1>4. Opening' \subseteq Opening
  BY DEF Opening
<1>5. KnobsAreKept'
  BY <1>4 DEF SetupInv, KnobsAreKept, driverVars
<1>6. QED
  BY <1>1, <1>2, <1>3, <1>5 DEF SetupInv

\* The same of a caller that begins or goes on with configure.
LEMMA KnobStep ==
  ASSUME SetupInv, NEW t \in Callers,
         UNCHANGED <<disabled, opened, driverLock, opens, hooks, inForce>>,
         knobs \subseteq knobs',
         call' \in [Callers -> Calls],
         call[t].pc \in KnobPcs \cup {"idle"}, call'[t].pc \in KnobPcs,
         \A u \in Callers : u # t => call'[u] = call[u],
         call'[t].quiet =>
           /\ call'[t].pc \in {"configure", "set"} => Opening = {}
           /\ call'[t].pc = "configure" => call'[t].set = {}
           /\ call'[t].pc = "set" => opens = 0
           /\ IF opens = 0 THEN call'[t].set \subseteq knobs' ELSE call'[t].set \subseteq inForce
  PROVE  SetupInv'
<1> USE DEF KnobPcs
<1>1. SetupTypeOK'
  BY DEF SetupInv, SetupTypeOK
<1>2. LockIsHeld'
  BY DEF SetupInv, LockIsHeld
<1>3. FlagIsTrue'
  BY DEF SetupInv, FlagIsTrue
<1>4. Opening' \subseteq Opening
  BY DEF Opening
<1>5. KnobsAreKept'
  <2> SUFFICES ASSUME NEW u \in Callers, call'[u].pc \in KnobPcs, call'[u].quiet
               PROVE  /\ call'[u].pc \in {"configure", "set"} => Opening' = {}
                      /\ call'[u].pc = "configure" => call'[u].set = {}
                      /\ call'[u].pc = "set" => opens = 0
                      /\ IF opens = 0 THEN call'[u].set \subseteq knobs'
                                      ELSE call'[u].set \subseteq inForce
    BY DEF KnobsAreKept
  <2>1. CASE u = t
    BY <2>1, <1>4
  <2>2. CASE u # t
    BY <2>2, <1>4 DEF SetupInv, KnobsAreKept
  <2>3. QED
    BY <2>1, <2>2
<1>6. QED
  BY <1>1, <1>2, <1>3, <1>5 DEF SetupInv

LEMMA ConfigurePreserves ==
  ASSUME SetupInv, NEW t \in Callers, Configure(t)
  PROVE  SetupInv'
<1>1. PICK ks \in KnobLists :
        call' = [call EXCEPT ![t] = [pc |-> "configure", left |-> ks, set |-> {},
                                     quiet |-> Opening = {}]]
  BY DEF Configure
<1>2. [pc |-> "configure", left |-> ks, set |-> {}, quiet |-> Opening = {}] \in Calls
  <2>1. ks \in Seq(STRING) /\ (Opening = {}) \in BOOLEAN
    BY KnobsAssumption
  <2>2. QED
    BY <2>1 DEF Calls, KnobPcs
<1>3. /\ call' \in [Callers -> Calls]
      /\ call'[t].pc = "configure" /\ call'[t].set = {}
      /\ call'[t].quiet = (Opening = {})
      /\ \A u \in Callers : u # t => call'[u] = call[u]
  BY <1>1, <1>2 DEF SetupInv, SetupTypeOK
<1>4. QED
  BY <1>3, KnobStep DEF Configure, KnobPcs, driverVars

LEMMA CheckNotOpenPreserves ==
  ASSUME SetupInv, NEW t \in Callers, CheckNotOpen(t)
  PROVE  SetupInv'
<1> USE DEF CheckNotOpen
<1>1. call \in [Callers -> Calls]
  BY DEF SetupInv, SetupTypeOK
<1>2. CASE opened
  BY <1>1, <1>2, EndsType, AsideStep DEF KnobPcs
<1>3. CASE ~opened
  <2>1. /\ call' \in [Callers -> Calls]
        /\ call'[t] = [call[t] EXCEPT !.pc = "set"] /\ call'[t].pc = "set"
        /\ \A u \in Callers : u # t => call'[u] = call[u]
    BY <1>1, <1>3, StepsType DEF KnobPcs
  <2>2. call'[t].quiet = call[t].quiet /\ call'[t].set = call[t].set
    BY <1>1, <2>1 DEF Calls, OpenPcs, KnobPcs, BufPcs
  <2>3. ASSUME call[t].quiet PROVE opens = 0 /\ Opening = {} /\ call[t].set = {}
    <3>1. Opening = {} /\ call[t].set = {}
      BY <2>3 DEF SetupInv, KnobsAreKept, KnobPcs
    <3>2. driverLock = Free
      BY <3>1 DEF SetupInv, SetupTypeOK, LockIsHeld, Opening
    <3>3. QED
      BY <3>1, <3>2, <1>3 DEF SetupInv, FlagIsTrue
  <2>4. QED
    BY <2>1, <2>2, <2>3, KnobStep DEF KnobPcs, driverVars
<1>4. QED
  BY <1>2, <1>3

LEMMA SetKnobPreserves ==
  ASSUME SetupInv, NEW t \in Callers, SetKnob(t)
  PROVE  SetupInv'
<1> DEFINE k == Head(call[t].left)
<1>1. /\ call \in [Callers -> Calls]
      /\ call[t] \in [pc : KnobPcs, left : Seq(STRING), set : SUBSET STRING, quiet : BOOLEAN]
  BY DEF SetupInv, SetupTypeOK, SetKnob, Calls, OpenPcs, KnobPcs, BufPcs
<1>2. /\ call[t].left \in Seq(STRING) /\ call[t].left # <<>> /\ call[t].pc = "set"
      /\ call' = [call EXCEPT ![t].left = Tail(@), ![t].set = @ \cup {k}]
      /\ knobs' = IF opens = 0 THEN knobs \cup {k} ELSE knobs
  BY <1>1 DEF SetKnob
<1>3. k \in STRING /\ Tail(call[t].left) \in Seq(STRING)
  BY <1>2, HeadTailProperties
<1>4. call'[t] = [call[t] EXCEPT !.left = Tail(call[t].left), !.set = call[t].set \cup {k}]
  BY <1>1, <1>2
<1>5. /\ call'[t] \in Calls
      /\ call'[t].pc = "set" /\ call'[t].set = call[t].set \cup {k}
      /\ call'[t].quiet = call[t].quiet
  BY <1>1, <1>2, <1>3, <1>4 DEF Calls
<1>6. /\ call' \in [Callers -> Calls]
      /\ \A u \in Callers : u # t => call'[u] = call[u]
  BY <1>1, <1>2, <1>5
<1>7. call[t].quiet => /\ Opening = {} /\ opens = 0
                       /\ call[t].set \subseteq knobs
  BY <1>2 DEF SetupInv, KnobsAreKept, KnobPcs
<1>8. UNCHANGED <<disabled, opened, driverLock, opens, hooks, inForce>>
  BY DEF SetKnob
<1>9. QED
  BY <1>2, <1>5, <1>6, <1>7, <1>8, KnobStep DEF KnobPcs

LEMMA ConfiguredPreserves ==
  ASSUME SetupInv, NEW t \in Callers, KnobRaises(t) \/ Configured(t)
  PROVE  SetupInv'
<1>1. call \in [Callers -> Calls]
  BY DEF SetupInv, SetupTypeOK
<1>2. CASE KnobRaises(t)
  BY <1>1, <1>2, EndsType, AsideStep DEF KnobRaises, KnobPcs
<1>3. CASE Configured(t)
  <2>1. /\ call' \in [Callers -> Calls] /\ call[t].pc = "set"
        /\ call'[t] = [call[t] EXCEPT !.pc = "configured"] /\ call'[t].pc = "configured"
        /\ \A u \in Callers : u # t => call'[u] = call[u]
    BY <1>1, <1>3, StepsType DEF Configured, KnobPcs
  <2>2. call'[t].quiet = call[t].quiet /\ call'[t].set = call[t].set
    BY <1>1, <2>1 DEF Calls, OpenPcs, KnobPcs, BufPcs
  <2>3. call[t].quiet => IF opens = 0 THEN call[t].set \subseteq knobs
                                      ELSE call[t].set \subseteq inForce
    BY <2>1 DEF SetupInv, KnobsAreKept, KnobPcs
  <2>4. QED
    BY <1>3, <2>1, <2>2, <2>3, KnobStep DEF Configured, KnobPcs, driverVars
<1>4. QED
  BY <1>2, <1>3

-----------------------------------------------------------------------------
\* A call that needs the driver begins: configure calls are no longer undisturbed.
LEMMA NeedPreserves ==
  ASSUME SetupInv, NEW t \in Callers, Need(t)
  PROVE  SetupInv'
<1>1. /\ call \in [Callers -> Calls] /\ call[t].pc = "idle"
      /\ call' = [u \in Callers |-> IF u = t THEN [pc |-> "check"]
                                    ELSE IF u \in Configuring THEN [call[u] EXCEPT !.quiet = FALSE]
                                    ELSE call[u]]
  BY DEF Need, SetupInv, SetupTypeOK
<1>2. call'[t].pc = "check" /\ call'[t] \in Calls
  BY <1>1 DEF Calls, OpenPcs
<1>3. ASSUME NEW u \in Callers, u \in Configuring, u # t
      PROVE  call'[u] \in Calls /\ call'[u].pc = call[u].pc /\ ~call'[u].quiet
  <2>1. call[u] \in [pc : KnobPcs, left : Seq(STRING), set : SUBSET STRING, quiet : BOOLEAN]
    BY <1>1, <1>3 DEF Configuring, Calls, OpenPcs, KnobPcs, BufPcs
  <2>2. call'[u] = [call[u] EXCEPT !.quiet = FALSE]
    BY <1>1, <1>3
  <2>3. QED
    BY <2>1, <2>2 DEF Calls
<1>4. ASSUME NEW u \in Callers, u \notin Configuring, u # t
      PROVE  call'[u] = call[u]
  BY <1>1, <1>4
<1>5. \A u \in Callers : u # t => call'[u] \in Calls /\ call'[u].pc = call[u].pc
  BY <1>1, <1>3, <1>4
<1>6. UNCHANGED <<disabled, opened, driverLock, opens, hooks, knobs, inForce>>
  BY DEF Need, driverVars
<1>7. SetupTypeOK'
  <2>1. call' \in [Callers -> Calls]
    BY <1>1, <1>2, <1>5
  <2>2. QED
    BY <1>6, <2>1 DEF SetupInv, SetupTypeOK
<1>8. LockIsHeld'
  BY <1>1, <1>2, <1>5, <1>6 DEF SetupInv, LockIsHeld
<1>9. FlagIsTrue'
  BY <1>1, <1>2, <1>5, <1>6 DEF SetupInv, FlagIsTrue
<1>10. KnobsAreKept'
  <2> SUFFICES ASSUME NEW u \in Callers, call'[u].pc \in KnobPcs, call'[u].quiet
               PROVE  /\ call'[u].pc = "configured"
                      /\ IF opens = 0 THEN call'[u].set \subseteq knobs
                                      ELSE call'[u].set \subseteq inForce
    BY <1>6 DEF KnobsAreKept
  <2>1. u # t /\ u \notin Configuring
    BY <1>2, <1>3 DEF KnobPcs
  <2>2. call'[u] = call[u] /\ call[u].pc = "configured"
    BY <2>1, <1>4 DEF Configuring, KnobPcs
  <2>3. QED
    BY <2>2 DEF SetupInv, KnobsAreKept
<1>11. QED
  BY <1>7, <1>8, <1>9, <1>10 DEF SetupInv

\* A caller that is opening the driver: no configure call is undisturbed before
\* it has set its knobs.
LEMMA OpeningDisturbs ==
  ASSUME SetupInv, NEW t \in Callers, t \in Opening, NEW u \in Callers,
         call[u].pc \in {"configure", "set"}
  PROVE  ~call[u].quiet
  BY DEF SetupInv, KnobsAreKept, KnobPcs

\* While the driver's variables but its lock stay, an opening caller moves on.
LEMMA KnobsStay ==
  ASSUME SetupInv, NEW t \in Callers, t \in Opening,
         call' \in [Callers -> Calls], call'[t].pc \notin KnobPcs,
         \A u \in Callers : u # t => call'[u] = call[u],
         \A u \in Callers : call[u].pc = "configured" /\ call[u].quiet =>
            IF opens' = 0 THEN call[u].set \subseteq knobs' ELSE call[u].set \subseteq inForce'
  PROVE  KnobsAreKept'
<1> SUFFICES ASSUME NEW u \in Callers, call'[u].pc \in KnobPcs, call'[u].quiet
             PROVE  /\ call'[u].pc = "configured"
                    /\ IF opens' = 0 THEN call'[u].set \subseteq knobs'
                                     ELSE call'[u].set \subseteq inForce'
  BY DEF KnobsAreKept
<1>1. call'[u] = call[u]
  OBVIOUS
<1>2. call[u].pc = "configured"
  BY <1>1, OpeningDisturbs DEF KnobPcs
<1>3. QED
  BY <1>1, <1>2

LEMMA CheckPreserves ==
  ASSUME SetupInv, NEW t \in Callers, CheckOpened(t) \/ LockDriver(t) \/ DriverOpenRaises(t)
  PROVE  SetupInv'
<1>0. /\ call \in [Callers -> Calls] /\ t \in Opening
      /\ UNCHANGED <<disabled, opened, opens, hooks, knobs, inForce>>
  BY DEF SetupInv, SetupTypeOK, CheckOpened, LockDriver, DriverOpenRaises, Opening, driverVars
<1>1. PICK pc \in {"lock", "open", "open for use", "unavailable"} :
        /\ Steps(t, pc)
        /\ pc = "lock" => ~opened /\ ~disabled /\ driverLock' = driverLock
        /\ pc = "open" => /\ ~opened /\ call[t].pc = "lock"
                          /\ driverLock = Free /\ driverLock' = t
        /\ pc = "open for use" => opened /\ driverLock' = driverLock
        /\ pc = "unavailable" => driverLock' = IF call[t].pc = "open" THEN Free ELSE driverLock
        /\ call[t].pc = "open" => pc = "unavailable"
        /\ call[t].pc \in {"check", "lock", "open"}
  BY DEF CheckOpened, LockDriver, DriverOpenRaises, driverVars
<1>2. /\ call' \in [Callers -> Calls] /\ call'[t].pc = pc
      /\ \A u \in Callers : u # t => call'[u] = call[u]
  BY <1>0, <1>1, StepsType DEF OpenPcs
<1>3. SetupTypeOK'
  BY <1>0, <1>1, <1>2 DEF SetupInv, SetupTypeOK
<1>4. LockIsHeld'
  BY <1>0, <1>1, <1>2, FreeAssumption DEF SetupInv, SetupTypeOK, LockIsHeld
<1>5. FlagIsTrue'
  <2>1. opened => opens = 1 /\ hooks = 1 /\ driverLock' = Free
    BY <1>1 DEF SetupInv, FlagIsTrue
  <2>2. ~opened => hooks = 0
    BY DEF SetupInv, FlagIsTrue
  <2>3. ~opened /\ driverLock' = Free => opens = 0
    BY <1>1, FreeAssumption DEF SetupInv, FlagIsTrue
  <2>4. call[t].pc = "lock" => ~disabled
    BY DEF SetupInv, FlagIsTrue
  <2>5. pc = "open" => opens = 0 /\ ~disabled
    BY <1>1, <2>4 DEF SetupInv, FlagIsTrue
  <2>6. \A u \in Callers : /\ call'[u].pc = "open" => opens = 0
                           /\ call'[u].pc = "flag" => opens = 1
                           /\ call'[u].pc = "open for use" => opened
    BY <1>1, <1>2, <2>5 DEF SetupInv, FlagIsTrue
  <2>7. disabled => /\ opens = 0
                    /\ \A u \in Callers : call'[u].pc \notin {"lock", "open", "flag"}
    BY <1>1, <1>2, <2>5 DEF SetupInv, FlagIsTrue
  <2>8. QED
    BY <1>0, <2>1, <2>2, <2>3, <2>6, <2>7 DEF FlagIsTrue
<1>6. KnobsAreKept'
  BY <1>0, <1>1, <1>2, KnobsStay DEF SetupInv, KnobsAreKept, KnobPcs
<1>7. QED
  BY <1>3, <1>4, <1>5, <1>6 DEF SetupInv

LEMMA DriverOpenPreserves ==
  ASSUME SetupInv, NEW t \in Callers, DriverOpen(t)
  PROVE  SetupInv'
<1>0. /\ call \in [Callers -> Calls] /\ t \in Opening /\ call[t].pc = "open"
      /\ opens' = opens + 1 /\ inForce' = knobs
      /\ UNCHANGED <<disabled, opened, driverLock, hooks, knobs>>
  BY DEF SetupInv, SetupTypeOK, DriverOpen, Opening
<1>1. opens = 0 /\ driverLock = t /\ ~disabled
  BY <1>0 DEF SetupInv, LockIsHeld, FlagIsTrue
<1>2. /\ call' \in [Callers -> Calls] /\ call'[t].pc = "flag"
      /\ \A u \in Callers : u # t => call'[u] = call[u]
  BY <1>0, StepsType DEF OpenPcs, DriverOpen
<1>3. SetupTypeOK'
  BY <1>0, <1>2 DEF SetupInv, SetupTypeOK
<1>4. LockIsHeld'
  BY <1>0, <1>2 DEF SetupInv, LockIsHeld
<1>5. FlagIsTrue'
  <2>1. /\ ~opened /\ hooks = 0
        /\ opens' = 1 /\ driverLock' # Free
    <3>1. driverLock # Free
      BY <1>1, FreeAssumption
    <3>2. ~opened /\ hooks = 0
      BY <3>1 DEF SetupInv, FlagIsTrue
    <3>3. opens' = 1 /\ driverLock' # Free
      BY <1>0, <1>1, <3>1
    <3>4. QED
      BY <3>2, <3>3
  <2>2. \A u \in Callers : u # t => call[u].pc \notin {"open", "flag"}
    BY <1>1 DEF SetupInv, LockIsHeld
  <2>3. \A u \in Callers : call'[u].pc # "open" /\ call'[u].pc # "open for use"
    BY <1>2, <2>1, <2>2 DEF SetupInv, FlagIsTrue
  <2>4. ~opened' /\ ~disabled' /\ hooks' = 0
    BY <1>0, <1>1, <2>1
  <2>5. QED
    BY <2>1, <2>3, <2>4 DEF FlagIsTrue
<1>6. KnobsAreKept'
  BY <1>0, <1>1, <1>2, KnobsStay DEF SetupInv, KnobsAreKept, KnobPcs
<1>7. QED
  BY <1>3, <1>4, <1>5, <1>6 DEF SetupInv

LEMMA FlagOpenedPreserves ==
  ASSUME SetupInv, NEW t \in Callers, FlagOpened(t)
  PROVE  SetupInv'
<1>0. /\ call \in [Callers -> Calls] /\ t \in Opening /\ call[t].pc = "flag"
      /\ opened' = TRUE /\ hooks' = hooks + 1 /\ driverLock' = Free
      /\ UNCHANGED <<disabled, opens, knobs, inForce>>
  BY DEF SetupInv, SetupTypeOK, FlagOpened, Opening
<1>1. opens = 1 /\ driverLock = t /\ hooks = 0
  BY <1>0, FreeAssumption DEF SetupInv, LockIsHeld, FlagIsTrue
<1>2. /\ call' \in [Callers -> Calls] /\ call'[t].pc = "open for use"
      /\ \A u \in Callers : u # t => call'[u] = call[u]
  BY <1>0, StepsType DEF OpenPcs, FlagOpened
<1>3. SetupTypeOK'
  <2>1. opens' \in Nat /\ hooks' \in Nat /\ driverLock' \in Callers \cup {Free}
    BY <1>0, <1>1
  <2>2. opened' \in BOOLEAN /\ disabled' \in BOOLEAN
    BY <1>0 DEF SetupInv, SetupTypeOK
  <2>3. QED
    BY <1>2, <2>1, <2>2 DEF SetupTypeOK
<1>4. LockIsHeld'
  BY <1>0, <1>1, <1>2, FreeAssumption DEF SetupInv, LockIsHeld
<1>5. FlagIsTrue'
  <2>1. opened' /\ ~disabled' /\ opens' = 1 /\ hooks' = 1 /\ driverLock' = Free
    <3>1. ~disabled' /\ opened'
      BY <1>0, <1>1, Zenon DEF SetupInv, FlagIsTrue
    <3>2. opens' = 1 /\ hooks' = 1 /\ driverLock' = Free
      BY <1>0, <1>1
    <3>3. QED
      BY <3>1, <3>2
  <2>2. \A u \in Callers : call'[u].pc # "open"
    BY <1>1, <1>2 DEF SetupInv, LockIsHeld
  <2>3. QED
    BY <2>1, <2>2 DEF FlagIsTrue
<1>6. KnobsAreKept'
  BY <1>0, <1>1, <1>2, KnobsStay DEF SetupInv, KnobsAreKept, KnobPcs
<1>7. QED
  BY <1>3, <1>4, <1>5, <1>6 DEF SetupInv

-----------------------------------------------------------------------------
\* Calls about buffers, and the end of a call.
LEMMA JoinsPreserves ==
  ASSUME SetupInv, NEW t \in Callers, NEW b \in Buffers, NEW n \in Nat, call[t].pc = "idle",
         Joins(t, b, [pc |-> "look", buf |-> b, size |-> n, alone |-> TRUE]),
         UNCHANGED driverVars
  PROVE  SetupInv'
<1> DEFINE c == [pc |-> "look", buf |-> b, size |-> n, alone |-> TRUE]
<1>1. /\ call \in [Callers -> Calls]
      /\ call' = [u \in Callers |-> IF u = t THEN [c EXCEPT !.alone = BufCalls(b) = {}]
                                    ELSE IF u \in BufCalls(b) THEN [call[u] EXCEPT !.alone = FALSE]
                                    ELSE call[u]]
  BY DEF SetupInv, SetupTypeOK, Joins
<1>2. call'[t] \in Calls /\ call'[t].pc = "look"
  <2>1. call'[t] = [c EXCEPT !.alone = (BufCalls(b) = {})] /\ (BufCalls(b) = {}) \in BOOLEAN
    BY <1>1
  <2>2. QED
    BY <2>1 DEF Calls, BufPcs
<1>3. ASSUME NEW u \in Callers, u \in BufCalls(b), u # t
      PROVE  call'[u] \in Calls /\ call'[u].pc = call[u].pc /\ call'[u].pc \in BufPcs
  <2>1. call[u] \in [pc : BufPcs, buf : Buffers, size : Nat, alone : BOOLEAN]
    BY <1>1, <1>3 DEF BufCalls, Calls, OpenPcs, KnobPcs, BufPcs
  <2>2. call'[u] = [call[u] EXCEPT !.alone = FALSE]
    BY <1>1, <1>3
  <2>3. QED
    BY <2>1, <2>2 DEF Calls
<1>4. ASSUME NEW u \in Callers, u \notin BufCalls(b), u # t
      PROVE  call'[u] = call[u]
  BY <1>1, <1>4
<1>5. \A u \in Callers : u # t => call'[u] \in Calls /\ call'[u].pc = call[u].pc
  BY <1>1, <1>3, <1>4
<1>6. SetupTypeOK'
  <2>1. call' \in [Callers -> Calls]
    BY <1>1, <1>2, <1>5
  <2>2. QED
    BY <2>1 DEF SetupInv, SetupTypeOK, driverVars
<1>7. LockIsHeld'
  BY <1>2, <1>5 DEF SetupInv, LockIsHeld, driverVars
<1>8. FlagIsTrue'
  BY <1>2, <1>5 DEF SetupInv, FlagIsTrue, driverVars
<1>9. Opening' \subseteq Opening
  BY <1>2, <1>5 DEF Opening
<1>10. \A u \in Callers : call'[u].pc \in KnobPcs => call'[u] = call[u]
  BY <1>2, <1>3, <1>4 DEF KnobPcs, BufPcs
<1>11. KnobsAreKept'
  BY <1>9, <1>10 DEF SetupInv, KnobsAreKept, driverVars
<1>12. QED
  BY <1>6, <1>7, <1>8, <1>11 DEF SetupInv

LEMMA BufferStepsPreserve ==
  ASSUME SetupInv, NEW t \in Callers,
         \/ Look(t) \/ LockBuffers(t) \/ BufDeregister(t) \/ BufRegister(t)
         \/ BufRegisterRaises(t) \/ Recorded(t) \/ Returns(t)
  PROVE  SetupInv'
<1>1. call \in [Callers -> Calls] /\ UNCHANGED driverVars
  BY DEF SetupInv, SetupTypeOK, Look, LockBuffers, BufDeregister, BufRegister,
         BufRegisterRaises, Recorded, Returns
<1>2. CASE BufRegisterRaises(t) \/ Returns(t)
  BY <1>1, <1>2, EndsType, AsideStep DEF BufRegisterRaises, Returns, KnobPcs
<1>3. CASE Look(t) \/ LockBuffers(t) \/ BufDeregister(t) \/ BufRegister(t) \/ Recorded(t)
  <2>1. call[t].pc \in BufPcs /\ \E pc \in BufPcs : Steps(t, pc)
    BY <1>3 DEF Look, LockBuffers, BufDeregister, BufRegister, Recorded, BufPcs
  <2>2. PICK pc \in BufPcs : Steps(t, pc)
    BY <2>1
  <2>3. /\ call' \in [Callers -> Calls] /\ call'[t].pc = pc
        /\ \A u \in Callers : u # t => call'[u] = call[u]
    BY <1>1, <2>1, <2>2, StepsType
  <2>4. QED
    BY <1>1, <2>1, <2>3, AsideStep DEF BufPcs, KnobPcs
<1>4. QED
  BY <1>2, <1>3

-----------------------------------------------------------------------------
(* Theorems *)

\* Double-checked locking and the flag keep in step with the driver, and what a
\* configure call has set stays, for any number of callers.
THEOREM SetupInvariant == SetupSpec => []SetupInv
<1>1. SetupInit => SetupInv
  BY SetupInitially
<1>2. SetupInv /\ [SetupNext]_setupVars => SetupInv'
  <2> SUFFICES ASSUME SetupInv, [SetupNext]_setupVars PROVE SetupInv'
    OBVIOUS
  <2>1. CASE UNCHANGED setupVars
    BY <2>1 DEF SetupInv, SetupTypeOK, LockIsHeld, FlagIsTrue, KnobsAreKept, Opening,
                setupVars, driverVars
  <2>2. ASSUME NEW t \in Callers,
               \/ Need(t) \/ CheckOpened(t) \/ LockDriver(t) \/ DriverOpen(t)
               \/ DriverOpenRaises(t) \/ FlagOpened(t)
        PROVE  SetupInv'
    BY <2>2, NeedPreserves, CheckPreserves, DriverOpenPreserves, FlagOpenedPreserves
  <2>3. ASSUME NEW t \in Callers,
               \/ Configure(t) \/ CheckNotOpen(t) \/ SetKnob(t) \/ KnobRaises(t) \/ Configured(t)
        PROVE  SetupInv'
    BY <2>3, ConfigurePreserves, CheckNotOpenPreserves, SetKnobPreserves, ConfiguredPreserves
  <2>4. ASSUME NEW t \in Callers, Register(t) \/ Deregister(t) PROVE SetupInv'
    <3>1. call[t].pc = "idle" /\ UNCHANGED driverVars
      BY <2>4 DEF Register, Deregister
    <3>2. \E b \in Buffers, n \in Nat :
            Joins(t, b, [pc |-> "look", buf |-> b, size |-> n, alone |-> TRUE])
      <4>1. CASE Register(t)
        BY <4>1, SizesAssumption DEF Register
      <4>2. CASE Deregister(t)
        <5>1. PICK b \in Buffers :
                Joins(t, b, [pc |-> "look", buf |-> b, size |-> 0, alone |-> TRUE])
          BY <4>2 DEF Deregister
        <5>2. 0 \in Nat
          OBVIOUS
        <5>3. QED
          BY <5>1, <5>2
      <4>3. QED
        BY <2>4, <4>1, <4>2
    <3>3. PICK b \in Buffers, n \in Nat :
            Joins(t, b, [pc |-> "look", buf |-> b, size |-> n, alone |-> TRUE])
      BY <3>2
    <3>4. QED
      BY <3>1, <3>3, JoinsPreserves
  <2>5. ASSUME NEW t \in Callers,
               \/ Look(t) \/ LockBuffers(t) \/ BufDeregister(t) \/ BufRegister(t)
               \/ BufRegisterRaises(t) \/ Recorded(t) \/ Returns(t)
        PROVE  SetupInv'
    BY <2>5, BufferStepsPreserve
  <2>6. QED
    BY <2>1, <2>2, <2>3, <2>4, <2>5 DEF SetupNext
<1>3. QED
  BY <1>1, <1>2, PTL DEF SetupSpec

\* ensure_driver_open opens the driver once and never when it is switched off.
THEOREM DriverIsOpenedOnce == SetupSpec => []DriverOpensOnce
<1>1. SetupInv => DriverOpensOnce
  <2> SUFFICES ASSUME SetupInv PROVE DriverOpensOnce
    OBVIOUS
  <2>1. opened \/ ~opened
    OBVIOUS
  <2>2. opens \in {0, 1} /\ hooks <= opens
    <3>1. CASE opened
      BY <3>1 DEF SetupInv, FlagIsTrue
    <3>2. CASE ~opened
      <4>1. hooks = 0
        BY <3>2 DEF SetupInv, FlagIsTrue
      <4>2. opens \in {0, 1}
        <5>1. CASE driverLock = Free
          <6>1. opens = 0
            BY <3>2, <5>1 DEF SetupInv, FlagIsTrue
          <6>2. QED
            BY <6>1
        <5>2. CASE driverLock # Free
          BY <5>2 DEF SetupInv, SetupTypeOK, LockIsHeld, FlagIsTrue
        <5>3. QED
          BY <5>1, <5>2
      <4>3. QED
        BY <4>1, <4>2
    <3>3. QED
      BY <3>1, <3>2
  <2>3. opens <= 1
    BY <2>2
  <2>4. disabled => opens = 0
    BY DEF SetupInv, FlagIsTrue
  <2>5. \A t \in Callers : call[t].pc = "open for use" => opens = 1
    BY DEF SetupInv, FlagIsTrue
  <2>6. QED
    BY <2>2, <2>3, <2>4, <2>5 DEF DriverOpensOnce
<1>2. QED
  BY <1>1, SetupInvariant, PTL

\* An undisturbed configure call sets what the driver is opened with.
THEOREM ConfigureIsInForce == SetupSpec => []QuietConfigureIsInForce
<1>1. SetupInv => QuietConfigureIsInForce
  BY DEF SetupInv, SetupTypeOK, KnobsAreKept, KnobPcs, QuietConfigureIsInForce
<1>2. QED
  BY <1>1, SetupInvariant, PTL

-----------------------------------------------------------------------------
(* Proof about CufileSetup that buffers a call registered with no company  *)
(* on their pointer are registered, for every number of callers, pointers  *)
(* and sizes, whatever calls on other pointers do at the same time.        *)

BufTypeOK == sizes \in [Buffers -> Nat] /\ driver \in [Buffers -> Nat]

\* _registration_lock is held by the call that works under it, by nobody else.
Working == {"deregister", "register", "registered"}
BufLockIsHeld == \A t \in Callers : call[t].pc \in Working <=> bufLock = t

\* A call that is told it is alone is the only one on its pointer.
AloneIsTrue ==
  \A t, u \in Callers :
    /\ call[t].pc \in BufPcs /\ call[t].alone
    /\ call[u].pc \in BufPcs /\ call[u].buf = call[t].buf
    => u = t

\* The dictionary says what libcufile has, except of a pointer that is being
\* registered and of one whose last registration raised.
Changing(b) ==
  \E t \in Callers : call[t].pc \in {"register", "registered"} /\ call[t].buf = b
RecordsAreTrue ==
  /\ \A b \in Buffers : b \notin lost /\ ~Changing(b) => driver[b] = sizes[b]
  /\ \A t \in Callers : call[t].pc = "registered" => driver[call[t].buf] = call[t].size

BufInv == /\ BufTypeOK /\ BufLockIsHeld /\ AloneIsTrue /\ RecordsAreTrue
          /\ QuietBuffersAreRegistered

LEMMA BufInitially == SetupInit => BufInv
<1> SUFFICES ASSUME SetupInit PROVE BufInv
  OBVIOUS
<1>1. \A t \in Callers : call[t].pc = "idle" /\ bufLock # t
  BY FreeAssumption DEF SetupInit, NotCalling
<1>2. BufTypeOK /\ \A b \in Buffers : driver[b] = sizes[b]
  BY DEF SetupInit, BufTypeOK
<1>3. QED
  BY <1>1, <1>2 DEF BufInv, BufLockIsHeld, AloneIsTrue, RecordsAreTrue, BufPcs, Working,
                    QuietBuffersAreRegistered

\* Calls about the driver leave the buffers and the calls about them alone.
LEMMA OtherStep ==
  ASSUME BufInv, UNCHANGED bufVars,
         \A u \in Callers : \/ call'[u] = call[u]
                            \/ call[u].pc \notin BufPcs /\ call'[u].pc \notin BufPcs
                            \/ call[u].pc = "ensured" /\ call'[u].pc \notin BufPcs
  PROVE  BufInv'
<1> USE DEF BufInv, BufPcs, Working, bufVars
<1>1. BufTypeOK' /\ BufLockIsHeld'
  BY DEF BufTypeOK, BufLockIsHeld
<1>2. AloneIsTrue'
  BY DEF AloneIsTrue
<1>3. RecordsAreTrue'
  <2>1. \A b \in Buffers : Changing(b)' <=> Changing(b)
    BY DEF Changing
  <2>2. QED
    BY <2>1 DEF RecordsAreTrue
<1>4. QuietBuffersAreRegistered'
  BY DEF QuietBuffersAreRegistered
<1>5. QED
  BY <1>1, <1>2, <1>3, <1>4

\* A buffer call goes on: its pointer, size and company stay.
LEMMA BufSteps ==
  ASSUME SetupInv, NEW t \in Callers, NEW pc \in BufPcs, call[t].pc \in BufPcs, Steps(t, pc)
  PROVE  /\ call[t].buf \in Buffers /\ call[t].size \in Nat
         /\ call'[t].pc = pc /\ call'[t].buf = call[t].buf
         /\ call'[t].size = call[t].size /\ call'[t].alone = call[t].alone
         /\ \A u \in Callers : u # t => call'[u] = call[u]
<1>1. call \in [Callers -> Calls]
  BY DEF SetupInv, SetupTypeOK
<1>2. call[t] \in [pc : BufPcs, buf : Buffers, size : Nat, alone : BOOLEAN]
  BY <1>1 DEF Calls, OpenPcs, KnobPcs, BufPcs
<1>3. /\ call'[t] = [call[t] EXCEPT !.pc = pc] /\ call'[t].pc = pc
      /\ \A u \in Callers : u # t => call'[u] = call[u]
  BY <1>1, StepsType
<1>4. QED
  BY <1>2, <1>3

\* What a step of t keeps when t goes on about its pointer.
LEMMA AloneStays ==
  ASSUME AloneIsTrue, NEW t \in Callers, call[t].pc \in BufPcs,
         call'[t].pc \in BufPcs, call'[t].buf = call[t].buf, call'[t].alone = call[t].alone,
         \A u \in Callers : u # t => call'[u] = call[u]
  PROVE  AloneIsTrue'
  BY DEF AloneIsTrue

\* Nobody else has finished, undisturbed, with the pointer of t.
LEMMA OthersStayRegistered ==
  ASSUME BufInv, SetupInv, NEW t \in Callers, call[t].pc \in BufPcs,
         \A u \in Callers : u # t => call'[u] = call[u],
         \A b \in Buffers : b # call[t].buf => driver'[b] = driver[b],
         \A b \in Buffers : b # call[t].buf => (b \in lost' <=> b \in lost),
         call'[t].pc = "ensured" /\ call'[t].alone /\ call'[t].buf \notin lost' =>
           IF call'[t].size = 0 THEN driver'[call'[t].buf] = 0
           ELSE driver'[call'[t].buf] >= call'[t].size
  PROVE  QuietBuffersAreRegistered'
<1> SUFFICES ASSUME NEW u \in Callers,
                    call'[u].pc = "ensured", call'[u].alone, call'[u].buf \notin lost'
             PROVE  IF call'[u].size = 0 THEN driver'[call'[u].buf] = 0
                    ELSE driver'[call'[u].buf] >= call'[u].size
  BY DEF QuietBuffersAreRegistered
<1>1. CASE u = t
  BY <1>1
<1>2. CASE u # t
  <2>1. call'[u] = call[u] /\ call[u].pc \in BufPcs /\ call[u].pc = "ensured" /\ call[u].alone
    BY <1>2 DEF BufPcs
  <2>2. call[u].buf # call[t].buf
    BY <1>2, <2>1 DEF BufInv, AloneIsTrue
  <2>3. call[u].buf \in Buffers
    BY <2>1 DEF SetupInv, SetupTypeOK, Calls, OpenPcs, KnobPcs, BufPcs
  <2>4. call[u].buf \notin lost /\ driver'[call[u].buf] = driver[call[u].buf]
    BY <2>1, <2>2, <2>3
  <2>5. QED
    BY <2>1, <2>4 DEF BufInv, QuietBuffersAreRegistered
<1>3. QED
  BY <1>1, <1>2

\* The registration lock admits one call.
LEMMA OneWorks ==
  ASSUME BufInv, NEW t \in Callers, NEW u \in Callers,
         call[t].pc \in Working, call[u].pc \in Working
  PROVE  u = t
  BY DEF BufInv, BufLockIsHeld

\* The pointer of a call that is alone is not being registered by another.
LEMMA AloneIsSettled ==
  ASSUME BufInv, NEW t \in Callers, call[t].pc \in BufPcs, call[t].alone,
         call[t].pc \notin {"register", "registered"}
  PROVE  ~Changing(call[t].buf)
  BY DEF BufInv, AloneIsTrue, Changing, BufPcs

LEMMA JoinsKeepsBuffers ==
  ASSUME BufInv, SetupInv, NEW t \in Callers, NEW b \in Buffers, NEW n \in Nat,
         call[t].pc = "idle",
         Joins(t, b, [pc |-> "look", buf |-> b, size |-> n, alone |-> TRUE]),
         UNCHANGED bufVars
  PROVE  BufInv'
<1> DEFINE c == [pc |-> "look", buf |-> b, size |-> n, alone |-> TRUE]
<1> USE DEF BufInv
<1>1. /\ call \in [Callers -> Calls]
      /\ call' = [u \in Callers |-> IF u = t THEN [c EXCEPT !.alone = BufCalls(b) = {}]
                                    ELSE IF u \in BufCalls(b) THEN [call[u] EXCEPT !.alone = FALSE]
                                    ELSE call[u]]
  BY DEF SetupInv, SetupTypeOK, Joins
<1>2. call'[t].pc = "look" /\ call'[t].buf = b /\ call'[t].alone = (BufCalls(b) = {})
  BY <1>1
<1>3. ASSUME NEW u \in Callers, u \in BufCalls(b), u # t
      PROVE  /\ call'[u].pc = call[u].pc /\ call'[u].buf = call[u].buf
             /\ call'[u].size = call[u].size /\ ~call'[u].alone
  <2>1. call[u] \in [pc : BufPcs, buf : Buffers, size : Nat, alone : BOOLEAN]
    BY <1>1, <1>3 DEF BufCalls, Calls, OpenPcs, KnobPcs, BufPcs
  <2>2. call'[u] = [call[u] EXCEPT !.alone = FALSE]
    BY <1>1, <1>3
  <2>3. QED
    BY <2>1, <2>2
<1>4. ASSUME NEW u \in Callers, u \notin BufCalls(b), u # t
      PROVE  call'[u] = call[u] /\ ~(call[u].pc \in BufPcs /\ call[u].buf = b)
  BY <1>1, <1>4 DEF BufCalls, BufPcs
<1>5. \A u \in Callers : u # t => /\ call'[u].pc = call[u].pc
                                  /\ call'[u].buf = call[u].buf
                                  /\ call'[u].size = call[u].size
                                  /\ call'[u].alone => call[u].alone
  BY <1>3, <1>4
<1>6. BufTypeOK' /\ BufLockIsHeld'
  BY <1>2, <1>5 DEF BufTypeOK, BufLockIsHeld, Working, bufVars
<1>7. AloneIsTrue'
  <2> SUFFICES ASSUME NEW u \in Callers, NEW v \in Callers,
                      call'[u].pc \in BufPcs, call'[u].alone,
                      call'[v].pc \in BufPcs, call'[v].buf = call'[u].buf
               PROVE  v = u
    BY DEF AloneIsTrue
  <2>1. CASE u = t /\ v # t
    BY <2>1, <1>2, <1>3, <1>4
  <2>2. CASE u # t /\ v = t
    BY <2>2, <1>2, <1>3, <1>4
  <2>3. CASE u # t /\ v # t
    BY <2>3, <1>5 DEF AloneIsTrue
  <2>4. QED
    BY <2>1, <2>2, <2>3
<1>8. RecordsAreTrue'
  <2>1. \A x \in Buffers : Changing(x)' <=> Changing(x)
    BY <1>2, <1>5 DEF Changing
  <2>2. QED
    BY <1>2, <1>5, <2>1 DEF RecordsAreTrue, bufVars
<1>9. QuietBuffersAreRegistered'
  BY <1>2, <1>5 DEF QuietBuffersAreRegistered, bufVars
<1>10. QED
  BY <1>6, <1>7, <1>8, <1>9

LEMMA LookKeepsBuffers ==
  ASSUME BufInv, SetupInv, NEW t \in Callers, Look(t) \/ LockBuffers(t)
  PROVE  BufInv'
<1> USE DEF BufInv, BufPcs
<1>0. call[t].pc \in {"look", "wait"} /\ UNCHANGED <<sizes, driver, lost>>
  BY DEF Look, LockBuffers, bufVars
<1>1. PICK pc \in {"ensured", "wait", "deregister", "register"} :
        /\ Steps(t, pc)
        /\ pc \in {"deregister", "register"} => bufLock = Free /\ bufLock' = t
        /\ pc \notin {"deregister", "register"} => bufLock' = bufLock
        /\ pc = "ensured" => \/ Satisfied(t)
                             \/ call[t].size = 0 /\ ~(sizes[call[t].buf] > 0)
  BY DEF Look, LockBuffers, bufVars
<1>2. /\ call[t].buf \in Buffers /\ call[t].size \in Nat
      /\ call'[t].pc = pc /\ call'[t].buf = call[t].buf
      /\ call'[t].size = call[t].size /\ call'[t].alone = call[t].alone
      /\ \A u \in Callers : u # t => call'[u] = call[u]
  BY <1>0, <1>1, BufSteps
<1>3. BufTypeOK'
  BY <1>0 DEF BufTypeOK
<1>4. BufLockIsHeld'
  BY <1>0, <1>1, <1>2, FreeAssumption DEF BufLockIsHeld, Working
<1>5. AloneIsTrue'
  BY <1>0, <1>1, <1>2, AloneStays
<1>6. RecordsAreTrue'
  <2>1. \A b \in Buffers : Changing(b) => Changing(b)'
    BY <1>0, <1>2 DEF Changing
  <2>2. QED
    BY <1>0, <1>1, <1>2, <2>1 DEF RecordsAreTrue
<1>7. QuietBuffersAreRegistered'
  <2>1. ASSUME pc = "ensured", call[t].alone, call[t].buf \notin lost
        PROVE  IF call[t].size = 0 THEN driver[call[t].buf] = 0
               ELSE driver[call[t].buf] >= call[t].size
    <3>1. driver[call[t].buf] = sizes[call[t].buf] /\ sizes[call[t].buf] \in Nat
      BY <1>0, <1>2, <2>1, AloneIsSettled DEF RecordsAreTrue, BufTypeOK
    <3>2. QED
      BY <3>1, <1>1, <1>2, <2>1 DEF Satisfied
  <2>2. QED
    BY <2>1, <1>0, <1>2, OthersStayRegistered
<1>8. QED
  BY <1>3, <1>4, <1>5, <1>6, <1>7

LEMMA DeregisterKeepsBuffers ==
  ASSUME BufInv, SetupInv, NEW t \in Callers, BufDeregister(t) \/ BufRegister(t)
  PROVE  BufInv'
<1> USE DEF BufInv, BufPcs
<1>0. call[t].pc \in {"deregister", "register"} /\ UNCHANGED <<sizes, bufLock, lost>>
  BY DEF BufDeregister, BufRegister
<1>1. PICK pc \in {"register", "registered"}, n \in {0, call[t].size} :
        /\ Steps(t, pc) /\ driver' = [driver EXCEPT ![call[t].buf] = n]
        /\ pc = "registered" => n = call[t].size
  BY DEF BufDeregister, BufRegister
<1>2. /\ call[t].buf \in Buffers /\ call[t].size \in Nat
      /\ call'[t].pc = pc /\ call'[t].buf = call[t].buf
      /\ call'[t].size = call[t].size /\ call'[t].alone = call[t].alone
      /\ \A u \in Callers : u # t => call'[u] = call[u]
  BY <1>0, <1>1, BufSteps
<1>3. /\ BufTypeOK'
      /\ driver'[call[t].buf] = n
      /\ \A b \in Buffers : b # call[t].buf => driver'[b] = driver[b]
  BY <1>0, <1>1, <1>2 DEF BufTypeOK
<1>4. BufLockIsHeld'
  BY <1>0, <1>1, <1>2 DEF BufLockIsHeld, Working
<1>5. AloneIsTrue'
  BY <1>0, <1>1, <1>2, AloneStays
<1>6. RecordsAreTrue'
  <2>1. \A b \in Buffers : b = call[t].buf \/ Changing(b) => Changing(b)'
    BY <1>0, <1>1, <1>2 DEF Changing
  <2>2. \A b \in Buffers : b \notin lost /\ ~Changing(b)' => driver'[b] = sizes[b]
    BY <1>3, <2>1 DEF RecordsAreTrue
  <2>3. ASSUME NEW u \in Callers, call'[u].pc = "registered"
        PROVE  driver'[call'[u].buf] = call'[u].size
    <3>1. u = t
      BY <1>0, <1>2, <2>3, OneWorks DEF Working
    <3>2. QED
      BY <3>1, <2>3, <1>1, <1>2, <1>3
  <2>4. QED
    BY <1>0, <2>2, <2>3 DEF RecordsAreTrue
<1>7. QuietBuffersAreRegistered'
  BY <1>0, <1>1, <1>2, <1>3, OthersStayRegistered
<1>8. QED
  BY <1>3, <1>4, <1>5, <1>6, <1>7

LEMMA RaisesKeepsBuffers ==
  ASSUME BufInv, SetupInv, NEW t \in Callers, BufRegisterRaises(t)
  PROVE  BufInv'
<1> USE DEF BufInv, BufPcs
<1>0. /\ call[t].pc = "register" /\ UNCHANGED <<sizes, driver>>
      /\ lost' = lost \cup {call[t].buf} /\ bufLock' = Free
      /\ bufLock = t
  BY DEF BufRegisterRaises, BufLockIsHeld, Working
<1>1. call'[t].pc = "idle" /\ \A u \in Callers : u # t => call'[u] = call[u]
  BY EndsType DEF BufRegisterRaises, SetupInv, SetupTypeOK
<1>2. BufTypeOK'
  BY <1>0 DEF BufTypeOK
<1>3. BufLockIsHeld'
  BY <1>0, <1>1, FreeAssumption DEF BufLockIsHeld, Working
<1>4. AloneIsTrue'
  BY <1>1 DEF AloneIsTrue
<1>5. RecordsAreTrue'
  <2>1. ASSUME NEW b \in Buffers, b \notin lost', ~Changing(b)' PROVE driver[b] = sizes[b]
    <3>1. b # call[t].buf /\ b \notin lost
      BY <2>1, <1>0
    <3>2. ~Changing(b)
      BY <2>1, <3>1, <1>1 DEF Changing
    <3>3. QED
      BY <3>1, <3>2 DEF RecordsAreTrue
  <2>2. \A u \in Callers : call'[u].pc = "registered" => driver[call'[u].buf] = call'[u].size
    BY <1>1 DEF RecordsAreTrue
  <2>3. QED
    BY <1>0, <2>1, <2>2 DEF RecordsAreTrue
<1>6. QuietBuffersAreRegistered'
  BY <1>0, <1>1, OthersStayRegistered
<1>7. QED
  BY <1>2, <1>3, <1>4, <1>5, <1>6

LEMMA RecordedKeepsBuffers ==
  ASSUME BufInv, SetupInv, NEW t \in Callers, Recorded(t)
  PROVE  BufInv'
<1> USE DEF BufInv, BufPcs
<1>0. /\ call[t].pc = "registered" /\ driver' = driver
      /\ sizes' = [sizes EXCEPT ![call[t].buf] = call[t].size]
      /\ lost' = lost \ {call[t].buf} /\ bufLock' = Free
      /\ Steps(t, "ensured") /\ bufLock = t
  BY DEF Recorded, BufLockIsHeld, Working
<1>1. /\ call[t].buf \in Buffers /\ call[t].size \in Nat
      /\ call'[t].pc = "ensured" /\ call'[t].buf = call[t].buf
      /\ call'[t].size = call[t].size /\ call'[t].alone = call[t].alone
      /\ \A u \in Callers : u # t => call'[u] = call[u]
  BY <1>0, BufSteps
<1>2. /\ BufTypeOK'
      /\ sizes'[call[t].buf] = call[t].size
      /\ \A b \in Buffers : b # call[t].buf => sizes'[b] = sizes[b]
  BY <1>0, <1>1 DEF BufTypeOK
<1>3. driver[call[t].buf] = call[t].size
  BY <1>0 DEF RecordsAreTrue
<1>4. BufLockIsHeld'
  BY <1>0, <1>1, FreeAssumption DEF BufLockIsHeld, Working
<1>5. AloneIsTrue'
  BY <1>0, <1>1, AloneStays
<1>6. RecordsAreTrue'
  <2>1. ASSUME NEW b \in Buffers, b \notin lost', ~Changing(b)' PROVE driver[b] = sizes'[b]
    <3>1. CASE b = call[t].buf
      BY <3>1, <1>2, <1>3
    <3>2. CASE b # call[t].buf
      <4>1. b \notin lost /\ ~Changing(b)
        BY <2>1, <3>2, <1>0, <1>1 DEF Changing
      <4>2. QED
        BY <3>2, <4>1, <1>2 DEF RecordsAreTrue
    <3>3. QED
      BY <3>1, <3>2
  <2>2. \A u \in Callers : call'[u].pc = "registered" => driver[call'[u].buf] = call'[u].size
    BY <1>1 DEF RecordsAreTrue
  <2>3. QED
    BY <1>0, <2>1, <2>2 DEF RecordsAreTrue
<1>7. QuietBuffersAreRegistered'
  <2>1. IF call'[t].size = 0 THEN driver'[call'[t].buf] = 0
        ELSE driver'[call'[t].buf] >= call'[t].size
    BY <1>0, <1>1, <1>3
  <2>2. /\ \A b \in Buffers : b # call[t].buf => driver'[b] = driver[b]
        /\ \A b \in Buffers : b # call[t].buf => (b \in lost' <=> b \in lost)
    BY <1>0
  <2>3. QED
    BY <2>1, <2>2, <1>0, <1>1, OthersStayRegistered
<1>8. QED
  BY <1>2, <1>4, <1>5, <1>6, <1>7

-----------------------------------------------------------------------------
\* What an undisturbed ensure_buf_registered or deregister_buf has done stays done
\* until it returns, unless libcufile refused the pointer's last registration.
THEOREM BuffersAreRegistered == SetupSpec => []QuietBuffersAreRegistered
<1>1. BufInv /\ SetupInv /\ [SetupNext]_setupVars => BufInv'
  <2> SUFFICES ASSUME BufInv, SetupInv, [SetupNext]_setupVars PROVE BufInv'
    OBVIOUS
  <2>0. call \in [Callers -> Calls]
    BY DEF SetupInv, SetupTypeOK
  <2>1. CASE UNCHANGED setupVars
    BY <2>1, OtherStep DEF setupVars
  <2>2. ASSUME NEW t \in Callers,
               \/ CheckOpened(t) \/ LockDriver(t) \/ DriverOpen(t) \/ DriverOpenRaises(t)
               \/ FlagOpened(t)
        PROVE  BufInv'
    <3>1. UNCHANGED bufVars /\ call[t].pc \in OpenPcs
          /\ \E pc \in OpenPcs : Steps(t, pc)
      BY <2>2 DEF CheckOpened, LockDriver, DriverOpen, DriverOpenRaises, FlagOpened, OpenPcs
    <3>2. call'[t].pc \in OpenPcs /\ \A u \in Callers : u # t => call'[u] = call[u]
      BY <2>0, <3>1, StepsType
    <3>3. QED
      BY <3>1, <3>2, OtherStep DEF OpenPcs, BufPcs
  <2>3. ASSUME NEW t \in Callers, Need(t) PROVE BufInv'
    <3>1. UNCHANGED bufVars /\ call[t].pc = "idle" /\ call'[t].pc = "check"
      BY <2>3 DEF Need
    <3>2. ASSUME NEW u \in Callers, u # t
          PROVE  call'[u] = call[u] \/ (call[u].pc \notin BufPcs /\ call'[u].pc \notin BufPcs)
      <4>1. CASE u \in Configuring
        <5>1. call'[u] = [call[u] EXCEPT !.quiet = FALSE]
          BY <2>3, <3>2, <4>1 DEF Need
        <5>2. call[u] \in [pc : KnobPcs, left : Seq(STRING), set : SUBSET STRING, quiet : BOOLEAN]
          BY <2>0, <4>1 DEF Configuring, Calls, OpenPcs, KnobPcs, BufPcs
        <5>3. QED
          BY <5>1, <5>2 DEF KnobPcs, BufPcs
      <4>2. CASE u \notin Configuring
        BY <2>3, <3>2, <4>2 DEF Need
      <4>3. QED
        BY <4>1, <4>2
    <3>3. \A u \in Callers : \/ call'[u] = call[u]
                             \/ call[u].pc \notin BufPcs /\ call'[u].pc \notin BufPcs
      BY <3>1, <3>2 DEF BufPcs
    <3>4. QED
      BY <3>1, <3>3, OtherStep
  <2>4. ASSUME NEW t \in Callers,
               \/ Configure(t) \/ CheckNotOpen(t) \/ SetKnob(t) \/ KnobRaises(t) \/ Configured(t)
        PROVE  BufInv'
    <3>1. /\ UNCHANGED bufVars /\ call[t].pc \notin BufPcs
          /\ \A u \in Callers : u # t => call'[u] = call[u]
      BY <2>0, <2>4 DEF Configure, CheckNotOpen, SetKnob, KnobRaises, Configured, Steps, Ends, BufPcs
    <3>2. call'[t].pc \notin BufPcs
      <4>1. CASE Configure(t)
        BY <2>0, <4>1 DEF Configure, BufPcs
      <4>2. CASE CheckNotOpen(t) \/ KnobRaises(t) \/ Configured(t)
        <5>1. Ends(t) \/ \E pc \in {"set", "configured"} : Steps(t, pc)
          BY <4>2 DEF CheckNotOpen, KnobRaises, Configured
        <5>2. call[t].pc \in KnobPcs
          BY <4>2 DEF CheckNotOpen, KnobRaises, Configured, KnobPcs
        <5>3. CASE Ends(t)
          BY <5>3, <2>0, EndsType DEF BufPcs
        <5>4. CASE \E pc \in {"set", "configured"} : Steps(t, pc)
          BY <5>2, <5>4, <2>0, StepsType DEF KnobPcs, BufPcs
        <5>5. QED
          BY <5>1, <5>3, <5>4
      <4>3. CASE SetKnob(t)
        <5>1. PICK l, s : call'[t] = [call[t] EXCEPT !.left = l, !.set = s]
          BY <2>0, <4>3 DEF SetKnob
        <5>2. call[t] \in [pc : KnobPcs, left : Seq(STRING), set : SUBSET STRING, quiet : BOOLEAN]
          BY <2>0, <4>3 DEF SetKnob, Calls, OpenPcs, KnobPcs, BufPcs
        <5>3. QED
          BY <5>1, <5>2 DEF KnobPcs, BufPcs
      <4>4. QED
        BY <2>4, <4>1, <4>2, <4>3
    <3>3. QED
      BY <3>1, <3>2, OtherStep
  <2>5. ASSUME NEW t \in Callers, Register(t) \/ Deregister(t) PROVE BufInv'
    <3>1. call[t].pc = "idle" /\ UNCHANGED bufVars
      BY <2>5 DEF Register, Deregister
    <3>2. \E b \in Buffers, n \in Nat :
            Joins(t, b, [pc |-> "look", buf |-> b, size |-> n, alone |-> TRUE])
      <4>1. CASE Register(t)
        BY <4>1, SizesAssumption DEF Register
      <4>2. CASE Deregister(t)
        <5>1. PICK b \in Buffers :
                Joins(t, b, [pc |-> "look", buf |-> b, size |-> 0, alone |-> TRUE])
          BY <4>2 DEF Deregister
        <5>2. 0 \in Nat
          OBVIOUS
        <5>3. QED
          BY <5>1, <5>2
      <4>3. QED
        BY <2>5, <4>1, <4>2
    <3>3. PICK b \in Buffers, n \in Nat :
            Joins(t, b, [pc |-> "look", buf |-> b, size |-> n, alone |-> TRUE])
      BY <3>2
    <3>4. QED
      BY <3>1, <3>3, JoinsKeepsBuffers
  <2>6. ASSUME NEW t \in Callers,
               \/ Look(t) \/ LockBuffers(t) \/ BufDeregister(t) \/ BufRegister(t)
               \/ BufRegisterRaises(t) \/ Recorded(t)
        PROVE  BufInv'
    BY <2>6, LookKeepsBuffers, DeregisterKeepsBuffers, RaisesKeepsBuffers, RecordedKeepsBuffers
  <2>7. ASSUME NEW t \in Callers, Returns(t) PROVE BufInv'
    <3>1. UNCHANGED bufVars /\ Ends(t)
          /\ call[t].pc \in {"open for use", "unavailable", "configured", "ensured"}
      BY <2>7 DEF Returns
    <3>2. call'[t].pc = "idle" /\ \A u \in Callers : u # t => call'[u] = call[u]
      BY <2>0, <3>1, EndsType
    <3>3. QED
      BY <3>1, <3>2, OtherStep DEF BufPcs
  <2>8. QED
    BY <2>1, <2>2, <2>3, <2>4, <2>5, <2>6, <2>7 DEF SetupNext
<1>2. BufInv => QuietBuffersAreRegistered
  BY DEF BufInv
<1>3. QED
  BY <1>1, <1>2, BufInitially, SetupInvariant, PTL DEF SetupSpec

-----------------------------------------------------------------------------
-----------------------------------------------------------------------------
DefaultPcs == {"check", "lock", "set", "flag"}
CustomPcs  == {"custom", "customFlag"}
RegCalls == [pc : {"idle", "done"} \cup DefaultPcs] \cup [pc : CustomPcs, allocator : Customs]

-----------------------------------------------------------------------------
(* The allocator *)

AllocTypeOK ==
  /\ device \in {"none", "cupy"} \cup Customs
  /\ registered \in BOOLEAN
  /\ reg \in [Threads -> RegCalls]

\* Whatever follows a registration finds an allocator installed.
DeviceIsSet ==
  registered \/ (\E t \in Threads : reg[t].pc \in {"flag", "customFlag", "done"})
    => device # "none"

AllocInv == AllocTypeOK /\ DeviceIsSet

\* Every step on the registration is one of these.
AllocMoves ==
  \E t \in Threads : AllocStep(t) \/ Done(t) \/ StartDefault(t)
                       \/ \E c \in Customs : StartCustom(t, c)

LEMMA AllocInitInv == AllocInit => AllocInv
<1> SUFFICES ASSUME AllocInit PROVE AllocInv
  OBVIOUS
<1>1. AllocTypeOK
  BY DEF AllocInit, AllocTypeOK, NoCall, RegCalls
<1>2. DeviceIsSet
  BY DEF AllocInit, DeviceIsSet, NoCall
<1>3. QED
  BY <1>1, <1>2 DEF AllocInv

\* Once installed, some allocator stays.
LEMMA AllocPreserves ==
  ASSUME AllocInv, AllocMoves \/ UNCHANGED allocVars
  PROVE  AllocInv' /\ (device # "none" => device' # "none")
<1> USE DefaultsAssumption DEF AllocInv, AllocTypeOK
<1>1. CASE UNCHANGED allocVars
  BY <1>1 DEF allocVars, DeviceIsSet
<1>2. ASSUME NEW t \in Threads, Check(t) \/ Acquire(t) \/ StartDefault(t) \/ Done(t)
      PROVE  AllocInv' /\ (device # "none" => device' # "none")
  <2>1. /\ device' = device /\ registered' = registered
        /\ \E pc \in {"check", "lock", "set", "done", "idle"} :
             /\ reg' = [reg EXCEPT ![t] = [pc |-> pc]]
             /\ pc = "done" => registered
    BY <1>2 DEF Check, Acquire, StartDefault, Done, To
  <2>2. AllocTypeOK'
    BY <2>1 DEF RegCalls, DefaultPcs
  <2>3. DeviceIsSet'
    BY <2>1 DEF DeviceIsSet
  <2>4. QED
    BY <2>1, <2>2, <2>3
<1>3. ASSUME NEW t \in Threads, SetDefault(t) \/ Flag(t)
      PROVE  AllocInv' /\ (device # "none" => device' # "none")
  <2>1. /\ device' # "none" /\ device' \in {"none", "cupy"} \cup Customs
        /\ registered' \in BOOLEAN
        /\ \E pc \in {"flag", "done"} : reg' = [reg EXCEPT ![t] = [pc |-> pc]]
    BY <1>3 DEF SetDefault, Flag, To, DeviceIsSet
  <2>2. AllocTypeOK'
    BY <2>1 DEF RegCalls, DefaultPcs
  <2>3. QED
    BY <2>1, <2>2 DEF DeviceIsSet
<1>4. ASSUME NEW t \in Threads, NEW c \in Customs, StartCustom(t, c)
      PROVE  AllocInv' /\ (device # "none" => device' # "none")
  <2>1. AllocTypeOK'
    BY <1>4 DEF StartCustom, RegCalls, CustomPcs
  <2>2. DeviceIsSet'
    BY <1>4 DEF StartCustom, DeviceIsSet
  <2>3. QED
    BY <1>4, <2>1, <2>2 DEF StartCustom
<1>5. ASSUME NEW t \in Threads, SetCustom(t) \/ FlagCustom(t)
      PROVE  AllocInv' /\ (device # "none" => device' # "none")
  <2>1. reg[t].pc \in CustomPcs
    BY <1>5 DEF SetCustom, FlagCustom, CustomPcs
  <2>2. reg[t] \in [pc : CustomPcs, allocator : Customs]
    BY <2>1 DEF RegCalls, CustomPcs, DefaultPcs
  <2>3. /\ device' # "none" /\ device' \in {"none", "cupy"} \cup Customs
        /\ registered' \in BOOLEAN
    BY <1>5, <2>2 DEF SetCustom, FlagCustom, DeviceIsSet
  <2>4. reg' \in [Threads -> RegCalls]
    <3>1. CASE SetCustom(t)
      <4>1. [reg[t] EXCEPT !.pc = "customFlag"] \in [pc : CustomPcs, allocator : Customs]
        BY <2>2 DEF CustomPcs
      <4>2. QED
        BY <3>1, <4>1 DEF SetCustom, RegCalls
    <3>2. CASE FlagCustom(t)
      BY <3>2 DEF FlagCustom, To, RegCalls
    <3>3. QED
      BY <1>5, <3>1, <3>2
  <2>5. QED
    BY <2>3, <2>4 DEF DeviceIsSet
<1>6. QED
  BY <1>1, <1>2, <1>3, <1>4, <1>5 DEF AllocMoves, AllocStep

\* Every step of a thread moves its registration, or leaves all of them alone.
LEMMA NextMovesAlloc == [Next]_vars => AllocMoves \/ UNCHANGED allocVars
<1> SUFFICES ASSUME [Next]_vars PROVE AllocMoves \/ UNCHANGED allocVars
  OBVIOUS
<1>1. CASE UNCHANGED vars
  BY <1>1 DEF vars, allocVars
<1>2. ASSUME NEW t \in Threads,
             \/ New(t) \/ NewDone(t) \/ Custom(t) \/ CustomDone(t)
             \/ Decode(t) \/ Registered(t) \/ AllocStep(t)
      PROVE  AllocMoves \/ UNCHANGED allocVars
  BY <1>2 DEF New, NewDone, Custom, CustomDone, Decode, Registered, AllocMoves
<1>3. ASSUME NEW t \in Threads,
             \/ Batch(t) \/ GetLocal(t) \/ CreateLocal(t) \/ BatchDone(t) \/ Return(t)
             \/ Construct(t) \/ Publish(t) \/ DecodeDone(t)
      PROVE  UNCHANGED allocVars
  BY <1>3 DEF Batch, GetLocal, CreateLocal, BatchDone, Return, Construct, Publish, DecodeDone
<1>4. QED
  BY <1>1, <1>2, <1>3 DEF Next

-----------------------------------------------------------------------------
(* The codecs *)

CodecTypeOK ==
  /\ made \subseteq Instances
  /\ born \in Seq({"none", "cupy"} \cup Customs)
  /\ local \in [Threads \X Instances -> Nat]
  /\ shared \in [Algorithms -> Nat]

\* What a task has in hand; a task is a record whose fields depend on its step.
TaskShape(t) ==
  /\ task[t].pc = "new" => task[t].inst \in Instances
  /\ task[t].pc = "get" => task[t].inst \in made
  /\ task[t].pc \in {"register", "construct", "publish"} => task[t].alg \in Algorithms
  /\ task[t].pc = "construct" => device # "none"
  /\ task[t].pc = "publish" => task[t].codec \in Nat

TasksTypeOK == DOMAIN task = Threads /\ \A t \in Threads : TaskShape(t)

\* The constructor of a CudaBytesBytesCodec returns once an allocator is installed.
MadeAfterDevice == made # {} => device # "none"

CodecInv == AllocInv /\ CodecTypeOK /\ TasksTypeOK /\ MadeAfterDevice /\ CodecsHaveAllocator

LEMMA CodecInitInv == Init => CodecInv
<1> SUFFICES ASSUME Init PROVE CodecInv
  OBVIOUS
<1>1. AllocInv
  BY AllocInitInv DEF Init
<1>2. CodecTypeOK /\ MadeAfterDevice /\ CodecsHaveAllocator
  BY DEF Init, CodecTypeOK, MadeAfterDevice, CodecsHaveAllocator
<1>3. TasksTypeOK
  BY DEF Init, TasksTypeOK, TaskShape, Idle
<1>4. QED
  BY <1>1, <1>2, <1>3 DEF CodecInv

\* A task that changes keeps the others'; made only grows and the device stays.
LEMMA TaskMoves ==
  ASSUME TasksTypeOK, NEW t \in Threads, NEW v, task' = [task EXCEPT ![t] = v],
         made \subseteq made', device # "none" => device' # "none",
         v.pc = "new" => v.inst \in Instances,
         v.pc = "get" => v.inst \in made',
         v.pc \in {"register", "construct", "publish"} => v.alg \in Algorithms,
         v.pc = "construct" => device' # "none",
         v.pc = "publish" => v.codec \in Nat
  PROVE  TasksTypeOK'
<1>1. /\ DOMAIN task' = Threads /\ task'[t] = v
      /\ \A u \in Threads : u # t => task'[u] = task[u]
  BY DEF TasksTypeOK
<1>2. \A u \in Threads : TaskShape(u)'
  BY <1>1 DEF TasksTypeOK, TaskShape
<1>3. QED
  BY <1>1, <1>2 DEF TasksTypeOK

\* Tasks that stay where they are keep their shape.
LEMMA TasksStay ==
  ASSUME TasksTypeOK, task' = task, made' = made, device # "none" => device' # "none"
  PROVE  TasksTypeOK'
  BY DEF TasksTypeOK, TaskShape

\* A codec is constructed with the device allocator of the moment.
LEMMA BornStep ==
  ASSUME CodecInv, device # "none", born' = Append(born, device)
  PROVE  /\ born' \in Seq({"none", "cupy"} \cup Customs) /\ CodecsHaveAllocator'
         /\ Len(born') = Len(born) + 1
<1>1. born \in Seq({"none", "cupy"} \cup Customs) /\ device \in {"none", "cupy"} \cup Customs
  BY DEF CodecInv, CodecTypeOK, AllocInv, AllocTypeOK
<1>2. /\ born' \in Seq({"none", "cupy"} \cup Customs)
      /\ Len(born') = Len(born) + 1 /\ DOMAIN born' = 1..Len(born')
      /\ \A c \in 1..Len(born) : born'[c] = born[c]
      /\ born'[Len(born) + 1] = device
  BY <1>1
<1>3. \A c \in 1..Len(born) : born[c] # "none"
  BY <1>1 DEF CodecInv, CodecsHaveAllocator
<1>4. ASSUME NEW c \in 1..Len(born') PROVE born'[c] # "none"
  <2>1. c \in 1..Len(born) \/ c = Len(born) + 1
    BY <1>1, <1>2
  <2>2. QED
    BY <2>1, <1>2, <1>3
<1>5. QED
  BY <1>2, <1>4 DEF CodecsHaveAllocator

LEMMA CodecPreserves == CodecInv /\ [Next]_vars => CodecInv'
<1> SUFFICES ASSUME CodecInv, [Next]_vars PROVE CodecInv'
  OBVIOUS
<1> USE DEF CodecInv
<1>1. AllocInv' /\ (device # "none" => device' # "none")
  BY NextMovesAlloc, AllocPreserves
<1>2. ASSUME made' = made, born' = born
      PROVE  MadeAfterDevice' /\ CodecsHaveAllocator'
  BY <1>1, <1>2 DEF MadeAfterDevice, CodecsHaveAllocator
<1>3. CASE UNCHANGED vars
  BY <1>1, <1>2, <1>3, TasksStay DEF vars, CodecTypeOK
<1>4. ASSUME NEW t \in Threads, AllocStep(t), UNCHANGED <<made, born, local, shared, task>>
      PROVE  CodecInv'
  BY <1>1, <1>2, <1>4, TasksStay DEF CodecTypeOK
<1>5. ASSUME NEW t \in Threads, New(t) \/ Custom(t) \/ CustomDone(t)
      PROVE  CodecInv'
  <2>1. UNCHANGED <<made, born, local, shared>>
    BY <1>5 DEF New, Custom, CustomDone
  <2>2. TasksTypeOK'
    <3>1. CASE New(t)
      <4>1. PICK i \in Instances \ made : task' = [task EXCEPT ![t] = [pc |-> "new", inst |-> i]]
        BY <3>1 DEF New, Becomes
      <4>2. QED
        BY <1>1, <2>1, <4>1, TaskMoves
    <3>2. CASE Custom(t)
      <4>1. task' = [task EXCEPT ![t] = [pc |-> "custom"]]
        BY <3>2 DEF Custom, Becomes
      <4>2. QED
        BY <1>1, <2>1, <4>1, TaskMoves
    <3>3. CASE CustomDone(t)
      <4>1. task' = [task EXCEPT ![t] = [pc |-> "idle"]]
        BY <3>3 DEF CustomDone, Becomes, Idle
      <4>2. QED
        BY <1>1, <2>1, <4>1, TaskMoves
    <3>4. QED
      BY <1>5, <3>1, <3>2, <3>3
  <2>3. QED
    BY <1>1, <1>2, <2>1, <2>2 DEF CodecTypeOK
<1>6. ASSUME NEW t \in Threads, NewDone(t)
      PROVE  CodecInv'
  <2>1. /\ task[t].pc = "new" /\ reg[t].pc = "done"
        /\ made' = made \cup {task[t].inst} /\ UNCHANGED <<born, local, shared>>
        /\ task' = [task EXCEPT ![t] = Idle]
    BY <1>6 DEF NewDone, Done, Becomes
  <2>2. device # "none" /\ task[t].inst \in Instances
    BY <2>1 DEF AllocInv, DeviceIsSet, TasksTypeOK, TaskShape
  <2>3. TasksTypeOK'
    BY <1>1, <2>1, TaskMoves DEF Idle
  <2>4. CodecTypeOK' /\ MadeAfterDevice' /\ CodecsHaveAllocator'
    BY <1>1, <2>1, <2>2 DEF CodecTypeOK, MadeAfterDevice, CodecsHaveAllocator
  <2>5. QED
    BY <1>1, <2>3, <2>4
<1>7. ASSUME NEW t \in Threads, Batch(t) \/ BatchDone(t) \/ Return(t) \/ DecodeDone(t) \/ GetLocal(t)
      PROVE  CodecInv'
  <2>1. UNCHANGED <<made, born, local, shared>>
    BY <1>7 DEF Batch, BatchDone, Return, DecodeDone, GetLocal
  <2>2. TasksTypeOK'
    <3>1. CASE Batch(t)
      <4>1. PICK i \in made, items \in Batches :
              \/ task' = [task EXCEPT ![t] = [pc |-> "returned", items |-> items, result |-> items]]
              \/ task' = [task EXCEPT ![t] = [pc |-> "get", inst |-> i, items |-> items]]
        BY <3>1 DEF Batch, Becomes
      <4>2. QED
        BY <1>1, <2>1, <4>1, TaskMoves
    <3>2. CASE BatchDone(t)
      <4>1. \E outs : task' = [task EXCEPT ![t] = [pc |-> "returned", items |-> task[t].items,
                                                   result |-> Spread(task[t].items, outs)]]
        BY <3>2, Zenon DEF BatchDone, Becomes
      <4>2. QED
        BY <1>1, <2>1, <4>1, TaskMoves
    <3>3. CASE Return(t) \/ DecodeDone(t)
      <4>1. task' = [task EXCEPT ![t] = [pc |-> "idle"]]
        BY <3>3 DEF Return, DecodeDone, Becomes, Idle
      <4>2. QED
        BY <1>1, <2>1, <4>1, TaskMoves
    <3>4. CASE GetLocal(t)
      <4>1. \E c : task' = [task EXCEPT ![t] = [pc |-> "using", codec |-> c, items |-> task[t].items]]
        BY <3>4, Zenon DEF GetLocal, Becomes
      <4>2. QED
        BY <1>1, <2>1, <4>1, TaskMoves
    <3>5. QED
      BY <1>7, <3>1, <3>2, <3>3, <3>4
  <2>3. QED
    BY <1>1, <1>2, <2>1, <2>2 DEF CodecTypeOK
<1>8. ASSUME NEW t \in Threads, CreateLocal(t)
      PROVE  CodecInv'
  <2>1. /\ task[t].pc = "get" /\ born' = Append(born, device)
        /\ local' = [local EXCEPT ![<<t, task[t].inst>>] = Len(born) + 1]
        /\ made' = made /\ shared' = shared
        /\ task' = [task EXCEPT ![t] = [pc |-> "using", codec |-> Len(born) + 1,
                                        items |-> task[t].items]]
    BY <1>8 DEF CreateLocal, Becomes, Slot
  <2>2. task[t].inst \in made /\ device # "none"
    BY <2>1 DEF TasksTypeOK, TaskShape, MadeAfterDevice
  <2>3. TasksTypeOK'
    BY <1>1, <2>1, TaskMoves
  <2>4. /\ born' \in Seq({"none", "cupy"} \cup Customs) /\ CodecsHaveAllocator'
        /\ Len(born) \in Nat
    BY <2>1, <2>2, BornStep DEF CodecTypeOK
  <2>5. CodecTypeOK' /\ MadeAfterDevice'
    BY <1>1, <2>1, <2>2, <2>4 DEF CodecTypeOK, MadeAfterDevice
  <2>6. QED
    BY <1>1, <2>3, <2>4, <2>5
<1>9. ASSUME NEW t \in Threads, Decode(t) \/ Registered(t)
      PROVE  CodecInv'
  <2>1. UNCHANGED <<made, born, local, shared>>
    BY <1>9 DEF Decode, Registered
  <2>2. TasksTypeOK'
    <3>1. CASE Decode(t)
      <4>1. \E a \in Algorithms :
              \/ task' = [task EXCEPT ![t] = [pc |-> "using", codec |-> shared[a], items |-> <<>>]]
              \/ task' = [task EXCEPT ![t] = [pc |-> "register", alg |-> a]]
        BY <3>1 DEF Decode, Becomes
      <4>2. QED
        BY <1>1, <2>1, <4>1, TaskMoves
    <3>2. CASE Registered(t)
      <4>1. /\ task[t].pc = "register" /\ reg[t].pc = "done"
            /\ task' = [task EXCEPT ![t] = [pc |-> "construct", alg |-> task[t].alg]]
        BY <3>2 DEF Registered, Done, Becomes
      <4>2. device # "none" /\ task[t].alg \in Algorithms
        BY <4>1 DEF AllocInv, DeviceIsSet, TasksTypeOK, TaskShape
      <4>3. QED
        BY <1>1, <2>1, <4>1, <4>2, TaskMoves
    <3>3. QED
      BY <1>9, <3>1, <3>2
  <2>3. QED
    BY <1>1, <1>2, <2>1, <2>2 DEF CodecTypeOK
<1>10. ASSUME NEW t \in Threads, Construct(t)
       PROVE  CodecInv'
  <2>1. /\ task[t].pc = "construct" /\ born' = Append(born, device)
        /\ UNCHANGED <<made, local, shared>>
        /\ task' = [task EXCEPT ![t] = [pc |-> "publish", alg |-> task[t].alg,
                                        codec |-> Len(born) + 1]]
    BY <1>10 DEF Construct, Becomes
  <2>2. device # "none" /\ task[t].alg \in Algorithms /\ Len(born) + 1 \in Nat
    BY <2>1 DEF TasksTypeOK, TaskShape, CodecTypeOK
  <2>3. TasksTypeOK'
    BY <1>1, <2>1, <2>2, TaskMoves
  <2>4. born' \in Seq({"none", "cupy"} \cup Customs) /\ CodecsHaveAllocator'
    BY <2>1, <2>2, BornStep
  <2>5. CodecTypeOK' /\ MadeAfterDevice'
    BY <1>1, <2>1, <2>4 DEF CodecTypeOK, MadeAfterDevice
  <2>6. QED
    BY <1>1, <2>3, <2>4, <2>5
<1>11. ASSUME NEW t \in Threads, Publish(t)
       PROVE  CodecInv'
  <2>1. /\ task[t].pc = "publish" /\ UNCHANGED <<made, born, local>>
        /\ shared' = [shared EXCEPT ![task[t].alg] = task[t].codec]
        /\ task' = [task EXCEPT ![t] = [pc |-> "using", codec |-> task[t].codec, items |-> <<>>]]
    BY <1>11 DEF Publish, Becomes
  <2>2. TasksTypeOK'
    BY <1>1, <2>1, TaskMoves
  <2>3. shared' \in [Algorithms -> Nat]
    BY <2>1 DEF CodecTypeOK, TasksTypeOK, TaskShape
  <2>4. QED
    BY <1>1, <1>2, <2>1, <2>2, <2>3 DEF CodecTypeOK
<1>12. QED
  BY <1>3, <1>4, <1>5, <1>6, <1>7, <1>8, <1>9, <1>10, <1>11 DEF Next

\* The codecs of every thread allocate where the last registration says.
THEOREM CodecsComeAfterAllocator == Spec => []CodecsHaveAllocator
<1>1. Init => CodecInv
  BY CodecInitInv
<1>2. CodecInv /\ [Next]_vars => CodecInv'
  BY CodecPreserves
<1>3. CodecInv => CodecsHaveAllocator
  BY DEF CodecInv
<1>4. QED
  BY <1>1, <1>2, <1>3, PTL DEF Spec

-----------------------------------------------------------------------------
(* A custom allocator, when its registration overlaps no default one *)

\* Registrations of the two kinds exclude each other.
Apart == \A t, u \in Threads : reg[t].pc \in DefaultPcs => reg[u].pc \notin CustomPcs

\* Who installs the default allocator holds the lock, and comes first.
DefaultIsFirst ==
  \A t \in Threads : reg[t].pc \in {"set", "flag"} =>
    /\ lock = t /\ customs = {}
    /\ reg[t].pc = "set" => ~registered

\* What a custom registration leaves behind.
CustomIsFlagged ==
  /\ customs # {} => registered /\ device \in Customs
  /\ \A t \in Threads : reg[t].pc = "customFlag" => device \in Customs

CustomInv == AllocTypeOK /\ Apart /\ DefaultIsFirst /\ CustomIsFlagged

LEMMA CustomInitInv == AllocInit => CustomInv
<1> SUFFICES ASSUME AllocInit PROVE CustomInv
  OBVIOUS
<1>1. AllocTypeOK
  BY AllocInitInv DEF AllocInv
<1>2. /\ customs = {} /\ reg = [t \in Threads |-> [pc |-> "idle"]]
  BY DEF AllocInit, NoCall
<1>3. Apart /\ DefaultIsFirst /\ CustomIsFlagged
  BY <1>2 DEF Apart, DefaultIsFirst, CustomIsFlagged, DefaultPcs
<1>4. QED
  BY <1>1, <1>3 DEF CustomInv

LEMMA CustomPreserves ==
  ASSUME ~CustomRaces, AllocInv, CustomInv, AllocMoves \/ UNCHANGED allocVars
  PROVE  CustomInv'
<1>0. AllocTypeOK'
  BY AllocPreserves DEF AllocInv
<1>1. CASE UNCHANGED allocVars
  BY <1>0, <1>1 DEF allocVars, CustomInv, Apart, DefaultIsFirst, CustomIsFlagged
<1>2. ASSUME NEW t \in Threads, Check(t) \/ Done(t) \/ StartDefault(t)
      PROVE  CustomInv'
  <2>1. /\ UNCHANGED <<device, registered, lock, customs>>
        /\ \E pc \in {"check", "lock", "done", "idle"} : reg' = [reg EXCEPT ![t] = [pc |-> pc]]
    BY <1>2 DEF Check, Done, StartDefault, To
  <2>2. /\ \A u \in Threads : u # t => reg'[u] = reg[u]
        /\ reg'[t].pc \in {"check", "lock", "done", "idle"}
    BY <2>1 DEF CustomInv, AllocTypeOK
  <2>3. reg'[t].pc \in DefaultPcs => \A u \in Threads : reg[u].pc \notin CustomPcs
    <3>1. CASE Check(t)
      BY <3>1 DEF Check, CustomInv, Apart, DefaultPcs
    <3>2. CASE StartDefault(t)
      BY <3>2 DEF StartDefault, At, CustomPcs
    <3>3. CASE Done(t)
      BY <3>3 DEF Done, To, DefaultPcs, CustomInv, AllocTypeOK
    <3>4. QED
      BY <1>2, <3>1, <3>2, <3>3
  <2>4. Apart'
    BY <2>2, <2>3 DEF CustomInv, Apart, CustomPcs, DefaultPcs
  <2>5. DefaultIsFirst' /\ CustomIsFlagged'
    BY <2>1, <2>2 DEF CustomInv, DefaultIsFirst, CustomIsFlagged
  <2>6. QED
    BY <1>0, <2>4, <2>5 DEF CustomInv
<1>3. ASSUME NEW t \in Threads, Acquire(t) \/ SetDefault(t) \/ Flag(t)
      PROVE  CustomInv'
  <2>1. /\ reg[t].pc \in DefaultPcs /\ customs' = customs
        /\ \E pc \in {"set", "flag", "done"} : reg' = [reg EXCEPT ![t] = [pc |-> pc]]
    BY <1>3 DEF Acquire, SetDefault, Flag, To, DefaultPcs
  <2>2. /\ \A u \in Threads : u # t => reg'[u] = reg[u]
        /\ reg'[t].pc \in {"set", "flag", "done"}
    BY <2>1 DEF CustomInv, AllocTypeOK
  <2>3. \A u \in Threads : reg[u].pc \notin CustomPcs
    BY <2>1 DEF CustomInv, Apart
  <2>4. Apart'
    BY <2>2, <2>3 DEF Apart, CustomPcs
  <2>5. CASE Acquire(t)
    <3>1. ~registered => customs = {}
      BY DEF CustomInv, CustomIsFlagged
    <3>2. /\ \A u \in Threads : reg[u].pc \notin {"set", "flag"}
          /\ device' = device /\ registered' = registered
          /\ reg'[t].pc = "set" => ~registered /\ lock' = t
      BY <2>5, NobodyAssumption DEF Acquire, To, CustomInv, DefaultIsFirst, AllocTypeOK
    <3>3. DefaultIsFirst'
      BY <2>1, <2>2, <3>1, <3>2, <2>5 DEF DefaultIsFirst, Acquire, To, CustomInv, AllocTypeOK
    <3>4. QED
      BY <1>0, <2>1, <2>2, <2>4, <3>2, <3>3 DEF CustomInv, CustomIsFlagged
  <2>6. CASE SetDefault(t)
    <3>1. /\ reg[t].pc = "set" /\ reg'[t].pc = "flag" /\ UNCHANGED <<registered, lock, customs>>
      BY <2>6 DEF SetDefault, To, CustomInv, AllocTypeOK
    <3>2. lock = t /\ customs = {}
      BY <3>1 DEF CustomInv, DefaultIsFirst
    <3>3. CustomIsFlagged'
      BY <2>2, <2>3, <3>1, <3>2 DEF CustomIsFlagged, CustomPcs
    <3>4. QED
      BY <1>0, <2>2, <2>4, <3>1, <3>2, <3>3 DEF CustomInv, DefaultIsFirst
  <2>7. CASE Flag(t)
    <3>1. /\ reg[t].pc = "flag" /\ reg'[t].pc = "done" /\ UNCHANGED <<device, customs>>
      BY <2>7 DEF Flag, To, CustomInv, AllocTypeOK
    <3>2. /\ lock = t /\ customs = {}
          /\ \A u \in Threads : u # t => reg[u].pc \notin {"set", "flag"}
      BY <3>1 DEF CustomInv, DefaultIsFirst
    <3>3. QED
      BY <1>0, <2>2, <2>4, <3>1, <3>2 DEF CustomInv, DefaultIsFirst, CustomIsFlagged
  <2>8. QED
    BY <1>3, <2>5, <2>6, <2>7
<1>4. ASSUME NEW t \in Threads, NEW c \in Customs, StartCustom(t, c)
      PROVE  CustomInv'
  <2>1. /\ UNCHANGED <<device, registered, lock, customs>>
        /\ reg'[t].pc = "custom" /\ \A u \in Threads : u # t => reg'[u] = reg[u]
        /\ \A u \in Threads : reg[u].pc \notin DefaultPcs
    BY <1>4 DEF StartCustom, At, DefaultPcs, CustomInv, AllocTypeOK
  <2>2. Apart' /\ DefaultIsFirst' /\ CustomIsFlagged'
    BY <2>1 DEF CustomInv, Apart, DefaultIsFirst, CustomIsFlagged, DefaultPcs
  <2>3. QED
    BY <1>0, <2>2 DEF CustomInv
<1>5. ASSUME NEW t \in Threads, SetCustom(t) \/ FlagCustom(t)
      PROVE  CustomInv'
  <2>1. /\ reg[t].pc \in CustomPcs /\ lock' = lock
        /\ \A u \in Threads : u # t => reg'[u] = reg[u]
    BY <1>5 DEF SetCustom, FlagCustom, To, CustomPcs, CustomInv, AllocTypeOK
  <2>2. reg[t] \in [pc : CustomPcs, allocator : Customs]
    BY <2>1 DEF CustomInv, AllocTypeOK, RegCalls, CustomPcs, DefaultPcs
  <2>3. \A u \in Threads : reg[u].pc \notin DefaultPcs
    BY <2>1 DEF CustomInv, Apart
  <2>4. /\ reg'[t].pc \in {"customFlag", "done"} /\ device' \in Customs \cup {device}
        /\ SetCustom(t) => device' \in Customs /\ registered' = registered /\ customs' = customs
        /\ FlagCustom(t) => registered' = TRUE /\ device' = device
    <3>1. reg \in [Threads -> RegCalls]
      BY DEF CustomInv, AllocTypeOK
    <3>2. QED
      BY <1>5, <2>2, <3>1 DEF SetCustom, FlagCustom, To
  <2>5. Apart' /\ DefaultIsFirst'
    BY <2>1, <2>3, <2>4 DEF Apart, DefaultIsFirst, DefaultPcs
  <2>6. FlagCustom(t) => device \in Customs
    BY DEF FlagCustom, CustomInv, CustomIsFlagged
  <2>7. CustomIsFlagged'
    BY <1>5, <2>1, <2>4, <2>6 DEF CustomInv, CustomIsFlagged
  <2>8. QED
    BY <1>0, <2>5, <2>7 DEF CustomInv
<1>6. QED
  BY <1>1, <1>2, <1>3, <1>4, <1>5 DEF AllocMoves, AllocStep

\* A custom allocator stays, unless its registration overlapped a default one.
THEOREM CustomStays == ASSUME ~CustomRaces PROVE Spec => []CustomAllocatorStays
<1>1. Init => CodecInv /\ CustomInv
  BY CodecInitInv, CustomInitInv DEF Init
<1>2. CodecInv /\ CustomInv /\ [Next]_vars => CodecInv' /\ CustomInv'
  BY CodecPreserves, NextMovesAlloc, CustomPreserves DEF CodecInv
<1>3. CustomInv => CustomAllocatorStays
  BY DEF CustomInv, CustomIsFlagged, CustomAllocatorStays
<1>4. QED
  BY <1>1, <1>2, <1>3, PTL DEF Spec

-----------------------------------------------------------------------------
(* No codec of a batch in two threads *)

\* A codec that is in no thread's slot.
Unowned(c) == c \in 1..Len(born) /\ \A p \in Threads \X Instances : local[p] # c

\* A codec from a slot of thread t's own.
Owned(t, c) == c # 0 /\ \E i \in Instances : local[<<t, i>>] = c

SlotsApart ==
  /\ \A p \in Threads \X Instances : local[p] <= Len(born)
  /\ \A p, q \in Threads \X Instances : local[p] = local[q] /\ local[p] # 0 => p = q

\* A batch has chunks and uses a codec of its thread; lowlevel.decode uses one
\* that is in no slot.
CodecInHand(t) ==
  /\ task[t].pc = "get" => task[t].items # <<>>
  /\ task[t].pc = "using" => IF task[t].items = <<>> THEN Unowned(task[t].codec)
                                                      ELSE Owned(t, task[t].codec)
  /\ task[t].pc = "publish" => Unowned(task[t].codec)

LocalInv ==
  /\ SlotsApart
  /\ \A a \in Algorithms : shared[a] = 0 \/ Unowned(shared[a])
  /\ \A t \in Threads : CodecInHand(t)

\* Of two threads with one codec both are in lowlevel.decode.
LEMMA CommonIsLowlevel ==
  ASSUME SlotsApart, NEW t \in Threads, NEW u \in Threads, t # u,
         CodecInHand(t), CodecInHand(u), task[t].pc = "using", task[u].pc = "using",
         task[t].codec = task[u].codec
  PROVE  LowlevelUses(t) /\ LowlevelUses(u)
<1>1. \A v \in Threads : \A c : ~(Owned(v, c) /\ Unowned(c))
  BY DEF Owned, Unowned
<1>2. \A c : ~(Owned(t, c) /\ Owned(u, c))
  <2>1. SUFFICES ASSUME NEW c, Owned(t, c), Owned(u, c) PROVE FALSE
    OBVIOUS
  <2>2. PICK i \in Instances, j \in Instances : local[<<t, i>>] = c /\ local[<<u, j>>] = c
    BY <2>1 DEF Owned
  <2>3. <<t, i>> = <<u, j>>
    BY <2>1, <2>2 DEF SlotsApart, Owned
  <2>4. QED
    BY <2>3
<1>3. task[t].items = <<>> /\ task[u].items = <<>>
  BY <1>1, <1>2 DEF CodecInHand
<1>4. QED
  BY <1>3 DEF LowlevelUses

\* A batch that gets as far as its codec has chunks.
LEMMA BatchHasChunks ==
  ASSUME NEW items, NonNull(items) # <<>>
  PROVE  items # <<>>
<1>1. SUFFICES ASSUME items = <<>> PROVE FALSE
  OBVIOUS
<1>2. NonNull(items) = InOrder({}, 0)
  BY <1>1 DEF NonNull
<1>3. InOrder({}, 0) \in Seq(Nat) /\ Len(InOrder({}, 0)) = 0
  BY InOrderRanks, RankCounts
<1>4. QED
  BY <1>2, <1>3

\* Where no slot is filled and no codec constructed, only task t and the
\* dictionary can go wrong.
LEMMA OneTaskMoves ==
  ASSUME LocalInv, TasksTypeOK, NEW t \in Threads, NEW v,
         UNCHANGED <<born, local>>, task' = [task EXCEPT ![t] = v],
         v.pc = "get" => v.items # <<>>,
         v.pc = "using" => IF v.items = <<>> THEN Unowned(v.codec) ELSE Owned(t, v.codec),
         v.pc = "publish" => Unowned(v.codec),
         \A a \in Algorithms : shared'[a] = 0 \/ Unowned(shared'[a])
  PROVE  LocalInv'
<1>1. /\ task'[t] = v /\ \A u \in Threads : u # t => task'[u] = task[u]
  BY DEF TasksTypeOK
<1>2. \A c : Unowned(c)' <=> Unowned(c)
  BY DEF Unowned
<1>3. ASSUME NEW u \in Threads, NEW c PROVE Owned(u, c)' <=> Owned(u, c)
  BY DEF Owned
<1>4. ASSUME NEW u \in Threads PROVE CodecInHand(u)'
  <2>1. CASE u = t
    BY <1>1, <1>2, <1>3, <2>1 DEF CodecInHand
  <2>2. CASE u # t
    <3>1. task'[u] = task[u] /\ CodecInHand(u)
      BY <1>1, <2>2 DEF LocalInv
    <3>2. QED
      BY <1>2, <1>3, <3>1 DEF CodecInHand
  <2>3. QED
    BY <2>1, <2>2
<1>5. SlotsApart' /\ \A a \in Algorithms : (shared[a] = 0 \/ Unowned(shared[a]))'
  BY <1>2 DEF LocalInv, SlotsApart
<1>6. QED
  BY <1>4, <1>5 DEF LocalInv

LEMMA LocalPreserves == CodecInv /\ LocalInv /\ [Next]_vars => LocalInv'
<1> SUFFICES ASSUME CodecInv, LocalInv, [Next]_vars PROVE LocalInv'
  OBVIOUS
<1>0. CodecTypeOK /\ TasksTypeOK
  BY DEF CodecInv
<1>1. \A a \in Algorithms : shared[a] = 0 \/ Unowned(shared[a])
  BY DEF LocalInv
<1>2. ASSUME UNCHANGED <<born, local, shared, task>>
      PROVE  LocalInv'
  BY <1>2 DEF LocalInv, SlotsApart, CodecInHand, Owned, Unowned
<1>3. ASSUME NEW t \in Threads,
             New(t) \/ NewDone(t) \/ Custom(t) \/ CustomDone(t) \/ Batch(t) \/ BatchDone(t)
               \/ Return(t) \/ Registered(t) \/ DecodeDone(t)
      PROVE  LocalInv'
  <2>1. UNCHANGED <<born, local, shared>>
    BY <1>3 DEF New, NewDone, Custom, CustomDone, Batch, BatchDone, Return, Registered, DecodeDone
  <2>2. ASSUME NEW v, task' = [task EXCEPT ![t] = v], v.pc \notin {"using", "publish"},
               v.pc = "get" => v.items # <<>>
        PROVE  LocalInv'
    BY <1>0, <1>1, <2>1, <2>2, OneTaskMoves
  <2>3. CASE New(t)
    <3>1. \E i \in Instances : task' = [task EXCEPT ![t] = [pc |-> "new", inst |-> i]]
      BY <2>3 DEF New, Becomes
    <3>2. QED
      BY <3>1, <2>2
  <2>4. CASE NewDone(t) \/ CustomDone(t) \/ Return(t) \/ DecodeDone(t)
    <3>1. task' = [task EXCEPT ![t] = [pc |-> "idle"]]
      BY <2>4 DEF NewDone, CustomDone, Return, DecodeDone, Becomes, Idle
    <3>2. QED
      BY <3>1, <2>2
  <2>5. CASE Custom(t)
    <3>1. task' = [task EXCEPT ![t] = [pc |-> "custom"]]
      BY <2>5 DEF Custom, Becomes
    <3>2. QED
      BY <3>1, <2>2
  <2>6. CASE Batch(t)
    <3>1. \E i \in made, items \in Batches :
            \/ task' = [task EXCEPT ![t] = [pc |-> "returned", items |-> items, result |-> items]]
            \/ /\ NonNull(items) # <<>>
               /\ task' = [task EXCEPT ![t] = [pc |-> "get", inst |-> i, items |-> items]]
      BY <2>6 DEF Batch, Becomes
    <3>2. QED
      BY <3>1, <2>2, BatchHasChunks
  <2>7. CASE BatchDone(t)
    <3>1. \E outs : task' = [task EXCEPT ![t] = [pc |-> "returned", items |-> task[t].items,
                                                 result |-> Spread(task[t].items, outs)]]
      BY <2>7, Zenon DEF BatchDone, Becomes
    <3>2. QED
      BY <3>1, <2>2
  <2>8. CASE Registered(t)
    <3>1. task' = [task EXCEPT ![t] = [pc |-> "construct", alg |-> task[t].alg]]
      BY <2>8 DEF Registered, Becomes
    <3>2. QED
      BY <3>1, <2>2
  <2>9. QED
    BY <1>3, <2>3, <2>4, <2>5, <2>6, <2>7, <2>8
<1>4. ASSUME NEW t \in Threads, GetLocal(t)
      PROVE  LocalInv'
  <2>1. /\ task[t].pc = "get" /\ local[<<t, task[t].inst>>] # 0
        /\ task' = [task EXCEPT ![t] = [pc |-> "using", codec |-> local[<<t, task[t].inst>>],
                                        items |-> task[t].items]]
        /\ UNCHANGED <<born, local, shared>>
    BY <1>4 DEF GetLocal, Becomes, Slot
  <2>2. task[t].inst \in Instances /\ task[t].items # <<>>
    BY <1>0, <2>1 DEF CodecTypeOK, TasksTypeOK, TaskShape, LocalInv, CodecInHand
  <2>3. Owned(t, local[<<t, task[t].inst>>])
    BY <2>1, <2>2 DEF Owned
  <2>4. QED
    BY <1>0, <1>1, <2>1, <2>2, <2>3, OneTaskMoves
<1>5. ASSUME NEW t \in Threads, Decode(t)
      PROVE  LocalInv'
  <2>1. PICK a \in Algorithms :
          \/ shared[a] # 0 /\ task' = [task EXCEPT ![t] = [pc |-> "using", codec |-> shared[a],
                                                           items |-> <<>>]]
          \/ task' = [task EXCEPT ![t] = [pc |-> "register", alg |-> a]]
    BY <1>5 DEF Decode, Becomes
  <2>2. UNCHANGED <<born, local, shared>>
    BY <1>5 DEF Decode
  <2>3. QED
    BY <1>0, <1>1, <2>1, <2>2, OneTaskMoves
<1>6. ASSUME NEW t \in Threads, Publish(t)
      PROVE  LocalInv'
  <2>1. /\ task[t].pc = "publish" /\ UNCHANGED <<born, local>>
        /\ shared' = [shared EXCEPT ![task[t].alg] = task[t].codec]
        /\ task' = [task EXCEPT ![t] = [pc |-> "using", codec |-> task[t].codec, items |-> <<>>]]
    BY <1>6 DEF Publish, Becomes
  <2>2. Unowned(task[t].codec)
    BY <2>1 DEF LocalInv, CodecInHand
  <2>3. \A a \in Algorithms : shared'[a] = 0 \/ Unowned(shared'[a])
    BY <1>0, <1>1, <2>1, <2>2 DEF CodecTypeOK
  <2>4. QED
    BY <1>0, <2>1, <2>2, <2>3, OneTaskMoves
<1>7. ASSUME NEW t \in Threads, CreateLocal(t) \/ Construct(t)
      PROVE  LocalInv'
  <2>0. PICK n \in Nat : n = Len(born) + 1
    BY <1>0 DEF CodecTypeOK
  <2>1. born' = Append(born, device) /\ shared' = shared
    BY <1>7 DEF CreateLocal, Construct
  <2>2. Len(born) \in Nat /\ Len(born') = n
    BY <1>0, <2>0, <2>1 DEF CodecTypeOK
  <2>3. \A p \in Threads \X Instances : local[p] \in Nat /\ local[p] <= Len(born)
    BY <1>0 DEF CodecTypeOK, LocalInv, SlotsApart
  <2>4. CASE CreateLocal(t)
    <3>1. /\ task[t].pc = "get" /\ local[<<t, task[t].inst>>] = 0
          /\ local' = [local EXCEPT ![<<t, task[t].inst>>] = n]
          /\ task' = [task EXCEPT ![t] = [pc |-> "using", codec |-> n, items |-> task[t].items]]
      BY <2>0, <2>4 DEF CreateLocal, Becomes, Slot
    <3>2. PICK s \in Threads \X Instances : s = <<t, task[t].inst>> /\ task[t].inst \in Instances
      BY <1>0, <3>1 DEF CodecTypeOK, TasksTypeOK, TaskShape
    <3>3. /\ local'[s] = n /\ local[s] = 0
          /\ \A p \in Threads \X Instances : p # s => local'[p] = local[p]
      BY <1>0, <3>1, <3>2 DEF CodecTypeOK
    <3>4. SlotsApart'
      BY <2>0, <2>2, <2>3, <3>3 DEF LocalInv, SlotsApart
    <3>5. \A c : Unowned(c) => Unowned(c)'
      BY <2>0, <2>2, <3>3 DEF Unowned
    <3>6. \A u \in Threads : \A c : Owned(u, c) => Owned(u, c)'
      <4>1. SUFFICES ASSUME NEW u \in Threads, NEW c, Owned(u, c) PROVE Owned(u, c)'
        OBVIOUS
      <4>2. PICK i \in Instances : c # 0 /\ local[<<u, i>>] = c
        BY <4>1 DEF Owned
      <4>3. <<u, i>> \in Threads \X Instances /\ <<u, i>> # s
        BY <4>2, <3>3
      <4>4. local'[<<u, i>>] = c
        BY <3>3, <4>2, <4>3
      <4>5. QED
        BY <4>2, <4>4 DEF Owned
    <3>7. Owned(t, n)'
      <4>1. local'[<<t, task[t].inst>>] = n /\ n # 0 /\ task[t].inst \in Instances
        BY <2>0, <2>2, <3>2, <3>3
      <4>2. QED
        BY <4>1 DEF Owned
    <3>8. /\ task'[t].pc = "using" /\ task'[t].codec = n /\ task'[t].items # <<>>
          /\ \A u \in Threads : u # t => task'[u] = task[u]
      BY <1>0, <3>1 DEF TasksTypeOK, LocalInv, CodecInHand
    <3>9. \A u \in Threads : CodecInHand(u)'
      BY <3>5, <3>6, <3>7, <3>8 DEF LocalInv, CodecInHand
    <3>10. QED
      BY <1>1, <2>1, <3>4, <3>5, <3>9 DEF LocalInv
  <2>5. CASE Construct(t)
    <3>1. /\ local' = local
          /\ task' = [task EXCEPT ![t] = [pc |-> "publish", alg |-> task[t].alg, codec |-> n]]
      BY <2>0, <2>5 DEF Construct, Becomes
    <3>2. \A c : Unowned(c) => Unowned(c)'
      BY <2>0, <2>2, <3>1 DEF Unowned
    <3>3. Unowned(n)'
      BY <2>0, <2>2, <2>3, <3>1 DEF Unowned
    <3>4. \A u \in Threads : \A c : Owned(u, c) => Owned(u, c)'
      BY <3>1 DEF Owned
    <3>5. /\ task'[t].pc = "publish" /\ task'[t].codec = n
          /\ \A u \in Threads : u # t => task'[u] = task[u]
      BY <1>0, <3>1 DEF TasksTypeOK
    <3>6. \A u \in Threads : CodecInHand(u)'
      BY <3>2, <3>3, <3>4, <3>5 DEF LocalInv, CodecInHand
    <3>7. SlotsApart'
      BY <2>0, <2>2, <2>3, <3>1 DEF LocalInv, SlotsApart
    <3>8. QED
      BY <1>1, <2>1, <3>2, <3>6, <3>7 DEF LocalInv
  <2>6. QED
    BY <1>7, <2>4, <2>5
<1>8. CASE UNCHANGED vars
  BY <1>2, <1>8 DEF vars
<1>9. ASSUME NEW t \in Threads, AllocStep(t), UNCHANGED <<made, born, local, shared, task>>
      PROVE  LocalInv'
  BY <1>2, <1>9
<1>10. QED
  BY <1>3, <1>4, <1>5, <1>6, <1>7, <1>8, <1>9 DEF Next

\* Of any number of threads, in batches of any instances and in lowlevel.decode,
\* two use one nvcomp.Codec at once only where both are in lowlevel.decode.
THEOREM CodecsStayInTheirThreads == Spec => []CodecsAreThreadLocal
<1>1. Init => CodecInv /\ LocalInv
  <2> SUFFICES ASSUME Init PROVE CodecInv /\ LocalInv
    OBVIOUS
  <2>1. CodecInv
    BY CodecInitInv
  <2>2. SlotsApart /\ \A a \in Algorithms : shared[a] = 0
    BY DEF Init, SlotsApart
  <2>3. \A t \in Threads : CodecInHand(t)
    BY DEF Init, Idle, CodecInHand
  <2>4. QED
    BY <2>1, <2>2, <2>3 DEF LocalInv
<1>2. CodecInv /\ LocalInv /\ [Next]_vars => CodecInv' /\ LocalInv'
  BY CodecPreserves, LocalPreserves
<1>3. LocalInv => CodecsAreThreadLocal
  BY CommonIsLowlevel DEF LocalInv, CodecsAreThreadLocal
<1>4. QED
  BY <1>1, <1>2, <1>3, PTL DEF Spec

-----------------------------------------------------------------------------
(* The positions of a batch *)

\* What a batch owes: the coded chunks where their inputs were, None elsewhere.
Answer(items) ==
  [i \in DOMAIN items |-> IF items[i] = Missing THEN Missing ELSE Coded(items[i])]

\* The outputs of the compacted batch, spread out again, are the answer.
LEMMA SpreadAnswers ==
  ASSUME NEW items \in Batches
  PROVE  /\ Spread(items, [k \in DOMAIN NonNull(items) |-> Coded(items[NonNull(items)[k]])])
              = Answer(items)
         /\ NonNull(items) = <<>> => items = Answer(items)
<1> DEFINE N == NonNull(items)
           S == {i \in DOMAIN items : items[i] # Missing}
           outs == [k \in DOMAIN N |-> Coded(items[N[k]])]
<1>1. PICK n \in Nat : n = Len(items) /\ items = [i \in 1..n |-> items[i]] /\ DOMAIN items = 1..n
  BY BatchesAssumption
<1>2. N \in Seq(Nat) /\ N = InOrder(S, n)
  BY <1>1, InOrderRanks DEF NonNull
<1>3. /\ \A u \in 1..n : u \in S => Rank(S, u) \in DOMAIN N /\ N[Rank(S, u)] = u
      /\ \A k \in DOMAIN N : N[k] \in S
  <2>1. DOMAIN N = 1..Len(InOrder(S, n))
    BY <1>2
  <2>2. QED
    BY <1>2, <2>1, InOrderRanks
<1> HIDE DEF N
<1>4. ASSUME NEW i \in 1..n
      PROVE  (IF \E k \in DOMAIN outs : N[k] = i
              THEN outs[CHOOSE k \in DOMAIN outs : N[k] = i] ELSE Missing) = Answer(items)[i]
  <2>1. DOMAIN outs = DOMAIN N
    OBVIOUS
  <2>2. CASE i \in S
    <3>1. \E k \in DOMAIN outs : N[k] = i
      BY <1>3, <2>1, <2>2
    <3>2. PICK k : k = (CHOOSE v \in DOMAIN outs : N[v] = i)
      OBVIOUS
    <3>3. k \in DOMAIN N /\ N[k] = i
      BY <2>1, <3>1, <3>2
    <3>4. outs[k] = Coded(items[i])
      BY <3>3
    <3>5. Answer(items)[i] = Coded(items[i])
      BY <1>1, <2>2 DEF Answer
    <3>6. QED
      BY <3>1, <3>2, <3>4, <3>5
  <2>3. CASE i \notin S
    <3>1. ~\E k \in DOMAIN outs : N[k] = i
      BY <1>3, <2>1, <2>3
    <3>2. Answer(items)[i] = Missing
      BY <1>1, <2>3 DEF Answer
    <3>3. QED
      BY <3>1, <3>2
  <2>4. QED
    BY <2>2, <2>3
<1>5. Spread(items, outs) = Answer(items)
  <2>1. Spread(items, outs) =
          [i \in 1..n |-> IF \E k \in DOMAIN outs : N[k] = i
                          THEN outs[CHOOSE k \in DOMAIN outs : N[k] = i] ELSE Missing]
    BY <1>1 DEF Spread, N
  <2>2. Answer(items) = [i \in 1..n |-> Answer(items)[i]]
    BY <1>1 DEF Answer
  <2>3. QED
    BY <1>4, <2>1, <2>2
<1>6. N = <<>> => items = Answer(items)
  <2>1. SUFFICES ASSUME N = <<>> PROVE items = Answer(items)
    OBVIOUS
  <2>2. \A i \in 1..n : items[i] = Missing
    BY <1>1, <1>3, <2>1
  <2>3. QED
    BY <1>1, <2>2 DEF Answer
<1>7. QED
  BY <1>5, <1>6 DEF N

\* A task that has a batch in hand, or its answer.
BatchShape(t) ==
  /\ task[t].pc = "get" => task[t].items \in Batches
  /\ task[t].pc = "using" => task[t].items = <<>> \/ task[t].items \in Batches
  /\ task[t].pc = "returned" => task[t].result = Answer(task[t].items)

BatchInv == DOMAIN task = Threads /\ \A t \in Threads : BatchShape(t)

\* A task that changes keeps the others' batches.
LEMMA BatchMoves ==
  ASSUME BatchInv, NEW t \in Threads, NEW v, task' = [task EXCEPT ![t] = v],
         v.pc = "get" => v.items \in Batches,
         v.pc = "using" => v.items = <<>> \/ v.items \in Batches,
         v.pc = "returned" => v.result = Answer(v.items)
  PROVE  BatchInv'
<1>1. /\ DOMAIN task' = Threads /\ task'[t] = v
      /\ \A u \in Threads : u # t => task'[u] = task[u]
  BY DEF BatchInv
<1>2. \A u \in Threads : BatchShape(u)'
  BY <1>1 DEF BatchInv, BatchShape
<1>3. QED
  BY <1>1, <1>2 DEF BatchInv

LEMMA BatchPreserves == BatchInv /\ [Next]_vars => BatchInv'
<1> SUFFICES ASSUME BatchInv, [Next]_vars PROVE BatchInv'
  OBVIOUS
<1>1. CASE task' = task
  BY <1>1 DEF BatchInv, BatchShape
<1>2. ASSUME NEW t \in Threads,
             \/ New(t) \/ NewDone(t) \/ Custom(t) \/ CustomDone(t) \/ Return(t)
             \/ Registered(t) \/ Construct(t) \/ DecodeDone(t)
      PROVE  BatchInv'
  <2>1. PICK v : task' = [task EXCEPT ![t] = v] /\ v.pc \notin {"get", "using", "returned"}
    <3>1. CASE New(t)
      BY <3>1 DEF New, Becomes
    <3>2. CASE NewDone(t) \/ Custom(t) \/ CustomDone(t) \/ Return(t) \/ DecodeDone(t)
      BY <3>2 DEF NewDone, Custom, CustomDone, Return, DecodeDone, Becomes, Idle
    <3>3. CASE Registered(t) \/ Construct(t)
      BY <3>3 DEF Registered, Construct, Becomes
    <3>4. QED
      BY <1>2, <3>1, <3>2, <3>3
  <2>2. QED
    BY <2>1, BatchMoves
<1>3. ASSUME NEW t \in Threads, Batch(t) PROVE BatchInv'
  <2>1. PICK i \in made, items \in Batches :
          task' = [task EXCEPT ![t] = IF NonNull(items) = <<>>
                                      THEN [pc |-> "returned", items |-> items, result |-> items]
                                      ELSE [pc |-> "get", inst |-> i, items |-> items]]
    BY <1>3 DEF Batch, Becomes
  <2>2. NonNull(items) = <<>> => items = Answer(items)
    BY SpreadAnswers
  <2>3. CASE NonNull(items) = <<>>
    BY <2>1, <2>2, <2>3, BatchMoves
  <2>4. CASE NonNull(items) # <<>>
    BY <2>1, <2>4, BatchMoves
  <2>5. QED
    BY <2>3, <2>4
<1>4. ASSUME NEW t \in Threads, GetLocal(t) \/ CreateLocal(t) PROVE BatchInv'
  <2>1. task[t].pc = "get"
        /\ \E c : task' = [task EXCEPT ![t] = [pc |-> "using", codec |-> c, items |-> task[t].items]]
    BY <1>4, Zenon DEF GetLocal, CreateLocal, Becomes
  <2>2. task[t].items \in Batches
    BY <2>1 DEF BatchInv, BatchShape
  <2>3. QED
    BY <2>1, <2>2, BatchMoves
<1>5. ASSUME NEW t \in Threads, BatchDone(t) PROVE BatchInv'
  <2> DEFINE items == task[t].items
             outs == [k \in DOMAIN NonNull(items) |-> Coded(items[NonNull(items)[k]])]
  <2>1. /\ task[t].pc = "using" /\ items # <<>>
        /\ task' = [task EXCEPT ![t] = [pc |-> "returned", items |-> items,
                                        result |-> Spread(items, outs)]]
    BY <1>5 DEF BatchDone, Becomes
  <2>2. items \in Batches
    BY <2>1 DEF BatchInv, BatchShape
  <2>3. Spread(items, outs) = Answer(items)
    BY <2>2, SpreadAnswers
  <2> HIDE DEF items, outs
  <2>4. QED
    BY <2>1, <2>3, BatchMoves
<1>6. ASSUME NEW t \in Threads, Decode(t) \/ Publish(t) PROVE BatchInv'
  <2>1. \E c, a : \/ task' = [task EXCEPT ![t] = [pc |-> "using", codec |-> c, items |-> <<>>]]
                  \/ task' = [task EXCEPT ![t] = [pc |-> "register", alg |-> a]]
    BY <1>6, Zenon DEF Decode, Publish, Becomes
  <2>2. QED
    BY <2>1, BatchMoves
<1>7. QED
  BY <1>1, <1>2, <1>3, <1>4, <1>5, <1>6 DEF Next, vars

\* Whatever chunks a batch of _batch_sync has and whichever of them are None, every
\* output is at the position of its input.
THEOREM BatchesKeepPositions == Spec => []BatchKeepsPositions
<1>1. Init => BatchInv
  BY DEF Init, Idle, BatchInv, BatchShape
<1>2. BatchInv => BatchKeepsPositions
  BY DEF BatchInv, BatchShape, BatchKeepsPositions, Answer
<1>3. QED
  BY <1>1, <1>2, BatchPreserves, PTL DEF Spec

-----------------------------------------------------------------------------
(* Bench *)

Rows == [point : Points, result : Answers]

Positions == [pc : {"start", "next"}]
        \cup [pc : {"reference"}, point : Points]
        \cup [pc : {"open", "gate"}, point : Points, ref : Answers]
        \cup [pc : {"timed", "emit"}, point : Points, result : Answers]

BenchTypeOK ==
  /\ cmd \in Commands /\ arm \in Benchmarks /\ gpu \in [Points -> Answers]
  /\ todo \in Seq(Points) /\ now \in Positions /\ configured \subseteq {"parent", "child"}
  /\ file \in Seq(Rows) /\ table \in Seq(Rows) /\ failed \subseteq Points
  /\ now.pc = "start" => /\ todo = <<>> /\ file = <<>> /\ table = <<>> /\ failed = {}
                         /\ configured = {}

\* A point is being measured.
Busy == now.pc \notin {"start", "next"}

\* What a row holds is right as far as the check of its benchmark reaches.
RightRow(r) == Verified(r.point, r.result) = "right"
AllRight(s) == \A i \in 1..Len(s) : RightRow(s[i])

\* A reference is decoded in a process not configured yet, so what has passed the
\* gate is right. A run has one point; a sweep gives each a child.
RightInv ==
  cmd.isolate \/ ~cmd.sweep =>
    /\ AllRight(file) /\ AllRight(table)
    /\ now.pc = "reference" => Worker \notin configured
    /\ now.pc \in {"open", "gate"} => now.ref = "right"
    /\ now.pc \in {"timed", "emit"} => RightRow(now)
    /\ ~cmd.isolate => /\ Busy => todo = <<>>
                       /\ now.pc = "next" /\ todo # <<>> => /\ Len(todo) = 1
                                                            /\ "parent" \notin configured

HasRow(s, p) == \E i \in 1..Len(s) : s[i].point = p

\* The points taken so far, in order.
Taken == NumPoints - Len(todo)

\* Where an isolated sweep stands: each point taken has a line in the file at most
\* once, and a row in the table or a failure, but for the one being measured.
SweepInv ==
  cmd.sweep /\ cmd.isolate /\ now.pc # "start" =>
    /\ Len(todo) <= NumPoints /\ \A i \in 1..Len(todo) : todo[i] = Taken + i
    /\ Busy => now.point = Taken /\ Taken \notin failed /\ ~HasRow(table, Taken)
    /\ Busy => (HasRow(file, Taken) <=> now.pc = "emit")
    /\ \A i, j \in 1..Len(file) : file[i].point = file[j].point => i = j
    /\ \A p \in Points : HasRow(table, p) => HasRow(file, p)
    /\ \A p \in Points : p > Taken => ~HasRow(file, p) /\ p \notin failed
    /\ \A p \in Points : \/ p > Taken \/ (Busy /\ p = Taken)
                         \/ (p \in failed <=> ~HasRow(table, p))

BenchInv == BenchTypeOK /\ RightInv /\ SweepInv

LEMMA PositionShape ==
  ASSUME BenchTypeOK
  PROVE  /\ now.pc \in {"start", "next", "reference", "open", "gate", "timed", "emit"}
         /\ Busy => now.point \in Points
         /\ now.pc \in {"open", "gate"} => now.ref \in Answers
         /\ now.pc \in {"timed", "emit"} => now.result \in Answers
BY DEF BenchTypeOK, Positions, Busy

\* A row appended.
LEMMA RowAppended ==
  ASSUME NEW s \in Seq(Rows), NEW r \in Rows
  PROVE  /\ Append(s, r) \in Seq(Rows)
         /\ AllRight(s) /\ RightRow(r) => AllRight(Append(s, r))
         /\ \A p : HasRow(Append(s, r), p) <=> HasRow(s, p) \/ p = r.point
         /\ (\A i, j \in 1..Len(s) : s[i].point = s[j].point => i = j) /\ ~HasRow(s, r.point)
              => \A i, j \in 1..Len(Append(s, r)) :
                    Append(s, r)[i].point = Append(s, r)[j].point => i = j
<1>1. PICK n \in Nat : n = Len(s)
  OBVIOUS
<1>2. PICK t : t = Append(s, r)
  OBVIOUS
<1>3. t \in Seq(Rows) /\ Len(t) = n + 1 /\ (\A i \in 1..n : t[i] = s[i]) /\ t[n + 1] = r
  BY <1>1, <1>2
<1>4. \A i \in 1..(n + 1) : i \in 1..n \/ i = n + 1
  OBVIOUS
<1>5. \A i \in 1..n : i \in 1..(n + 1)
  OBVIOUS
<1>6. n + 1 \in 1..(n + 1)
  OBVIOUS
<1>7. AllRight(s) /\ RightRow(r) => AllRight(t)
  BY <1>1, <1>3, <1>4 DEF AllRight
<1>8. ASSUME NEW p PROVE HasRow(t, p) <=> HasRow(s, p) \/ p = r.point
  BY <1>1, <1>3, <1>4, <1>5, <1>6 DEF HasRow
<1>9. (\A i, j \in 1..n : s[i].point = s[j].point => i = j) /\ ~HasRow(s, r.point)
         => \A i, j \in 1..(n + 1) : t[i].point = t[j].point => i = j
  BY <1>1, <1>3, <1>4 DEF HasRow
<1>10. QED
  BY <1>1, <1>2, <1>3, <1>7, <1>8, <1>9

LEMMA BenchInvInit == BenchInit => BenchInv
<1> SUFFICES ASSUME BenchInit PROVE BenchInv
  OBVIOUS
<1>1. now.pc = "start" /\ now \in Positions /\ cmd \in Commands /\ ~cmd.isolate
  BY DEF BenchInit, Positions, Commands
<1>2. BenchTypeOK
  <2>1. arm \in Benchmarks /\ gpu \in [Points -> Answers]
    BY DEF BenchInit, Benchmarks, Arms, Answers
  <2>2. QED
    BY <1>1, <2>1 DEF BenchInit, BenchTypeOK
<1>3. RightInv
  BY <1>1 DEF BenchInit, RightInv, AllRight, RightRow, Verified, Busy
<1>4. QED
  BY <1>1, <1>2, <1>3 DEF BenchInv, SweepInv

LEMMA CommandKeeps == ASSUME BenchInv, Command PROVE BenchInv'
<1>1. /\ file' = <<>> /\ table' = <<>> /\ failed' = {} /\ configured' = {}
      /\ cmd' \in Commands /\ arm' \in Benchmarks /\ gpu' \in [Points -> Answers]
      /\ now' = Rest /\ now'.pc = "next" /\ now' \in Positions
      /\ todo' = IF cmd'.sweep THEN [i \in Points |-> i] ELSE <<1>>
  BY DEF Command, BenchInv, BenchTypeOK, Rest, Positions
<1>2. NumPoints \in Nat /\ NumPoints >= 1 /\ Points = 1..NumPoints /\ 1 \in Points
  BY NumPointsAssumption DEF Points
<1>3. cmd'.sweep => /\ todo' \in Seq(Points) /\ Len(todo') = NumPoints
                    /\ \A i \in 1..NumPoints : todo'[i] = i
  BY <1>1, <1>2
<1>4. ~cmd'.sweep => todo' \in Seq(Points) /\ Len(todo') = 1
  BY <1>1, <1>2
<1>5. BenchTypeOK'
  BY <1>1, <1>3, <1>4 DEF BenchTypeOK, Commands
<1>6. RightInv'
  BY <1>1, <1>4 DEF RightInv, AllRight, RightRow, Verified, Busy
<1>7. SweepInv'
  <2>1. SUFFICES ASSUME cmd'.sweep PROVE SweepInv'
    BY DEF SweepInv
  <2>2. Taken' = 0 /\ ~Busy' /\ \A p \in Points : p > 0
    BY <1>1, <1>2, <1>3, <2>1 DEF Taken, Busy
  <2>3. \A p : ~HasRow(file, p)' /\ ~HasRow(table, p)'
    BY <1>1 DEF HasRow
  <2>4. QED
    BY <1>1, <1>2, <1>3, <2>1, <2>2, <2>3 DEF SweepInv
<1>8. QED
  BY <1>5, <1>6, <1>7 DEF BenchInv

LEMMA BeginKeeps == ASSUME BenchInv, Begin PROVE BenchInv'
<1>1. /\ now.pc = "next" /\ todo # <<>> /\ now' = [pc |-> "reference", point |-> Head(todo)]
      /\ todo' = Tail(todo) /\ configured' = configured \ {"child"}
      /\ UNCHANGED <<cmd, arm, gpu, file, table, failed>>
  BY DEF Begin
<1>2. PICK n \in Nat : n = Len(todo) /\ n >= 1
  BY <1>1 DEF BenchInv, BenchTypeOK
<1>3. /\ Head(todo) = todo[1] /\ Head(todo) \in Points /\ Tail(todo) \in Seq(Points)
      /\ Len(Tail(todo)) = n - 1 /\ \A i \in 1..(n - 1) : Tail(todo)[i] = todo[i + 1]
  BY <1>1, <1>2 DEF BenchInv, BenchTypeOK
<1>4. now'.pc = "reference" /\ now'.point = todo[1] /\ now' \in Positions /\ Busy' /\ ~Busy
  BY <1>1, <1>3 DEF Positions, Busy
<1>5. BenchTypeOK'
  BY <1>1, <1>3, <1>4 DEF BenchInv, BenchTypeOK
<1>6. RightInv'
  <2>1. cmd.isolate => Worker' \notin configured'
    BY <1>1 DEF Worker
  <2>2. ~cmd.sweep /\ ~cmd.isolate => Worker' \notin configured' /\ n = 1
    BY <1>1, <1>2 DEF Worker, BenchInv, RightInv
  <2>3. n = 1 => todo' = <<>>
    BY <1>1, <1>3
  <2>4. QED
    BY <1>1, <1>4, <2>1, <2>2, <2>3 DEF BenchInv, RightInv, AllRight, RightRow, Verified, Busy
<1>7. SweepInv'
  <2>1. SUFFICES ASSUME cmd.sweep, cmd.isolate PROVE SweepInv'
    BY <1>1 DEF SweepInv
  <2>2. /\ n <= NumPoints /\ NumPoints \in Nat /\ Taken = NumPoints - n /\ Taken' = Taken + 1
        /\ Points = 1..NumPoints /\ Taken' \in Points
    BY <1>1, <1>2, <1>3, <2>1, NumPointsAssumption DEF BenchInv, SweepInv, Taken, Points
  <2>3. /\ \A i \in 1..n : todo[i] = Taken + i
        /\ \A p \in Points : p > Taken => ~HasRow(file, p) /\ p \notin failed
        /\ \A p \in Points : p > Taken \/ (p \in failed <=> ~HasRow(table, p))
        /\ \A p \in Points : HasRow(table, p) => HasRow(file, p)
    BY <1>1, <1>2, <1>4, <2>1 DEF BenchInv, SweepInv
  <2>4. now'.point = Taken' /\ \A i \in 1..(n - 1) : todo'[i] = Taken' + i
    BY <1>1, <1>2, <1>3, <1>4, <2>2, <2>3
  <2>5. ~HasRow(file, Taken') /\ Taken' \notin failed /\ ~HasRow(table, Taken')
    BY <2>2, <2>3
  <2>6. \A p : (HasRow(file, p)' <=> HasRow(file, p)) /\ (HasRow(table, p)' <=> HasRow(table, p))
    BY <1>1 DEF HasRow
  <2>7. \A p \in Points : /\ p > Taken' => p > Taken
                          /\ p > Taken => p > Taken' \/ p = Taken'
    BY <2>2
  <2>8. HasRow(file, Taken)' <=> HasRow(file, Taken')
    BY <1>1 DEF HasRow
  <2>9. HasRow(table, Taken)' <=> HasRow(table, Taken')
    BY <1>1 DEF HasRow
  <2>10. \A i, j \in 1..Len(file') : file'[i].point = file'[j].point => i = j
    BY <1>1, <2>1 DEF BenchInv, SweepInv
  <2>11. Len(todo') <= NumPoints /\ Len(todo') = n - 1
    BY <1>1, <1>3, <2>2
  <2>12. QED
    BY <1>1, <1>4, <2>2, <2>3, <2>4, <2>5, <2>6, <2>7, <2>8, <2>9, <2>10, <2>11 DEF SweepInv
<1>8. QED
  BY <1>5, <1>6, <1>7 DEF BenchInv

\* A step inside a point that takes no other and writes no row.
LEMMA InsidePoint ==
  ASSUME BenchInv, Busy, now.pc # "emit", now' \in Positions, now'.pc \notin {"start", "next", "emit"},
         now'.point = now.point, configured' \subseteq {"parent", "child"},
         UNCHANGED <<cmd, arm, gpu, todo, file, table, failed>>, RightInv'
  PROVE  BenchInv'
<1>1. Busy' /\ now.pc # "start"
  BY DEF Busy
<1>2. BenchTypeOK'
  BY DEF BenchInv, BenchTypeOK
<1>3. SweepInv'
  <2>1. Taken' = Taken /\ \A p : (HasRow(file, p)' <=> HasRow(file, p)) /\ (HasRow(table, p)' <=> HasRow(table, p))
    BY DEF Taken, HasRow
  <2>2. (HasRow(file, Taken)' <=> HasRow(file, Taken)) /\ (HasRow(table, Taken)' <=> HasRow(table, Taken))
    BY DEF Taken, HasRow
  <2>3. QED
    BY <1>1, <2>1, <2>2 DEF BenchInv, SweepInv
<1>4. QED
  BY <1>2, <1>3 DEF BenchInv

LEMMA ReferenceKeeps == ASSUME BenchInv, Reference PROVE BenchInv'
<1>1. /\ now.pc = "reference" /\ Busy /\ now.point \in Points
      /\ now' = [pc |-> "open", point |-> now.point, ref |-> ReferenceReads(now.point)]
      /\ UNCHANGED <<cmd, arm, gpu, todo, configured, file, table, failed>>
  BY PositionShape DEF Reference, BenchInv, Busy
<1>2. ReferenceReads(now.point) \in Answers
  BY <1>1 DEF BenchInv, BenchTypeOK, ReferenceReads, PipelineReads, Answers
<1>3. /\ now' \in Positions /\ now'.pc = "open" /\ now'.point = now.point
      /\ now'.ref = ReferenceReads(now.point)
  BY <1>1, <1>2 DEF Positions
<1>4. RightInv'
  BY <1>1, <1>3 DEF BenchInv, RightInv, AllRight, RightRow, Verified, ReferenceReads, PipelineReads, Busy, Worker
<1>5. QED
  BY <1>1, <1>3, <1>4, InsidePoint DEF BenchInv, BenchTypeOK

LEMMA OpenKeeps == ASSUME BenchInv, Open PROVE BenchInv'
<1>1. /\ now.pc = "open" /\ Busy /\ now' = [now EXCEPT !.pc = "gate"]
      /\ configured' = IF arm[now.point] = "gpu" THEN configured \cup {Worker} ELSE configured
      /\ UNCHANGED <<cmd, arm, gpu, todo, file, table, failed>>
  BY DEF Open, Moves, Busy
<1>2. now \in [pc : {"open", "gate"}, point : Points, ref : Answers]
  BY <1>1 DEF BenchInv, BenchTypeOK, Positions
<1>3. now' \in Positions /\ now'.pc = "gate" /\ now'.point = now.point /\ now'.ref = now.ref
  BY <1>1, <1>2 DEF Positions
<1>4. RightInv'
  BY <1>1, <1>3 DEF BenchInv, RightInv, AllRight, RightRow, Verified, Busy, Worker
<1>5. configured' \subseteq {"parent", "child"}
  BY <1>1 DEF BenchInv, BenchTypeOK, Worker
<1>6. QED
  BY <1>1, <1>3, <1>4, <1>5, InsidePoint

LEMMA GateKeeps == ASSUME BenchInv, Gate PROVE BenchInv'
<1>1. /\ now.pc = "gate" /\ Busy /\ now.point \in Points
      /\ Verified(now.point, BodyReads(now.point)) = now.ref
      /\ now' = [pc |-> "timed", point |-> now.point, result |-> BodyReads(now.point)]
      /\ UNCHANGED <<cmd, arm, gpu, todo, configured, file, table, failed>>
  BY PositionShape DEF Gate, BenchInv, Busy
<1>2. BodyReads(now.point) \in Answers
  BY <1>1 DEF BenchInv, BenchTypeOK, BodyReads, PipelineReads, Answers
<1>3. /\ now' \in Positions /\ now'.pc = "timed" /\ now'.point = now.point
      /\ now'.result = BodyReads(now.point)
  BY <1>1, <1>2 DEF Positions
<1>4. RightInv'
  BY <1>1, <1>3 DEF BenchInv, RightInv, AllRight, RightRow, Verified, Busy
<1>5. QED
  BY <1>1, <1>3, <1>4, InsidePoint DEF BenchInv, BenchTypeOK

LEMMA RowIsTyped ==
  ASSUME BenchTypeOK, now.pc \in {"timed", "emit"}
  PROVE  Row \in Rows /\ Row.point = now.point /\ Row.result = now.result /\ Busy
         /\ (RightRow(Row) <=> RightRow(now))
BY DEF BenchTypeOK, Positions, Row, Rows, Busy, RightRow

\* A child's row goes to the results file before the child prints it.
LEMMA ChildWrites ==
  ASSUME BenchInv, Timed, cmd.isolate
  PROVE  BenchInv'
<1>1. /\ now.pc = "timed" /\ file' = Append(file, Row) /\ now' = [now EXCEPT !.pc = "emit"]
      /\ UNCHANGED <<cmd, arm, gpu, todo, configured, table, failed>>
  BY DEF Timed, RunWrites, Moves
<1>2. now \in [pc : {"timed", "emit"}, point : Points, result : Answers]
  BY <1>1 DEF BenchInv, BenchTypeOK, Positions
<1>3. now' \in Positions /\ now'.pc = "emit" /\ now'.point = now.point /\ now'.result = now.result
  BY <1>1, <1>2 DEF Positions
<1>4. Row \in Rows /\ Row.point = now.point /\ Row.result = now.result /\ Busy /\ Busy'
      /\ (RightRow(Row) <=> RightRow(now))
  BY <1>1, <1>3, RowIsTyped DEF BenchInv, Busy
<1>5. file \in Seq(Rows)
  BY DEF BenchInv, BenchTypeOK
<1>6. BenchTypeOK'
  BY <1>1, <1>3, <1>4, <1>5, RowAppended DEF BenchInv, BenchTypeOK
<1>7. RightInv'
  <2>1. AllRight(file) => (RightRow(now) => AllRight(Append(file, Row)))
    BY <1>4, <1>5, RowAppended
  <2>2. QED
    BY <1>1, <1>3, <2>1 DEF BenchInv, RightInv, AllRight, RightRow, Verified
<1>8. SweepInv'
  <2>1. SUFFICES ASSUME cmd.sweep PROVE SweepInv'
    BY <1>1 DEF SweepInv
  <2>2. SweepInv /\ now.pc # "start" /\ now.pc # "emit"
    BY <1>1 DEF BenchInv
  <2>3. now.point = Taken /\ Taken \notin failed /\ ~HasRow(table, Taken) /\ ~HasRow(file, Taken)
    BY <1>4, <2>1, <2>2 DEF SweepInv
  <2>4. \A p : HasRow(Append(file, Row), p) <=> HasRow(file, p) \/ p = Taken
    BY <1>4, <1>5, <2>3, RowAppended
  <2>5. \A i, j \in 1..Len(file) : file[i].point = file[j].point => i = j
    BY <2>1, <2>2 DEF SweepInv
  <2>6. \A i, j \in 1..Len(Append(file, Row)) :
           Append(file, Row)[i].point = Append(file, Row)[j].point => i = j
    BY <1>4, <1>5, <2>3, <2>5, RowAppended
  <2>7. Taken' = Taken /\ Taken \in Int
    BY <1>1, NumPointsAssumption DEF Taken, BenchInv, BenchTypeOK
  <2>8. \A p : /\ HasRow(file, p)' <=> HasRow(file, p) \/ p = Taken
               /\ HasRow(table, p)' <=> HasRow(table, p)
    BY <1>1, <2>4 DEF HasRow
  <2>9. HasRow(file, Taken)'
    BY <1>1, <2>4, <2>7 DEF HasRow
  <2>10. ~HasRow(table, Taken)'
    BY <1>1, <2>3, <2>7 DEF HasRow
  <2>11. \A i, j \in 1..Len(file') : file'[i].point = file'[j].point => i = j
    BY <1>1, <2>6
  <2>12. \A p \in Points : p > Taken => p # Taken
    BY <2>7
  <2>13. \A p \in Points : (HasRow(table, p) => HasRow(file, p))'
    BY <2>1, <2>2, <2>8 DEF SweepInv
  <2>14. \A p \in Points : p > Taken => ~HasRow(file, p)' /\ p \notin failed
    BY <2>1, <2>2, <2>8, <2>12 DEF SweepInv
  <2>15. \A p \in Points : p > Taken \/ p = Taken \/ (p \in failed <=> ~HasRow(table, p)')
    BY <2>1, <2>2, <2>8 DEF SweepInv
  <2>16. Len(todo) <= NumPoints /\ \A i \in 1..Len(todo) : todo[i] = Taken + i
    BY <2>1, <2>2 DEF SweepInv
  <2>17. QED
    BY <1>1, <1>3, <1>4, <2>3, <2>7, <2>9, <2>10, <2>11, <2>13, <2>14, <2>15, <2>16 DEF SweepInv
<1>9. QED
  BY <1>6, <1>7, <1>8 DEF BenchInv

LEMMA TimedKeeps == ASSUME BenchInv, Timed PROVE BenchInv'
<1> SUFFICES ASSUME ~cmd.isolate PROVE BenchInv'
  BY ChildWrites
<1>1. /\ now.pc = "timed" /\ now' = Rest /\ table' = Append(table, Row) /\ RunWrites
      /\ UNCHANGED <<cmd, arm, gpu, todo, configured, failed>>
  BY DEF Timed
<1>2. now' \in Positions /\ now'.pc = "next" /\ ~Busy'
  BY <1>1 DEF Rest, Positions, Busy
<1>3. Row \in Rows /\ Row.result = now.result /\ Busy /\ file \in Seq(Rows) /\ table \in Seq(Rows)
      /\ (RightRow(Row) <=> RightRow(now))
  BY <1>1, RowIsTyped DEF BenchInv, BenchTypeOK
<1>4. file' = file \/ file' = Append(file, Row)
  BY <1>1 DEF RunWrites
<1>5. BenchTypeOK'
  <2>1. Append(file, Row) \in Seq(Rows) /\ Append(table, Row) \in Seq(Rows)
    BY <1>3, RowAppended
  <2>2. file' \in Seq(Rows) /\ table' \in Seq(Rows)
    BY <1>1, <1>3, <1>4, <2>1
  <2>3. QED
    BY <1>1, <1>2, <2>2 DEF BenchInv, BenchTypeOK
<1>6. RightInv'
  <2>1. RightRow(now) =>
          (AllRight(file) => AllRight(Append(file, Row))) /\ (AllRight(table) => AllRight(Append(table, Row)))
    BY <1>3, RowAppended
  <2>2. RightRow(now) => (AllRight(file) => AllRight(file)') /\ (AllRight(table) => AllRight(table)')
    BY <1>1, <1>4, <2>1 DEF AllRight, RightRow, Verified
  <2>3. QED
    BY <1>1, <1>2, <1>3, <2>2 DEF BenchInv, RightInv
<1>7. SweepInv'
  BY <1>1 DEF SweepInv
<1>8. QED
  BY <1>5, <1>6, <1>7 DEF BenchInv

LEMMA AdoptKeeps == ASSUME BenchInv, Adopt PROVE BenchInv'
<1>1. /\ now.pc = "emit" /\ now' = Rest /\ table' = Append(table, Row)
      /\ file' = IF cmd.sweep THEN file ELSE Append(file, Row)
      /\ UNCHANGED <<cmd, arm, gpu, todo, configured, failed>>
  BY DEF Adopt
<1>2. now' \in Positions /\ now'.pc = "next" /\ ~Busy'
  BY <1>1 DEF Rest, Positions, Busy
<1>3. /\ Row \in Rows /\ Row.point = now.point /\ Row.result = now.result /\ Busy
      /\ file \in Seq(Rows) /\ table \in Seq(Rows) /\ (RightRow(Row) <=> RightRow(now))
  BY <1>1, RowIsTyped DEF BenchInv, BenchTypeOK
<1>4. BenchTypeOK'
  BY <1>1, <1>2, <1>3, RowAppended DEF BenchInv, BenchTypeOK
<1>5. RightInv'
  <2>1. RightRow(now) =>
          (AllRight(file) => AllRight(Append(file, Row))) /\ (AllRight(table) => AllRight(Append(table, Row)))
    BY <1>3, RowAppended
  <2>2. RightRow(now) => (AllRight(file) => AllRight(file)') /\ (AllRight(table) => AllRight(table)')
    BY <1>1, <2>1 DEF AllRight, RightRow, Verified
  <2>3. QED
    BY <1>1, <1>2, <1>3, <2>2 DEF BenchInv, RightInv
<1>6. SweepInv'
  <2>1. SUFFICES ASSUME cmd.sweep, cmd.isolate PROVE SweepInv'
    BY <1>1 DEF SweepInv
  <2>2. SweepInv /\ now.pc # "start" /\ file' = file
    BY <1>1, <2>1 DEF BenchInv
  <2>3. now.point = Taken /\ Taken \notin failed /\ HasRow(file, Taken)
    BY <1>1, <1>3, <2>1, <2>2 DEF SweepInv
  <2>4. \A p : HasRow(Append(table, Row), p) <=> HasRow(table, p) \/ p = Taken
    BY <1>3, <2>3, RowAppended
  <2>5. \A p : /\ HasRow(file, p)' <=> HasRow(file, p)
               /\ HasRow(table, p)' <=> HasRow(table, p) \/ p = Taken
    BY <1>1, <2>2, <2>4 DEF HasRow
  <2>6. Taken' = Taken
    BY <1>1 DEF Taken
  <2>7. \A p \in Points : (HasRow(table, p) => HasRow(file, p))'
    BY <2>1, <2>2, <2>3, <2>5 DEF SweepInv
  <2>8. \A p \in Points : p > Taken => ~HasRow(file, p)' /\ p \notin failed
    BY <2>1, <2>2, <2>5 DEF SweepInv
  <2>9. \A p \in Points : p > Taken \/ (p \in failed <=> ~HasRow(table, p)')
    BY <2>1, <2>2, <2>3, <2>5 DEF SweepInv
  <2>10. /\ Len(todo) <= NumPoints /\ \A i \in 1..Len(todo) : todo[i] = Taken + i
         /\ \A i, j \in 1..Len(file) : file[i].point = file[j].point => i = j
    BY <2>1, <2>2 DEF SweepInv
  <2>11. QED
    BY <1>1, <1>2, <2>2, <2>6, <2>7, <2>8, <2>9, <2>10 DEF SweepInv
<1>7. QED
  BY <1>4, <1>5, <1>6 DEF BenchInv

LEMMA FailsKeeps == ASSUME BenchInv, Fails PROVE BenchInv'
<1>1. /\ Busy /\ now' = Rest /\ failed' = failed \cup {now.point}
      /\ todo' = IF cmd.isolate THEN todo ELSE <<>>
      /\ UNCHANGED <<cmd, arm, gpu, configured, file, table>>
  BY DEF Fails, Busy
<1>2. now' \in Positions /\ now'.pc = "next" /\ ~Busy'
  BY <1>1 DEF Rest, Positions, Busy
<1>3. now.point \in Points
  BY <1>1, PositionShape DEF BenchInv
<1>4. BenchTypeOK'
  <2>1. todo' \in Seq(Points) /\ failed' \subseteq Points
    BY <1>1, <1>3 DEF BenchInv, BenchTypeOK
  <2>2. QED
    BY <1>1, <1>2, <2>1 DEF BenchInv, BenchTypeOK
<1>5. RightInv'
  BY <1>1, <1>2 DEF BenchInv, RightInv, AllRight, RightRow, Verified
<1>6. SweepInv'
  <2>1. SUFFICES ASSUME cmd.sweep, cmd.isolate PROVE SweepInv'
    BY <1>1 DEF SweepInv
  <2>2. SweepInv /\ now.pc # "start" /\ todo' = todo
    BY <1>1, <2>1 DEF BenchInv, Busy
  <2>3. now.point = Taken /\ ~HasRow(table, Taken) /\ failed' = failed \cup {Taken}
    BY <1>1, <2>1, <2>2 DEF SweepInv
  <2>4. \A p : (HasRow(file, p)' <=> HasRow(file, p)) /\ (HasRow(table, p)' <=> HasRow(table, p))
    BY <1>1 DEF HasRow
  <2>5. Taken' = Taken /\ Taken \in Int
    BY <2>2, NumPointsAssumption DEF Taken, BenchInv, BenchTypeOK
  <2>6. \A p \in Points : p > Taken => p # Taken
    BY <2>5
  <2>7. \A p \in Points : p > Taken => ~HasRow(file, p) /\ p \notin failed'
    BY <2>1, <2>2, <2>3, <2>6 DEF SweepInv
  <2>8. \A p \in Points : p > Taken \/ (p \in failed' <=> ~HasRow(table, p))
    BY <2>1, <2>2, <2>3 DEF SweepInv
  <2>9. /\ Len(todo) <= NumPoints /\ \A i \in 1..Len(todo) : todo[i] = Taken + i
        /\ \A i, j \in 1..Len(file) : file[i].point = file[j].point => i = j
        /\ \A p \in Points : HasRow(table, p) => HasRow(file, p)
    BY <2>1, <2>2 DEF SweepInv
  <2>10. QED
    BY <1>1, <1>2, <2>2, <2>4, <2>5, <2>7, <2>8, <2>9 DEF SweepInv
<1>7. QED
  BY <1>4, <1>5, <1>6 DEF BenchInv

LEMMA BenchStutters == ASSUME BenchInv, UNCHANGED benchVars PROVE BenchInv'
<1>1. UNCHANGED <<cmd, arm, gpu, todo, now, configured, file, table, failed>>
  BY DEF benchVars
<1>2. BenchTypeOK'
  BY <1>1 DEF BenchInv, BenchTypeOK
<1>3. RightInv'
  BY <1>1 DEF BenchInv, RightInv, AllRight, RightRow, Verified, Busy, Worker
<1>4. SweepInv'
  BY <1>1 DEF BenchInv, SweepInv, Busy, Taken, HasRow
<1>5. QED
  BY <1>2, <1>3, <1>4 DEF BenchInv

LEMMA BenchInvNext == BenchInv /\ [BenchNext]_benchVars => BenchInv'
BY CommandKeeps, BeginKeeps, ReferenceKeeps, OpenKeeps, GateKeeps, TimedKeeps, AdoptKeeps, FailsKeeps,
   BenchStutters DEF BenchNext

LEMMA BenchAlways == BenchSpec => []BenchInv
BY BenchInvInit, BenchInvNext, PTL DEF BenchSpec

-----------------------------------------------------------------------------

\* czarr-bench never reports a wrong result, of a run or an isolated sweep: the
\* reference of each is decoded before configure_gpu (RightInv).
THEOREM WrongResultsAreNotReported == BenchSpec => []WrongIsNeverReported
<1>1. ASSUME BenchInv PROVE WrongIsNeverReported
  <2>1. file \in Seq(Rows) /\ table \in Seq(Rows)
    BY <1>1 DEF BenchInv, BenchTypeOK
  <2>2. DOMAIN file = 1..Len(file) /\ DOMAIN table = 1..Len(table)
    BY <2>1
  <2>3. QED
    BY <1>1, <2>2 DEF BenchInv, RightInv, AllRight, RightRow, Verified, WrongIsNeverReported
<1>2. QED
  BY <1>1, BenchAlways, PTL

\* An isolated sweep writes each point to the results file once at most, and each
\* row of its table is there.
THEOREM RowsAreWrittenOnce == BenchSpec => []SweepRowsAreOnce
<1>1. ASSUME BenchInv PROVE SweepRowsAreOnce
  <2>1. file \in Seq(Rows) /\ table \in Seq(Rows)
    BY <1>1 DEF BenchInv, BenchTypeOK
  <2>2. DOMAIN file = 1..Len(file) /\ DOMAIN table = 1..Len(table)
    BY <2>1
  <2>3. now.pc = "start" => file = <<>> /\ table = <<>>
    BY <1>1 DEF BenchInv, BenchTypeOK
  <2>4. SUFFICES ASSUME cmd.sweep, cmd.isolate, NEW p \in Points
                 PROVE  /\ Cardinality(RowsOf(file, p)) <= 1
                        /\ RowsOf(table, p) # {} => RowsOf(file, p) # {}
    BY DEF SweepRowsAreOnce
  <2>5. \A i, j \in RowsOf(file, p) : i = j
    BY <1>1, <2>2, <2>3, <2>4 DEF RowsOf, BenchInv, SweepInv
  <2>6. RowsOf(file, p) = {} \/ \E i : RowsOf(file, p) = {i}
    BY <2>5
  <2>7. Cardinality(RowsOf(file, p)) <= 1
    <3>1. Cardinality(RowsOf(file, p)) \in {0, 1}
      <4>1. CASE RowsOf(file, p) = {}
        BY <4>1, FS_EmptySet
      <4>2. ASSUME NEW i, RowsOf(file, p) = {i} PROVE Cardinality(RowsOf(file, p)) = 1
        BY <4>2, FS_Singleton
      <4>3. QED
        BY <2>6, <4>1, <4>2
    <3>2. QED
      BY <3>1
  <2>8. HasRow(table, p) => HasRow(file, p)
    BY <1>1, <2>2, <2>3, <2>4 DEF HasRow, BenchInv, SweepInv
  <2>9. QED
    BY <2>2, <2>7, <2>8 DEF HasRow, RowsOf
<1>2. QED
  BY <1>1, BenchAlways, PTL

\* A point that fails does not end an isolated sweep: when it is over, each point
\* has failed or has its row.
THEOREM SweepsComplete == BenchSpec => []IsolatedSweepIsComplete
<1>1. ASSUME BenchInv PROVE IsolatedSweepIsComplete
  <2>1. SUFFICES ASSUME now.pc = "next", todo = <<>>, cmd.sweep, cmd.isolate, NEW p \in Points
                 PROVE  p \in failed <=> RowsOf(table, p) = {}
    BY DEF IsolatedSweepIsComplete, Over
  <2>2. table \in Seq(Rows) /\ DOMAIN table = 1..Len(table)
    BY <1>1 DEF BenchInv, BenchTypeOK
  <2>3. Taken = NumPoints /\ ~(p > Taken) /\ ~Busy
    BY <2>1, NumPointsAssumption DEF Taken, Points, Busy
  <2>4. p \in failed <=> ~HasRow(table, p)
    BY <1>1, <2>1, <2>3 DEF BenchInv, SweepInv
  <2>5. QED
    BY <2>2, <2>4 DEF HasRow, RowsOf
<1>2. QED
  BY <1>1, BenchAlways, PTL
=============================================================================
