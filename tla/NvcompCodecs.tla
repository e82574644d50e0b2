----------------------------- MODULE NvcompCodecs -----------------------------
(***************************************************************************)
(* Who uses which nvcomp.Codec: the instances of CudaBytesBytesCodec in    *)
(* src/czarr/codecs/base.py keep one per thread, _nvcomp_codec of          *)
(* lowlevel/decode.py one per algorithm in a module dictionary. Both       *)
(* install the allocator (Alloc) first. encode and decode run _batch_sync  *)
(* in worker threads.                                                      *)
(***************************************************************************)
EXTENDS Naturals, Sequences, Alloc, Ascending

CONSTANTS
  Instances,  \* codec objects of the zarr pipeline
  Algorithms, \* algorithms of lowlevel.decode
  Batches,    \* sequences of chunks, Missing among them
  Missing,    \* a chunk that is None
  MaxCodecs   \* bound: nvcomp.Codec objects

ASSUME BatchesAssumption ==
  \A items \in Batches : Len(items) \in Nat /\ items = [i \in 1..Len(items) |-> items[i]]
ASSUME MaxCodecsAssumption == MaxCodecs \in Nat

VARIABLES
  made,   \* the instances whose __post_init__ returned
  born,   \* nvcomp.Codec -> the device allocator when it was constructed
  local,  \* <<thread, instance>> -> _thread_local.codec, 0 when unset
  shared, \* _CODECS: algorithm -> its codec, 0 when unset
  task    \* thread -> what it runs

vars == <<device, registered, lock, reg, customs, made, born, local, shared, task>>

Idle == [pc |-> "idle"]
Becomes(t, v) == task' = [task EXCEPT ![t] = v]

-----------------------------------------------------------------------------
(* Construction of a CudaBytesBytesCodec, and a custom allocator *)

New(t) ==
  /\ task[t].pc = "idle"
  /\ \E i \in Instances \ made : Becomes(t, [pc |-> "new", inst |-> i])
  /\ StartDefault(t)
  /\ UNCHANGED <<made, born, local, shared>>

NewDone(t) ==
  /\ task[t].pc = "new" /\ Done(t)
  /\ made' = made \cup {task[t].inst}
  /\ Becomes(t, Idle)
  /\ UNCHANGED <<born, local, shared>>

Custom(t) ==
  /\ task[t].pc = "idle"
  /\ \E c \in Customs : StartCustom(t, c)
  /\ Becomes(t, [pc |-> "custom"])
  /\ UNCHANGED <<made, born, local, shared>>

CustomDone(t) ==
  /\ task[t].pc = "custom" /\ Done(t)
  /\ Becomes(t, Idle)
  /\ UNCHANGED <<made, born, local, shared>>

-----------------------------------------------------------------------------
(* encode and decode of a batch: _batch_sync in a worker thread *)

\* The positions of the chunks that are not None.
NonNull(items) == InOrder({i \in DOMAIN items : items[i] # Missing}, Len(items))

\* A batch without chunks answers without a codec.
Batch(t) ==
  /\ task[t].pc = "idle"
  /\ \E i \in made, items \in Batches :
       Becomes(t, IF NonNull(items) = <<>>
                  THEN [pc |-> "returned", items |-> items, result |-> items]
                  ELSE [pc |-> "get", inst |-> i, items |-> items])
  /\ UNCHANGED allocVars /\ UNCHANGED <<made, born, local, shared>>

\* _get_codec: this thread's, or a new one.
SharedSlotFault(t, i) == <<CHOOSE u \in Threads : TRUE, i>>
Slot(t, i) == <<t, i>>

GetLocal(t) ==
  /\ task[t].pc = "get"
  /\ local[Slot(t, task[t].inst)] # 0
  /\ Becomes(t, [pc |-> "using", codec |-> local[Slot(t, task[t].inst)], items |-> task[t].items])
  /\ UNCHANGED allocVars /\ UNCHANGED <<made, born, local, shared>>

CreateLocal(t) ==
  /\ task[t].pc = "get"
  /\ local[Slot(t, task[t].inst)] = 0
  /\ Len(born) < MaxCodecs
  /\ born' = Append(born, device)
  /\ local' = [local EXCEPT ![Slot(t, task[t].inst)] = Len(born) + 1]
  /\ Becomes(t, [pc |-> "using", codec |-> Len(born) + 1, items |-> task[t].items])
  /\ UNCHANGED allocVars /\ UNCHANGED <<made, shared>>

\* The batched call handles the chunks in order; its outputs go back to the
\* positions of their inputs, None stays None.
Coded(chunk) == <<"coded", chunk>>
PackedFault(items, outs) ==
  [i \in 1..Len(items) |-> IF i <= Len(outs) THEN outs[i] ELSE Missing]
Spread(items, outs) ==
  [i \in 1..Len(items) |->
     IF \E k \in DOMAIN outs : NonNull(items)[k] = i
     THEN outs[CHOOSE k \in DOMAIN outs : NonNull(items)[k] = i] ELSE Missing]

BatchDone(t) ==
  /\ task[t].pc = "using" /\ task[t].items # <<>>
  /\ LET items == task[t].items
         outs  == [k \in DOMAIN NonNull(items) |-> Coded(items[NonNull(items)[k]])]
     IN  Becomes(t, [pc |-> "returned", items |-> items, result |-> Spread(items, outs)])
  /\ UNCHANGED allocVars /\ UNCHANGED <<made, born, local, shared>>

Return(t) ==
  /\ task[t].pc = "returned"
  /\ Becomes(t, Idle)
  /\ UNCHANGED allocVars /\ UNCHANGED <<made, born, local, shared>>

-----------------------------------------------------------------------------
(* lowlevel.decode: _nvcomp_codec, in any thread, as AsyncArray calls it *)

Decode(t) ==
  /\ task[t].pc = "idle"
  /\ \E a \in Algorithms :
       IF shared[a] # 0
       THEN /\ Becomes(t, [pc |-> "using", codec |-> shared[a], items |-> <<>>])
            /\ UNCHANGED allocVars
       ELSE Becomes(t, [pc |-> "register", alg |-> a]) /\ StartDefault(t)
  /\ UNCHANGED <<made, born, local, shared>>

Registered(t) ==
  /\ task[t].pc = "register" /\ Done(t)
  /\ Becomes(t, [pc |-> "construct", alg |-> task[t].alg])
  /\ UNCHANGED <<made, born, local, shared>>

Construct(t) ==
  /\ task[t].pc = "construct"
  /\ Len(born) < MaxCodecs
  /\ born' = Append(born, device)
  /\ Becomes(t, [pc |-> "publish", alg |-> task[t].alg, codec |-> Len(born) + 1])
  /\ UNCHANGED allocVars /\ UNCHANGED <<made, local, shared>>

Publish(t) ==
  /\ task[t].pc = "publish"
  /\ shared' = [shared EXCEPT ![task[t].alg] = task[t].codec]
  /\ Becomes(t, [pc |-> "using", codec |-> task[t].codec, items |-> <<>>])
  /\ UNCHANGED allocVars /\ UNCHANGED <<made, born, local>>

DecodeDone(t) ==
  /\ task[t].pc = "using" /\ task[t].items = <<>>
  /\ Becomes(t, Idle)
  /\ UNCHANGED allocVars /\ UNCHANGED <<made, born, local, shared>>

-----------------------------------------------------------------------------
Init ==
  /\ AllocInit
  /\ made = {} /\ born = <<>>
  /\ local = [p \in Threads \X Instances |-> 0]
  /\ shared = [a \in Algorithms |-> 0]
  /\ task = [t \in Threads |-> Idle]

Next == \E t \in Threads :
  \/ New(t) \/ NewDone(t) \/ Custom(t) \/ CustomDone(t)
  \/ Batch(t) \/ GetLocal(t) \/ CreateLocal(t) \/ BatchDone(t) \/ Return(t)
  \/ Decode(t) \/ Registered(t) \/ Construct(t) \/ Publish(t) \/ DecodeDone(t)
  \/ AllocStep(t) /\ UNCHANGED <<made, born, local, shared, task>>

Spec == Init /\ [][Next]_vars

-----------------------------------------------------------------------------
(* Properties *)

\* "nvCOMP's Codec holds mutable scratch state + is documented thread-local":
\* two threads use one codec at once only where both are in lowlevel.decode,
\* whose _CODECS has one per algorithm; never one that is in a _batch_sync.
LowlevelUses(t) == task[t].pc = "using" /\ task[t].items = <<>>
CodecsAreThreadLocal ==
  \A t, u \in Threads :
     /\ t # u /\ task[t].pc = "using" /\ task[u].pc = "using"
     /\ task[t].codec = task[u].codec
     => LowlevelUses(t) /\ LowlevelUses(u)

\* "nvCOMP scratch + output buffers will then come from the same pool": no
\* codec is constructed before an allocator is installed.
CodecsHaveAllocator == \A c \in DOMAIN born : born[c] # "none"

\* A batch answers every chunk at its own position and leaves None where it was.
BatchKeepsPositions ==
  \A t \in Threads : task[t].pc = "returned" =>
    task[t].result = [i \in DOMAIN task[t].items |->
                        IF task[t].items[i] = Missing THEN Missing ELSE Coded(task[t].items[i])]
=============================================================================
