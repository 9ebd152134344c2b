----------------------------- MODULE SlabActor -----------------------------
(***************************************************************************)
(* applyToSlabs in src/utils/vdo/base/blockAllocator.c: a SlabAction is    *)
(* launched on every slab of a zone, the allocator's one completion counts *)
(* them back in through notifySlabActionComplete (and handleOperationError *)
(* for failed ones), and the actor's callback runs once they have all      *)
(* finished.  load, the SLABS drain step and the SLABS resume step all     *)
(* use it, one after another.                                              *)
(*                                                                         *)
(* A slab action either completes inside the launching loop (the slab had  *)
(* nothing to do) or later.  Everything here runs on the zone's thread, so *)
(* a later completion never runs while applyToSlabs is still launching.   *)
(***************************************************************************)
EXTENDS Naturals, FiniteSets

CONSTANT ZoneSlabs \* the slab numbers of this zone

VARIABLES
  slabActionCount, \* actor->slabActionCount
  launching,       \* actor->launchingSlabAction
  toLaunch,        \* slabs the iterator has not yet visited
  slabState,       \* the current SlabAction on each slab: NONE, RUNNING, DONE
  callbacks,       \* times actor->callback has run for the current application
  failed,          \* slabs whose action finished with an error
  operationResult  \* the allocator's admin state's operation result

vars == <<slabActionCount, launching, toLaunch, slabState, callbacks, failed,
          operationResult>>

\* getSlabIterator walks the zone's slabs from allocator->lastSlab down.
NextSlab == CHOOSE s \in toLaunch : \A t \in toLaunch : t <= s

\* The callback for one finished slab action, on a completion whose result
\* is ok or an error.  handleOperationError keeps the error in the admin
\* state and calls the completion's callback, notifySlabActionComplete,
\* which runs actor->callback once the count falls to zero outside the
\* launching loop.
HandleOperationErrorDropped(ok) ==
  operationResult' = operationResult

HandleOperationError(ok) ==
  operationResult' = IF ok THEN operationResult ELSE "ERROR"

NotifyIgnoringLaunch(count, isLaunching) ==
  IF count - 1 = 0 THEN callbacks + 1 ELSE callbacks

NotifySlabActionComplete(count, isLaunching) ==
  IF count - 1 = 0 /\ ~isLaunching THEN callbacks + 1 ELSE callbacks

SlabActionFinished(ok) ==
  /\ slabActionCount' = slabActionCount - 1
  /\ callbacks' = NotifySlabActionComplete(slabActionCount, launching)
  /\ HandleOperationError(ok)

(***************************************************************************)
(* applyToSlabs up to its loop: prepare the completion with                *)
(* notifySlabActionComplete and handleOperationError, set the launching    *)
(* flag and clear the open slab.  The caller starts it again only from the *)
(* previous application's callback, in a new admin operation (load, drain  *)
(* or resume), whose result starts out successful; drain and resume       *)
(* alternate for as long as the device runs.                              *)
(***************************************************************************)
ApplyToSlabs ==
  /\ ~launching
  /\ callbacks = 1 \/ \A s \in ZoneSlabs : slabState[s] = "NONE"
  /\ launching' = TRUE
  /\ toLaunch' = ZoneSlabs
  /\ slabState' = [s \in ZoneSlabs |-> "NONE"]
  /\ callbacks' = 0
  /\ failed' = {}
  /\ operationResult' = "OK"
  /\ UNCHANGED slabActionCount

(***************************************************************************)
(* One iteration of the loop: unsplice the slab, count it, and run the     *)
(* SlabAction, which may finish it at once (sync) with result ok.          *)
(***************************************************************************)
LaunchSlabActionUncounted(s, sync, ok) ==
  /\ launching /\ toLaunch # {} /\ s = NextSlab
  /\ toLaunch' = toLaunch \ {s}
  /\ IF sync
       THEN /\ slabState' = [slabState EXCEPT ![s] = "DONE"]
            /\ failed' = IF ok THEN failed ELSE failed \cup {s}
            /\ slabActionCount' = slabActionCount
            /\ callbacks' = NotifySlabActionComplete(slabActionCount + 1,
                                                     launching)
            /\ HandleOperationError(ok)
       ELSE /\ slabState' = [slabState EXCEPT ![s] = "RUNNING"]
            /\ slabActionCount' = slabActionCount
            /\ UNCHANGED <<callbacks, failed, operationResult>>
  /\ UNCHANGED launching

LaunchSlabAction(s, sync, ok) ==
  /\ launching /\ toLaunch # {} /\ s = NextSlab
  /\ toLaunch' = toLaunch \ {s}
  /\ IF sync
       THEN /\ slabState' = [slabState EXCEPT ![s] = "DONE"]
            /\ failed' = IF ok THEN failed ELSE failed \cup {s}
            /\ slabActionCount' = slabActionCount
            /\ callbacks' = NotifySlabActionComplete(slabActionCount + 1,
                                                     launching)
            /\ HandleOperationError(ok)
       ELSE /\ slabState' = [slabState EXCEPT ![s] = "RUNNING"]
            /\ slabActionCount' = slabActionCount + 1
            /\ UNCHANGED <<callbacks, failed, operationResult>>
  /\ UNCHANGED launching

\* The end of applyToSlabs: clear the flag, and run the callback if every
\* slab action has already finished.
FinishLaunchingWithoutCheck ==
  /\ launching /\ toLaunch = {}
  /\ launching' = FALSE
  /\ UNCHANGED <<callbacks, slabActionCount, toLaunch, slabState, failed,
                 operationResult>>

FinishLaunching ==
  /\ launching /\ toLaunch = {}
  /\ launching' = FALSE
  /\ callbacks' = IF slabActionCount = 0 THEN callbacks + 1 ELSE callbacks
  /\ UNCHANGED <<slabActionCount, toLaunch, slabState, failed,
                 operationResult>>

\* A slab action finishes later, on the zone's thread.
SlabActionCompletes(s, ok) ==
  /\ ~launching
  /\ slabState[s] = "RUNNING"
  /\ slabState' = [slabState EXCEPT ![s] = "DONE"]
  /\ failed' = IF ok THEN failed ELSE failed \cup {s}
  /\ SlabActionFinished(ok)
  /\ UNCHANGED <<launching, toLaunch>>

Init ==
  /\ slabActionCount = 0
  /\ launching = FALSE
  /\ toLaunch = {}
  /\ slabState = [s \in ZoneSlabs |-> "NONE"]
  /\ callbacks = 0
  /\ failed = {}
  /\ operationResult = "OK"

Next ==
  \/ ApplyToSlabs
  \/ \E s \in ZoneSlabs, sync, ok \in BOOLEAN : LaunchSlabAction(s, sync, ok)
  \/ FinishLaunching
  \/ \E s \in ZoneSlabs, ok \in BOOLEAN : SlabActionCompletes(s, ok)

(***************************************************************************)
(* The zone's thread finishes the loop it is running, and every slab's I/O *)
(* completes.  Whether the caller starts another operation is its own     *)
(* business, so ApplyToSlabs has no fairness.                             *)
(***************************************************************************)
Spec ==
  /\ Init /\ [][Next]_vars
  /\ WF_vars(\E s \in ZoneSlabs, sync, ok \in BOOLEAN :
               LaunchSlabAction(s, sync, ok))
  /\ WF_vars(FinishLaunching)
  /\ \A s \in ZoneSlabs : WF_vars(\E ok \in BOOLEAN : SlabActionCompletes(s, ok))

-----------------------------------------------------------------------------

TypeOK ==
  /\ slabActionCount \in 0 .. Cardinality(ZoneSlabs)
  /\ launching \in BOOLEAN
  /\ toLaunch \subseteq ZoneSlabs
  /\ slabState \in [ZoneSlabs -> {"NONE", "RUNNING", "DONE"}]
  /\ callbacks \in Nat
  /\ failed \subseteq ZoneSlabs
  /\ operationResult \in {"OK", "ERROR"}

(***************************************************************************)
(* notifySlabActionComplete and the end of applyToSlabs together run the   *)
(* actor's callback at most once per application, and only after the      *)
(* action has finished on every slab of the zone, whether the actions      *)
(* finish inside the launching loop, after it, or both; by then any slab's *)
(* error has reached the admin state's result (handleOperationError).      *)
(***************************************************************************)
CallbackOnceAfterAll ==
  /\ callbacks <= 1
  /\ callbacks = 1 =>
       /\ ~launching
       /\ \A s \in ZoneSlabs : slabState[s] = "DONE"
       /\ failed # {} => operationResult = "ERROR"

(***************************************************************************)
(* Every applyToSlabs eventually runs its callback, even when every slab   *)
(* action finishes inside the loop and no later completion will come.      *)
(***************************************************************************)
ApplyToSlabsCompletes ==
  launching ~> callbacks = 1

=============================================================================
