--------------------------- MODULE LogicalResize ---------------------------
(***************************************************************************)
(* Growing the logical size of a VDO (src/utils/vdo/base/                  *)
(* vdoResizeLogical.c): prepareToGrowLogical, performGrowLogical, the      *)
(* growLogicalCallback phase machine and its error handler                 *)
(* handleGrowthError, with the super block save and the block map growth   *)
(* each completing successfully or with an error.                          *)
(*                                                                         *)
(* The block map, the admin state and the completion machinery are not in  *)
(* this repository.  Their effect is abstracted to what this file relies   *)
(* on: the block map's current and prepared entry counts, an admin state   *)
(* that is suspended, running, or in the suspended operation, and a        *)
(* sub-task completion that runs the callback on success and the error     *)
(* handler on failure.                                                     *)
(***************************************************************************)
EXTENDS Naturals

CONSTANTS
  InitialLogicalBlocks, \* config.logicalBlocks when the VDO is loaded
  LogicalSizes          \* the sizes a resize may ask for

VARIABLES
  logicalBlocks,      \* vdo->config.logicalBlocks, in memory
  savedLogicalBlocks, \* config.logicalBlocks in the saved super block
  mapEntries,         \* getNumberOfBlockMapEntries(getBlockMap(vdo))
  mapNewEntries,      \* getNewEntryCount(getBlockMap(vdo)), 0 if none
  readOnly,           \* isReadOnly(vdo->readOnlyNotifier)
  adminState,         \* vdo->adminState: "NORMAL", "SUSPENDED" or "OPERATING"
  phase,              \* adminCompletion->phase
  pending,            \* what the sub-task is waiting for, "NONE" when idle
  result              \* the result of the last grow operation

vars == <<logicalBlocks, savedLogicalBlocks, mapEntries, mapNewEntries,
          readOnly, adminState, phase, pending, result>>

\* GrowLogicalPhase.
START == 0
GROW_BLOCK_MAP == 1
END == 2
ERROR == 3

Idle == pending = "NONE"

blockVars == <<logicalBlocks, savedLogicalBlocks, mapEntries, mapNewEntries>>

\* finishOperationWithResult: the suspended operation, if one was started,
\* ends and the sub-task reports its result.
FinishOperation(r) ==
  /\ adminState' = IF adminState = "OPERATING" THEN "SUSPENDED" ELSE adminState
  /\ pending' = "NONE"
  /\ result' = r

(***************************************************************************)
(* prepareToGrowLogical: refuse to shrink or keep the size, else have the  *)
(* block map prepare the new entries (prepareToGrowBlockMap).              *)
(***************************************************************************)
PrepareToGrowLogical(n) ==
  /\ Idle
  /\ n > logicalBlocks
  /\ mapNewEntries' = n
  /\ UNCHANGED <<logicalBlocks, savedLogicalBlocks, mapEntries, readOnly,
                 adminState, phase, pending, result>>

PerformGrowLogicalUnchecked(n) ==
  /\ Idle
  /\ phase' = START
  /\ pending' = "CALLBACK"
  /\ UNCHANGED <<blockVars, readOnly, adminState, result>>

\* performGrowLogical: the size must be the one the block map prepared.
PerformGrowLogical(n) ==
  /\ Idle
  /\ IF mapNewEntries # n
       THEN /\ result' = "VDO_PARAMETER_MISMATCH"
            /\ UNCHANGED <<phase, pending>>
       ELSE /\ phase' = START
            /\ pending' = "CALLBACK"
            /\ UNCHANGED result
  /\ UNCHANGED <<blockVars, readOnly, adminState>>

(***************************************************************************)
(* growLogicalCallback in phase START.  A read-only VDO fails the sub-task *)
(* (its error handler runs next).  Otherwise startOperationWithWaiter      *)
(* enters the suspended operation, or fails the admin completion when the  *)
(* VDO is not suspended; on success the new size is set in memory and the  *)
(* components are saved.                                                   *)
(***************************************************************************)
GrowLogicalStart ==
  /\ pending = "CALLBACK" /\ phase = START
  /\ phase' = START + 1
  /\ \/ /\ readOnly
        /\ pending' = "ERROR"
        /\ result' = "VDO_READ_ONLY"
        /\ UNCHANGED <<blockVars, adminState>>
     \/ /\ ~readOnly
        /\ adminState # "SUSPENDED"
        /\ pending' = "NONE"
        /\ result' = "VDO_INVALID_ADMIN_STATE"
        /\ UNCHANGED <<blockVars, adminState>>
     \/ /\ ~readOnly
        /\ adminState = "SUSPENDED"
        /\ adminState' = "OPERATING"
        /\ logicalBlocks' = mapNewEntries
        /\ pending' = "SAVE"
        /\ UNCHANGED <<savedLogicalBlocks, mapEntries, mapNewEntries, result>>
  /\ UNCHANGED readOnly

\* saveVDOComponentsAsync completes; a failed write leaves the old super
\* block on disk.
SaveVDOComponents(ok) ==
  /\ pending = "SAVE"
  /\ IF ok THEN /\ savedLogicalBlocks' = logicalBlocks
                /\ pending' = "CALLBACK"
           ELSE /\ pending' = "ERROR"
                /\ UNCHANGED savedLogicalBlocks
  /\ result' = IF ok THEN result ELSE "VDO_IO_ERROR"
  /\ UNCHANGED <<logicalBlocks, mapEntries, mapNewEntries, readOnly,
                 adminState, phase>>

\* growLogicalCallback in phase GROW_BLOCK_MAP: grow the block map.
GrowLogicalGrowBlockMap ==
  /\ pending = "CALLBACK" /\ phase = GROW_BLOCK_MAP
  /\ phase' = GROW_BLOCK_MAP + 1
  /\ pending' = "GROW"
  /\ UNCHANGED <<blockVars, readOnly, adminState, result>>

\* growBlockMap completes: on success the prepared entries become the
\* block map's; on failure the block map keeps its old size.
GrowBlockMap(ok) ==
  /\ pending = "GROW"
  /\ IF ok THEN /\ mapEntries' = mapNewEntries
                /\ mapNewEntries' = 0
                /\ pending' = "CALLBACK"
           ELSE /\ pending' = "ERROR"
                /\ UNCHANGED <<mapEntries, mapNewEntries>>
  /\ result' = IF ok THEN result ELSE "VDO_IO_ERROR"
  /\ UNCHANGED <<logicalBlocks, savedLogicalBlocks, readOnly, adminState,
                 phase>>

\* growLogicalCallback in phase END: finish the operation successfully.
GrowLogicalEnd ==
  /\ pending = "CALLBACK" /\ phase = END
  /\ phase' = END + 1
  /\ FinishOperation("VDO_SUCCESS")
  /\ UNCHANGED <<blockVars, readOnly>>

\* growLogicalCallback in phase ERROR: enter read-only mode and finish.
ErrorPhaseWithoutReadOnly(r) ==
  /\ phase' = ERROR + 1
  /\ UNCHANGED readOnly
  /\ FinishOperation(r)

ErrorPhase(r) ==
  /\ phase' = ERROR + 1
  /\ readOnly' = TRUE
  /\ FinishOperation(r)

(***************************************************************************)
(* handleGrowthError, which calls growLogicalCallback itself.  The phase   *)
(* was advanced by the callback that started the failed step, so it reads  *)
(* GROW_BLOCK_MAP exactly when the save (or the read-only check) failed:   *)
(* then the in-memory size goes back to the block map's and the block map  *)
(* growth is abandoned.                                                    *)
(***************************************************************************)
HandleGrowthErrorOnStartPhase ==
  /\ pending = "ERROR"
  /\ IF phase = START
       THEN /\ logicalBlocks' = mapEntries
            /\ mapNewEntries' = 0
       ELSE UNCHANGED <<logicalBlocks, mapNewEntries>>
  /\ ErrorPhase(result)
  /\ UNCHANGED <<savedLogicalBlocks, mapEntries>>

HandleGrowthErrorWithoutCallback ==
  /\ pending = "ERROR"
  /\ IF phase = GROW_BLOCK_MAP
       THEN /\ logicalBlocks' = mapEntries
            /\ mapNewEntries' = 0
       ELSE UNCHANGED <<logicalBlocks, mapNewEntries>>
  /\ phase' = ERROR
  /\ pending' = "NONE"
  /\ UNCHANGED <<savedLogicalBlocks, mapEntries, readOnly, adminState, result>>

HandleGrowthError ==
  /\ pending = "ERROR"
  /\ IF phase = GROW_BLOCK_MAP
       THEN /\ logicalBlocks' = mapEntries
            /\ mapNewEntries' = 0
       ELSE UNCHANGED <<logicalBlocks, mapNewEntries>>
  /\ ErrorPhase(result)
  /\ UNCHANGED <<savedLogicalBlocks, mapEntries>>

(***************************************************************************)
(* The rest of the VDO: performVDOSuspend and performVDOResume between     *)
(* admin operations, and read-only mode entered by any other component.    *)
(***************************************************************************)
PerformVDOSuspend ==
  /\ Idle /\ adminState = "NORMAL"
  /\ adminState' = "SUSPENDED"
  /\ UNCHANGED <<blockVars, readOnly, phase, pending, result>>

PerformVDOResume ==
  /\ Idle /\ adminState = "SUSPENDED"
  /\ adminState' = "NORMAL"
  /\ UNCHANGED <<blockVars, readOnly, phase, pending, result>>

EnterReadOnlyMode ==
  /\ ~readOnly
  /\ readOnly' = TRUE
  /\ UNCHANGED <<blockVars, adminState, phase, pending, result>>

Init ==
  /\ logicalBlocks = InitialLogicalBlocks
  /\ savedLogicalBlocks = InitialLogicalBlocks
  /\ mapEntries = InitialLogicalBlocks
  /\ mapNewEntries = 0
  /\ readOnly = FALSE
  /\ adminState = "NORMAL"
  /\ phase = START
  /\ pending = "NONE"
  /\ result = "VDO_SUCCESS"

Next ==
  \/ \E n \in LogicalSizes : PrepareToGrowLogical(n) \/ PerformGrowLogical(n)
  \/ GrowLogicalStart
  \/ \E ok \in BOOLEAN : SaveVDOComponents(ok) \/ GrowBlockMap(ok)
  \/ GrowLogicalGrowBlockMap
  \/ GrowLogicalEnd
  \/ HandleGrowthError
  \/ PerformVDOSuspend
  \/ PerformVDOResume
  \/ EnterReadOnlyMode

(***************************************************************************)
(* The admin thread runs every callback and error handler it is given, and *)
(* every save and block map growth completes, with success or an error.    *)
(* Requests from the user (prepare, perform, suspend, resume) are not      *)
(* fair.                                                                   *)
(***************************************************************************)
Spec ==
  /\ Init /\ [][Next]_vars
  /\ WF_vars(GrowLogicalStart) /\ WF_vars(GrowLogicalGrowBlockMap)
  /\ WF_vars(GrowLogicalEnd) /\ WF_vars(HandleGrowthError)
  /\ WF_vars(\E ok \in BOOLEAN : SaveVDOComponents(ok))
  /\ WF_vars(\E ok \in BOOLEAN : GrowBlockMap(ok))

-----------------------------------------------------------------------------

TypeOK ==
  /\ logicalBlocks \in LogicalSizes \cup {InitialLogicalBlocks}
  /\ savedLogicalBlocks \in LogicalSizes \cup {InitialLogicalBlocks}
  /\ mapEntries \in LogicalSizes \cup {InitialLogicalBlocks}
  /\ mapNewEntries \in LogicalSizes \cup {0}
  /\ readOnly \in BOOLEAN
  /\ adminState \in {"NORMAL", "SUSPENDED", "OPERATING"}
  /\ phase \in START .. ERROR + 1
  /\ pending \in {"NONE", "CALLBACK", "SAVE", "GROW", "ERROR"}

(***************************************************************************)
(* Between operations the in-memory logical size is one the VDO has        *)
(* stored: the size in the saved super block or the block map's entry      *)
(* count.  handleGrowthError puts the block map's size back when the save  *)
(* of the new size failed, and keeps the saved size when growBlockMap      *)
(* failed.                                                                 *)
(***************************************************************************)
LogicalSizeBacked ==
  Idle => logicalBlocks \in {savedLogicalBlocks, mapEntries}

(***************************************************************************)
(* A VDO that is still writable between operations has one logical size    *)
(* everywhere: in memory, in the saved super block and in the block map.   *)
(* Every failure that leaves them apart ends in read-only mode (phase      *)
(* ERROR of growLogicalCallback).                                          *)
(***************************************************************************)
WritableSizeConsistent ==
  (Idle /\ ~readOnly) =>
    logicalBlocks = savedLogicalBlocks /\ logicalBlocks = mapEntries

(***************************************************************************)
(* The comment in handleGrowthError: when it runs in phase GROW_BLOCK_MAP  *)
(* the new size was not written to the super block, so restoring the      *)
(* block map's size makes the in-memory config match the super block.      *)
(* Stated as: between operations the in-memory size is the saved one.     *)
(***************************************************************************)
ConfigMatchesSuperBlock ==
  Idle => logicalBlocks = savedLogicalBlocks

(***************************************************************************)
(* Every grow logical that starts finishes, and leaves the suspended       *)
(* operation: the error handler re-enters the callback, which alone calls  *)
(* finishOperationWithResult.                                              *)
(***************************************************************************)
GrowLogicalFinishes ==
  ~Idle ~> (Idle /\ adminState # "OPERATING")

=============================================================================
