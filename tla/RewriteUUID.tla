----------------------------- MODULE RewriteUUID ----------------------------
(***************************************************************************)
(* The vdorewriteuuid tool (src/utils/vdo/user/vdorewriteuuid.c), run     *)
(* again and again against one backing store: main registers the status   *)
(* codes, parses its arguments, opens the VDO from the file, reads the    *)
(* volume geometry, puts a newly generated UUID into it and writes it      *)
(* back, freeing the VDO on every path after it was opened.                *)
(*                                                                         *)
(* The geometry is abstracted to its UUID and the rest of its fields.  A   *)
(* failed write may or may not have reached the disk before the error was  *)
(* reported, so both outcomes are possible.                               *)
(***************************************************************************)
EXTENDS Naturals

CONSTANTS
  UUIDs,    \* the UUIDs uuid_generate may produce (model values)
  NoUUID,   \* no UUID generated yet in this run
  Geometry  \* the volume geometry on disk when the first run starts

ASSUME NoUUID \notin UUIDs /\ Geometry.uuid \in UUIDs

\* What a run's command line can be, as processArgs sees it.
ArgLists == {"HELP", "BADOPTION", "NOBACKING", "EXTRA", "BACKING"}

VARIABLES
  pc,        \* where main is: "start", "args", "open", "geometry", "write", "exited"
  args,      \* this run's command line
  disk,      \* the geometry block on the backing store
  diskAtStart, \* the geometry block when this run started
  geometry,  \* main's VolumeGeometry, once loaded
  newUUID,   \* the UUID this run generated, or NoUUID
  vdoOpen,   \* makeVDOFromFile succeeded and freeVDOFromFile has not run
  exitCode   \* the status the run exited with

vars == <<pc, args, disk, diskAtStart, geometry, newUUID, vdoOpen, exitCode>>

\* errx and exit: the process ends with this status.
Exit(code) ==
  /\ pc' = "exited"
  /\ exitCode' = code

\* registerStatusCodes, failing or not.
RegisterStatusCodes(ok) ==
  /\ pc = "start"
  /\ IF ok THEN pc' = "args" /\ UNCHANGED exitCode ELSE Exit(1)
  /\ UNCHANGED <<args, disk, diskAtStart, geometry, newUUID, vdoOpen>>

(***************************************************************************)
(* processArgs: -h prints the help and exits successfully, any other       *)
(* option or a count of non-option arguments other than one prints the    *)
(* usage and fails.                                                        *)
(***************************************************************************)
ProcessArgs ==
  /\ pc = "args"
  /\ CASE args = "HELP"    -> Exit(0)
       [] args = "BACKING" -> pc' = "open" /\ UNCHANGED exitCode
       [] OTHER            -> Exit(1)
  /\ UNCHANGED <<args, disk, diskAtStart, geometry, newUUID, vdoOpen>>

\* openLogger, then makeVDOFromFile, failing or not.
MakeVDOFromFile(ok) ==
  /\ pc = "open"
  /\ IF ok THEN pc' = "geometry" /\ vdoOpen' = TRUE /\ UNCHANGED exitCode
           ELSE Exit(1) /\ UNCHANGED vdoOpen
  /\ UNCHANGED <<args, disk, diskAtStart, geometry, newUUID>>

\* loadVolumeGeometry; on failure the VDO is freed before the exit.
LoadVolumeGeometry(ok) ==
  /\ pc = "geometry"
  /\ IF ok THEN /\ pc' = "write" /\ geometry' = disk
                /\ UNCHANGED <<exitCode, vdoOpen>>
           ELSE Exit(1) /\ vdoOpen' = FALSE /\ UNCHANGED geometry
  /\ UNCHANGED <<args, disk, diskAtStart, newUUID>>

WriteVolumeGeometryUnloaded(u, result) ==
  LET new == [uuid |-> u, rest |-> "UNINITIALIZED"] IN
  /\ pc = "write"
  /\ geometry' = new
  /\ newUUID' = u
  /\ disk' = IF result = "UNWRITTEN" THEN disk ELSE new
  /\ vdoOpen' = FALSE
  /\ Exit(IF result = "OK" THEN 0 ELSE 1)
  /\ UNCHANGED <<args, diskAtStart>>

WriteVolumeGeometryIgnoringResult(u, result) ==
  LET new == [geometry EXCEPT !.uuid = u] IN
  /\ pc = "write"
  /\ geometry' = new
  /\ newUUID' = u
  /\ disk' = IF result = "UNWRITTEN" THEN disk ELSE new
  /\ vdoOpen' = FALSE
  /\ Exit(0)
  /\ UNCHANGED <<args, diskAtStart>>

(***************************************************************************)
(* uuid_generate, the memcpy into the geometry, writeVolumeGeometry, then  *)
(* freeVDOFromFile on either outcome and exit with the write's status.     *)
(* result is "OK", "UNWRITTEN" (failed before the block reached the disk) *)
(* or "WRITTEN" (reported failed after it did).                            *)
(***************************************************************************)
WriteVolumeGeometry(u, result) ==
  LET new == [geometry EXCEPT !.uuid = u] IN
  /\ pc = "write"
  /\ geometry' = new
  /\ newUUID' = u
  /\ disk' = IF result = "UNWRITTEN" THEN disk ELSE new
  /\ vdoOpen' = FALSE
  /\ Exit(IF result = "OK" THEN 0 ELSE 1)
  /\ UNCHANGED <<args, diskAtStart>>

\* The tool is run again, with any command line.
Rerun(a) ==
  /\ pc = "exited"
  /\ pc' = "start"
  /\ args' = a
  /\ diskAtStart' = disk
  /\ geometry' = Geometry
  /\ newUUID' = NoUUID
  /\ UNCHANGED <<disk, vdoOpen, exitCode>>

Init ==
  /\ pc = "start"
  /\ args \in ArgLists
  /\ disk = Geometry
  /\ diskAtStart = Geometry
  /\ geometry = Geometry
  /\ newUUID = NoUUID
  /\ vdoOpen = FALSE
  /\ exitCode = 0

Next ==
  \/ \E ok \in BOOLEAN : RegisterStatusCodes(ok)
  \/ ProcessArgs
  \/ \E ok \in BOOLEAN : MakeVDOFromFile(ok)
  \/ \E ok \in BOOLEAN : LoadVolumeGeometry(ok)
  \/ \E u \in UUIDs, r \in {"OK", "UNWRITTEN", "WRITTEN"} :
       WriteVolumeGeometry(u, r)
  \/ \E a \in ArgLists : Rerun(a)

Spec == Init /\ [][Next]_vars

-----------------------------------------------------------------------------

TypeOK ==
  /\ pc \in {"start", "args", "open", "geometry", "write", "exited"}
  /\ args \in ArgLists
  /\ disk.uuid \in UUIDs /\ disk.rest = Geometry.rest
  /\ newUUID \in UUIDs \cup {NoUUID}
  /\ vdoOpen \in BOOLEAN
  /\ exitCode \in {0, 1}

(***************************************************************************)
(* The exit status tells the caller what happened to the volume: a         *)
(* successful exit after a rewrite leaves exactly the run's new UUID on    *)
(* disk, a successful exit for --help leaves the disk as it was, and a     *)
(* failure before the write leaves it untouched.                           *)
(***************************************************************************)
ExitStatusDescribesDisk ==
  pc = "exited" =>
    CASE exitCode = 0 /\ newUUID # NoUUID ->
           disk = [diskAtStart EXCEPT !.uuid = newUUID]
      [] newUUID = NoUUID -> disk = diskAtStart
      [] OTHER -> TRUE

=============================================================================
