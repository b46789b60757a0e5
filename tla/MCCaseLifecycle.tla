-------------------------- MODULE MCCaseLifecycle --------------------------
(***************************************************************************)
(* CaseLifecycle for TLC.                                                  *)
(***************************************************************************)
EXTENDS CaseLifecycle, TLC

\* A job of each transport and each way to place the agent.
UploadedAgent ==
  [placement |-> "upload", transport |-> "ssh", profile |-> "ram", tools |-> 1,
   keep |-> FALSE, occupied |-> FALSE]
OverWinRM == [UploadedAgent EXCEPT !.placement = "preinstalled", !.transport = "winrm"]
BesideForeignTool ==
  [UploadedAgent EXCEPT !.placement = "preinstalled", !.profile = "disk", !.occupied = TRUE]
Kept == [UploadedAgent EXCEPT !.placement = "preinstalled", !.tools = 0, !.keep = TRUE]
LocalMemory ==
  [UploadedAgent EXCEPT !.placement = "local", !.transport = "local", !.occupied = TRUE]
LocalDisk == [LocalMemory EXCEPT !.profile = "disk", !.tools = 0, !.occupied = FALSE]

AllJobs == {UploadedAgent, OverWinRM, BesideForeignTool, Kept, LocalMemory, LocalDisk}

\* A preinstalled agent reached over SSH, to which a tool is to be added.
ToolOverSSH == {[BesideForeignTool EXCEPT !.occupied = FALSE]}

\* The keys an examiner signs with are interchangeable.
KeySymmetry == Permutations(Keys)

=============================================================================
