-------------------------- MODULE WorkflowDefinitions --------------------------
(***************************************************************************)
(* The definitions of internal/workflow/registry.go, and the guided create *)
(* order, as data for SealedWorkflow: one operator per step function, one  *)
(* per *Def function.                                                      *)
(*                                                                         *)
(* A step that takes its arguments from Params reads Params, also when it  *)
(* adds facts of an earlier result (a placement, a state); it reads an     *)
(* earlier step when all it says comes from that step's result.  What an   *)
(* upstream answers, what a CheckResult or a SkipIf decides from it, and   *)
(* the forms' options are left open.                                       *)
(***************************************************************************)
EXTENDS SealedWorkflow

step == [type |-> "tool", skip |-> 0, optional |-> FALSE, rewrites |-> FALSE, mutates |-> FALSE,
         polls |-> FALSE, reads |-> 0, promotes |-> 0, mode |-> "plain", from |-> 0]

query == step
\* BuildArgs or CheckResult stores in Params what it found out.
normalizing == [step EXCEPT !.rewrites = TRUE]
of(r) == [step EXCEPT !.reads = r]
readback(r) == [of(r) EXCEPT !.optional = TRUE]
resolve(r) == [of(r) EXCEPT !.type = "resolve"]
mutation == [step EXCEPT !.mutates = TRUE]
confirm == [step EXCEPT !.type = "confirm"]
skippable(s, i) == [s EXCEPT !.skip = i]
optional(s) == [s EXCEPT !.optional = TRUE]

-----------------------------------------------------------------------------
(* Operations on one instance.                                               *)

stepQuerySupportZones == optional(query)

stepQueryInstance == query
stepConfirmStop == confirm
stepStopInstance == mutation
StopInstanceDef == <<stepQueryInstance, stepQuerySupportZones, stepConfirmStop, stepStopInstance>>

\* The specification before the start is kept for the result.
stepQueryForStart == normalizing
stepConfirmStart == confirm
stepStartInstance == mutation
StartInstanceDef == <<stepQueryForStart, stepConfirmStart, stepStartInstance>>

\* The start time before the reboot is kept for the result.
stepQueryForReboot == normalizing
stepConfirmReboot == confirm
stepRebootInstance == mutation
RebootInstanceDef == <<stepQueryForReboot, stepQuerySupportZones, stepConfirmReboot, stepRebootInstance>>

stepQueryForRename == query
stepConfirmRename == confirm
stepRenameInstance == mutation
RenameInstanceDef == <<stepQueryForRename, stepQuerySupportZones, stepConfirmRename, stepRenameInstance>>

stepQueryForReset == query
stepConfirmReset == confirm
stepResetPassword == mutation
\* Not optional: a run whose read back fails is reported as failed.
stepVerifyReset == query
ResetPasswordDef == <<stepQueryForReset, stepQuerySupportZones, stepConfirmReset, stepResetPassword,
                      stepVerifyReset>>

\* One of the four image catalogues answers for the target image.
stepQueryForReinstall == query
stepQueryPlatformTargetImage(i) == skippable(optional(query), i)
stepQueryCommunityTargetImage(i) == skippable(optional(query), i)
stepQueryCustomTargetImage(i) == skippable(optional(query), i)
stepQuerySharingTargetImage(i) == skippable(optional(query), i)
\* The card writes the id of the image it names.
stepConfirmReinstall == [confirm EXCEPT !.rewrites = TRUE]
stepReinstallInstance == mutation
ReinstallInstanceDef ==
    <<stepQueryForReinstall, stepQuerySupportZones, stepQueryPlatformTargetImage(3),
      stepQueryCommunityTargetImage(4), stepQueryCustomTargetImage(5), stepQuerySharingTargetImage(6),
      stepConfirmReinstall, stepReinstallInstance>>

\* The current specification, then the target checked against the catalogue.
stepQueryForResize == normalizing
stepQueryResizeAvailableSpecs == normalizing
stepCheckResizeCapacity == query
stepQueryResizePrice == query
stepConfirmResize == confirm
stepResizeInstance == mutation
ResizeInstanceDef ==
    <<stepQueryForResize, stepQuerySupportZones, stepQueryResizeAvailableSpecs, stepCheckResizeCapacity,
      stepQueryResizePrice, stepConfirmResize, stepResizeInstance>>

\* The target charge type is read once, the current one is kept in Params.
stepQueryForSwitchChargeType == normalizing
stepQuerySwitchChargeTypePrice == query
stepConfirmSwitchChargeType == confirm
stepSwitchChargeType == mutation
stepReadbackSwitchChargeType == optional(query)
SwitchChargeTypeDef ==
    <<stepQueryForSwitchChargeType, stepQuerySupportZones, stepQuerySwitchChargeTypePrice,
      stepConfirmSwitchChargeType, stepSwitchChargeType, stepReadbackSwitchChargeType>>

stepQueryInstanceForPorts == query
stepResolvePortPlan == resolve(0)
\* The plan on the card is what the update sends.
stepConfirmPortPlan(plan) == [confirm EXCEPT !.promotes = plan]
stepQueryInstanceForPortPrecondition == stepQueryInstanceForPorts
stepUpdateInstancePorts == mutation
stepVerifyInstancePorts == [query EXCEPT !.polls = TRUE]
UpdateInstancePortsDef ==
    <<stepQueryInstanceForPorts, stepQuerySupportZones, stepResolvePortPlan, stepConfirmPortPlan(3),
      stepQueryInstanceForPortPrecondition, stepUpdateInstancePorts, stepVerifyInstancePorts>>

\* The relative time of the request is resolved for the card, and again after it.
stepQueryForScheduler == query
stepResolveSchedulerDraft == resolve(0)
stepConfirmScheduler == confirm
stepFinalizeSchedulerAfterConfirm(draft) == resolve(draft)
stepSetStopScheduler(final) == [mutation EXCEPT !.reads = final]
stepReadbackStopScheduler == optional(query)
SetStopSchedulerDef ==
    <<stepQueryForScheduler, stepResolveSchedulerDraft, stepConfirmScheduler,
      stepFinalizeSchedulerAfterConfirm(2), stepSetStopScheduler(4), stepReadbackStopScheduler>>

stepQueryForCancelScheduler == query
stepConfirmCancelScheduler == confirm
stepDeleteStopScheduler == mutation
stepReadbackCancelledScheduler == optional(query)
CancelStopSchedulerDef == <<stepQueryForCancelScheduler, stepConfirmCancelScheduler,
                            stepDeleteStopScheduler, stepReadbackCancelledScheduler>>

-----------------------------------------------------------------------------
(* Disks, images, file storage and the network.                              *)

\* The size asked for, or the product's default.
stepQueryForDisk == normalizing
stepQueryCreateDiskPrice == query
stepConfirmCreateDisk == confirm
stepCreateAndAttachDisk == mutation
CreateDiskDef == <<stepQueryForDisk, stepQuerySupportZones, stepQueryCreateDiskPrice,
                   stepConfirmCreateDisk, stepCreateAndAttachDisk>>

\* The disk is found by id, name or role; the check may name another one.
stepQueryForResizeDisk == normalizing
stepQuerySupportZonesForResizeDisk == optional(query)
stepCheckResizeDisk == normalizing
stepQueryResizeDiskPrice == query
stepConfirmResizeDisk == confirm
stepResizeDisk == mutation
ResizeDiskDef == <<stepQueryForResizeDisk, stepQuerySupportZonesForResizeDisk, stepCheckResizeDisk,
                   stepQueryResizeDiskPrice, stepConfirmResizeDisk, stepResizeDisk>>

stepQuerySourceInstanceForCustomImage == query
stepQuerySupportZonesForCustomImage == query
stepConfirmCreateCustomImage == confirm
stepCreateCustomImage == mutation
stepGetCustomImageCreateProgress(create) == readback(create)
CreateCustomImageDef ==
    <<stepQuerySourceInstanceForCustomImage, stepQuerySupportZonesForCustomImage,
      stepConfirmCreateCustomImage, stepCreateCustomImage, stepGetCustomImageCreateProgress(4)>>

\* Source and target come from the catalogues of the turn: there is no query.
stepConfirmCloneCustomImage == confirm
stepCloneCustomImage == mutation
stepGetCustomImageSyncProgress(clone) == readback(clone)
CloneCustomImageDef ==
    <<stepConfirmCloneCustomImage, stepCloneCustomImage, stepGetCustomImageSyncProgress(2)>>

stepQueryExistingCFSForCreate == normalizing
stepQueryCreateCFSPrice == normalizing
stepConfirmCreateCFS == confirm
stepCreateCFS == mutation
stepDescribeCreatedCFS(create, i) == skippable(readback(create), i)
CreateCFSDef == <<stepQueryExistingCFSForCreate, stepQueryCreateCFSPrice, stepConfirmCreateCFS,
                  stepCreateCFS, stepDescribeCreatedCFS(4, 5)>>

stepQueryCFSForResize == normalizing
stepQueryResizeCFSPrice == query
stepConfirmResizeCFS == confirm
stepResizeCFS == mutation
ResizeCFSDef == <<stepQueryCFSForResize, stepQueryResizeCFSPrice, stepConfirmResizeCFS, stepResizeCFS>>

\* An optimizer that is on needs no card and no write.
stepQueryNetOptimizerStatus == normalizing
stepConfirmEnableNetOptimizer(i) == skippable(confirm, i)
stepSyncNetOptimizer(gate) == skippable(mutation, gate)
stepRecheckNetOptimizerStatus == optional(query)
EnableNetOptimizerDef ==
    <<stepQueryNetOptimizerStatus, stepConfirmEnableNetOptimizer(2), stepSyncNetOptimizer(2),
      stepRecheckNetOptimizerStatus>>

-----------------------------------------------------------------------------
(* Creating an instance.                                                     *)

stepQueryImages == query
stepQueryInstanceTypes == query
stepQueryOfficialGPUInventory == optional(query)
stepQueryPodGPUInventory(i) == skippable(optional(query), i)
\* Merges the two inventories, of which either may be missing.
stepResolveGPUInventorySnapshot == resolve(0)

\* The draft is what stock, price, card and create are about.
stepResolveCreateDraft == resolve(0)
stepCheckCapacity(draft) == of(draft)
stepGetPrice(draft) == of(draft)
stepResolveCreateConfirmation(draft) == resolve(draft)
stepConfirmCreate(draft, quoted) == [confirm EXCEPT !.mode = "edit", !.from = draft, !.promotes = quoted]
stepConfirmCreateGuided(draft, quoted) == stepConfirmCreate(draft, quoted)
\* Its arguments are the draft under the seal, which ExecutesWhatWasConfirmed compares.
stepCreateInstance == mutation
stepDescribeInstance(create) == readback(create)

CreateInstanceDef ==
    <<stepQueryImages, stepQueryInstanceTypes, stepQueryOfficialGPUInventory, stepQueryPodGPUInventory(4),
      stepResolveGPUInventorySnapshot, stepResolveCreateDraft, stepCheckCapacity(6), stepGetPrice(6),
      stepResolveCreateConfirmation(6), stepConfirmCreate(6, 9), stepCreateInstance, stepDescribeInstance(11)>>

\* A selection card: what it shows and what is chosen on it are written to Params.
selection(i) == [skippable(confirm, i) EXCEPT !.mode = "continue", !.rewrites = TRUE]

stepGuidedChooseImageSource(i) == selection(i)
stepReQuerySelectedSourceImages(i) == skippable(query, i)
stepBrowseCommunityWhenNameMatchedNothing(i) == skippable(query, i)
stepQueryImageTagCatalog(i) == skippable(optional(query), i)
stepGuidedChooseImageFacets(i) == selection(i)
stepGuidedChooseImageTag(i) == selection(i)
stepGuidedChooseImageFamily(i) == selection(i)
stepGuidedChooseImage(i) == selection(i)
stepGuidedChooseChargeType(i) == selection(i)
stepProbeZoneCapacity(i) == [skippable(optional(query), i) EXCEPT !.type = "batch"]
stepGuidedChooseGPU(i) == selection(i)
stepGuidedChooseZone(i) == selection(i)
stepQueryCapacitySpecs(i) == skippable(optional(query), i)
stepGuidedChooseGPUCount(i) == selection(i)
stepGuidedChooseCPUMemory(i) == selection(i)

CreateInstanceGuidedDef ==
    <<stepQueryImages, stepQueryInstanceTypes, stepQueryOfficialGPUInventory, stepQueryPodGPUInventory(4),
      stepResolveGPUInventorySnapshot, stepGuidedChooseImageSource(6), stepReQuerySelectedSourceImages(7),
      stepBrowseCommunityWhenNameMatchedNothing(8), stepQueryImageTagCatalog(9),
      stepGuidedChooseImageFacets(10), stepGuidedChooseImageTag(11), stepGuidedChooseImageFamily(12),
      stepGuidedChooseImage(13), stepGuidedChooseChargeType(14), stepProbeZoneCapacity(15),
      stepGuidedChooseGPU(16), stepGuidedChooseZone(17), stepQueryCapacitySpecs(18),
      stepGuidedChooseGPUCount(19), stepGuidedChooseCPUMemory(20), stepResolveCreateDraft,
      stepCheckCapacity(21), stepGetPrice(21), stepResolveCreateConfirmation(21),
      stepConfirmCreateGuided(21, 24), stepCreateInstance, stepDescribeInstance(26)>>

\* The same, cut to a query, two selection cards and the draft.
guided == << query, selection(2), skippable(optional(query), 3), selection(4), resolve(0), of(5),
             stepConfirmCreateGuided(5, 5), mutation >>

-----------------------------------------------------------------------------
\* The registered workflows.
registeredWorkflows ==
    {CreateInstanceDef, StopInstanceDef, StartInstanceDef, RebootInstanceDef, RenameInstanceDef,
     UpdateInstancePortsDef, ResetPasswordDef, SetStopSchedulerDef, CancelStopSchedulerDef,
     ResizeInstanceDef, ResizeDiskDef, SwitchChargeTypeDef, ReinstallInstanceDef, CreateDiskDef,
     CreateCustomImageDef, CloneCustomImageDef, EnableNetOptimizerDef, CreateCFSDef, ResizeCFSDef}

\* Every workflow of the repository meets what SealedWorkflow asks of a definition,
\* so the theorems about all well-formed definitions are about these.
ASSUME RepositoryIsWellFormed ==
    \A d \in registeredWorkflows \cup {CreateInstanceGuidedDef} : d \in Seq(Steps) /\ WellFormed(d)

\* None of them writes Params behind its last gate, so the contract check never
\* fails one of them; and the write is the last step that can change anything.
ASSUME NothingWritesUnderSeal ==
    \A d \in registeredWorkflows \cup {CreateInstanceGuidedDef} : \A g, j \in 1..Len(d) :
        /\ IsLast(d, g) /\ j > g => ~d[j].rewrites
        /\ d[g].mutates /\ d[j].mutates => g = j
=============================================================================
