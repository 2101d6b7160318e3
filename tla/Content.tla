------------------------------- MODULE Content -------------------------------
(***************************************************************************)
(* What is read, kept and sent on: the schedule of a source, the runs of   *)
(* its recipe and of a legacy crawler, the evidence store, the catalogue   *)
(* of companies and the daily mails.  They share no state in these models: *)
(* in every behaviour one of them moves, and the others rest in an initial *)
(* state.  What one of them does is the same beside the others.            *)
(***************************************************************************)
EXTENDS CrawlSchedule, NewsEngine, LegacyCrawl, EvidenceStore, Catalogue, Digest

VARIABLE moving

Parts == {"schedule", "engine", "legacy", "evidence", "catalogue", "digest"}

contentVars == <<moving, scheduleVars, engineVars, legacyVars, evidenceVariables,
                 catalogueVars, digestVars>>

\* What rests needs no more than one initial state.
RestingEngine ==
    recipe = [rss |-> FALSE, lists |-> 1, pages |-> 1, baseline |-> CHOOSE b \in Baselines : TRUE]
RestingSchedule ==
    /\ anchor = CHOOSE a \in Anchors : TRUE
    /\ plan.frequency = CHOOSE f \in Frequencies : TRUE

ContentInit ==
    /\ moving \in Parts
    /\ EvidenceInit /\ CatalogueInit /\ DigestInit
    /\ EngineInit /\ (moving = "engine" \/ RestingEngine)
    /\ ScheduleInit /\ (moving = "schedule" \/ RestingSchedule)
    /\ LegacyInit /\ (moving = "legacy" \/ crawler = OnePage)

ContentNext ==
    \/ /\ moving = "evidence" /\ EvidenceNext
       /\ UNCHANGED <<moving, engineVars, scheduleVars, legacyVars, catalogueVars,
                      digestVars>>
    \/ /\ moving = "engine" /\ EngineNext
       /\ UNCHANGED <<moving, evidenceVariables, scheduleVars, legacyVars,
                      catalogueVars, digestVars>>
    \/ /\ moving = "schedule" /\ ScheduleNext
       /\ UNCHANGED <<moving, evidenceVariables, engineVars, legacyVars, catalogueVars,
                      digestVars>>
    \/ /\ moving = "legacy" /\ LegacyNext
       /\ UNCHANGED <<moving, evidenceVariables, engineVars, scheduleVars,
                      catalogueVars, digestVars>>
    \/ /\ moving = "catalogue" /\ CatalogueNext
       /\ UNCHANGED <<moving, evidenceVariables, engineVars, scheduleVars, legacyVars,
                      digestVars>>
    \/ /\ moving = "digest" /\ DigestNext
       /\ UNCHANGED <<moving, evidenceVariables, engineVars, scheduleVars, legacyVars,
                      catalogueVars>>

ContentSpec == ContentInit /\ [][ContentNext]_contentVars

\* Every variable of every part keeps to its values.
ContentTypeOK ==
    /\ moving \in Parts
    /\ ScheduleTypeOK /\ EngineTypeOK /\ LegacyTypeOK
    /\ EvidenceTypeOK /\ CatalogueTypeOK /\ DigestTypeOK
=============================================================================
