--------------------------- MODULE MCBeatSchedule ---------------------------
(* Three entries a day for two days; a user asks for the export beat makes. *)
EXTENDS BeatSchedule

BeatEntries == {"daily-summary", "warehouse-export", "data-retention-cleanup"}
BeatArguments == [e \in BeatEntries |-> "kwargs"]
BeatKeys == {SummaryKey("kwargs"), ExportKey("kwargs"), CleanupKey("kwargs"),
             KeyOf("discover_opportunities", "kwargs")}
=============================================================================
