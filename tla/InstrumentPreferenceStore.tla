---------------------- MODULE InstrumentPreferenceStore ----------------------
(***************************************************************************)
(* The startup preference on disk                                          *)
(* (apps/desktop/src/main/instrument-preference.ts): a new preference is   *)
(* written to a temporary file, synced, renamed over the old one, and the  *)
(* directory is synced before save() resolves.                             *)
(*                                                                         *)
(* A rename is visible at once but survives a power failure only when the  *)
(* directory has been synced, and a directory only when its parent has;    *)
(* the system may also write either earlier.  `survivors` is what such a   *)
(* failure can leave of the file.                                          *)
(***************************************************************************)
CONSTANT Preferences  \* selections an operator can make

VARIABLES
    save,       \* the save() in progress: its step and its preference
    folder,     \* the instrument directory: absent, cached or durable
    entry,      \* the preference file: absent, torn or a preference
    survivors,  \* the contents a power failure can leave in the file
    promised    \* contents a reader may expect: the last acknowledged
                \* preference and those whose save was started after it

storeVars == <<save, folder, entry, survivors, promised>>

Contents == Preferences \cup {"absent", "torn"}
NoSave == [step |-> "idle", preference |-> "absent"]

StoreTypeOK ==
    /\ save \in [step : {"idle", "folder", "temporary", "written", "synced", "renamed"},
                 preference : Preferences \cup {"absent"}]
    /\ folder \in {"absent", "cached", "durable"}
    /\ entry \in Contents
    /\ survivors \subseteq Contents /\ survivors # {}
    /\ promised \subseteq Contents /\ promised # {}

StoreInit ==
    /\ save = NoSave
    /\ folder = "absent" /\ entry = "absent"
    /\ survivors = {"absent"} /\ promised = {"absent"}

\* save() up to #ensureDirectory, which creates a missing directory.
StartSave(preference) ==
    /\ save.step = "idle"
    /\ save' = [step |-> IF folder = "absent" THEN "folder" ELSE "temporary",
                preference |-> preference]
    /\ folder' = IF folder = "absent" THEN "cached" ELSE folder
    /\ promised' = promised \cup {preference}
    /\ UNCHANGED <<entry, survivors>>

Advances(from, to) ==
    save.step = from /\ save' = [save EXCEPT !.step = to]

\* The parent of a directory that this save has created is synced.
SyncFolder ==
    /\ Advances("folder", "temporary")
    /\ folder' = "durable"
    /\ UNCHANGED <<entry, survivors, promised>>

WriteTemporary ==
    Advances("temporary", "written") /\ UNCHANGED <<folder, entry, survivors, promised>>

SyncTemporary ==
    Advances("written", "synced") /\ UNCHANGED <<folder, entry, survivors, promised>>

\* Contents that are renamed before they are synced can come out torn.
RenamesFrom(step) ==
    /\ Advances(step, "renamed")
    /\ entry' = save.preference
    /\ survivors' = survivors \cup
         (IF step = "synced" THEN {save.preference} ELSE {save.preference, "torn"})
    /\ UNCHANGED <<folder, promised>>

Rename == RenamesFrom("synced")

\* Faulty variant: the directory is not synced before the save is acknowledged.
AcknowledgeUnsynced ==
    /\ save.step = "renamed"
    /\ save' = NoSave /\ promised' = {save.preference}
    /\ UNCHANGED <<folder, entry, survivors>>

\* syncDirectory(), and save() resolves.
SyncDirectory ==
    /\ save.step = "renamed"
    /\ save' = NoSave /\ promised' = {save.preference}
    /\ survivors' = {entry}
    /\ UNCHANGED <<folder, entry>>

\* Any call fails; the temporary file is removed and save() rejects.
SaveFails ==
    /\ save.step # "idle" /\ save' = NoSave
    /\ UNCHANGED <<folder, entry, survivors, promised>>

SaveMoves ==
    \/ SyncFolder \/ WriteTemporary \/ SyncTemporary \/ Rename
    \/ SyncDirectory \/ SaveFails

\* RecentP210DeviceStore keeps its file in the same directory and creates the
\* directory when it is missing, without syncing the parent.
RecordRecentDevice ==
    /\ folder = "absent" /\ folder' = "cached"
    /\ UNCHANGED <<save, entry, survivors, promised>>

\* The process dies; the disk keeps what the system has.
SaveIsCut == save' = NoSave /\ UNCHANGED <<folder, entry, survivors, promised>>

\* The machine dies; what was only cached may be lost.
PowerFails ==
    /\ save' = NoSave
    /\ \/ entry' \in survivors /\ UNCHANGED <<folder, promised>>
       \/ /\ folder # "durable"
          /\ entry' = "absent" /\ folder' = "absent" /\ promised' = {"absent"}
    /\ survivors' = {entry'}

StoreSpec == StoreInit /\ [][ (\E p \in Preferences : StartSave(p)) \/ SaveMoves
                              \/ RecordRecentDevice \/ SaveIsCut \/ PowerFails ]_storeVars

-----------------------------------------------------------------------------
(* Properties *)

\* Whatever crashes, load() finds a whole preference that is the last
\* acknowledged one or one whose save was started after it: never a torn file
\* and never an older choice.  Only the loss of the directory itself is left
\* out (AcknowledgedIsDurable).
PreferenceSurvives == {entry} \cup survivors \subseteq promised \cup
    (IF folder = "durable" THEN {} ELSE {"absent"})

\* instrument-preference.test.ts:41: save() 'durably round-trips the exact
\* operator-selected candidate': a power failure finds an acknowledged one.
AcknowledgedIsDurable ==
    folder # "durable" => "absent" \in promised

=============================================================================
