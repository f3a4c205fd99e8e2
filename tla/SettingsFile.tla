---------------------------- MODULE SettingsFile ----------------------------
(***************************************************************************)
(* The settings of a client on disk and in memory: SettingsContext, Load,  *)
(* persist and try_persist (services/settings.rs) over FileSettings        *)
(* (infra/settings_file.rs), through restarts, crashes, a change of build, *)
(* a file that vanishes and one that another program keeps from being read.*)
(*                                                                         *)
(* A document is told by what the player chose in it (0: the default),     *)
(* whether it has filters that a start forgets, whether it names a game    *)
(* path, what a newer build keeps in it under a key the older build does   *)
(* not know (0: nothing), and whether it records the build it was first    *)
(* used by.                                                                *)
(***************************************************************************)
EXTENDS Naturals, FiniteSets

CONSTANTS
    Savers,         \* the commands that change a setting, at once
    MaxChanges,     \* what the player changes in all runs
    MaxStarts,      \* how often the client starts
    MaxMishaps      \* how often the world interferes with the file

Loader == "loader"  \* Load itself, which saves too
NoSaver == "nobody"
Writers == Savers \cup {Loader}

ASSUME SettingsFileAssumption ==
    /\ IsFiniteSet(Savers) /\ Loader \notin Savers /\ NoSaver \notin Savers
    /\ MaxChanges \in Nat \ {0} /\ MaxStarts \in Nat /\ MaxMishaps \in Nat

Docs == [prefs : 0 .. MaxChanges, filters : BOOLEAN, path : BOOLEAN,
         extra : 0 .. MaxChanges, seen : BOOLEAN]
Defaults == [prefs |-> 0, filters |-> FALSE, path |-> FALSE, extra |-> 0, seen |-> FALSE]
Missing == [Defaults EXCEPT !.extra = MaxChanges + 1]      \* no such file

VARIABLES
    file,       \* settings.json
    copy,       \* settings.last-good.json
    held,       \* another program keeps the file from being opened
    build,      \* which build runs: "older" or "newer"
    client,     \* how far its Load is, see Stages
    stored,     \* what Load makes of the file, until it is announced
    fresh,      \* the file and its copy answered nothing
    memory,     \* the settings slice
    writable,   \* FileSettings::writable
    lock,       \* who holds the write order
    saver,      \* where each saving task is, and what it will write
    savedOnce,      \* history: a save of this run has reached the disk
    unsaved,    \* history: what was last to be saved in this run was not
    blind,      \* history: a save of this run could not open what it replaces
    changes, starts, mishaps

diskVars == <<file, copy, held>>
limits == <<changes, starts, mishaps>>
loadVars == <<stored, fresh>>
histories == <<savedOnce, unsaved, blind>>
settingsVars == <<diskVars, build, client, loadVars, memory, writable, lock, saver, histories,
                  limits>>

(* Not running; the file is being read; it was read; the install paths are *)
(* known; Loaded has been emitted; mark_loaded has been called.            *)
Stages == {"off", "reading", "read", "found", "announced", "up"}

(* Nothing; its change is in the slice; waiting for the write order; save  *)
(* was called; save has read what it replaces.                             *)
NotSaving == [at |-> "idle", doc |-> Defaults]
InLine == [at |-> "queued", doc |-> Defaults]
Savings == [at : {"idle", "changed", "queued", "saving", "writing"}, doc : Docs]

SettingsTypeOK ==
    /\ file \in Docs \cup {Missing} /\ copy \in Docs \cup {Missing}
    /\ held \in BOOLEAN
    /\ build \in {"older", "newer"}
    /\ client \in Stages
    /\ stored \in Docs /\ memory \in Docs
    /\ fresh \in BOOLEAN /\ writable \in BOOLEAN
    /\ lock \in Writers \cup {NoSaver}
    /\ saver \in [Writers -> Savings]
    /\ savedOnce \in BOOLEAN /\ unsaved \in BOOLEAN /\ blind \in BOOLEAN
    /\ changes \in 0 .. MaxChanges /\ starts \in 0 .. MaxStarts
    /\ mishaps \in 0 .. MaxMishaps

Configured(filters, extra) ==
    [prefs |-> 1, filters |-> filters, path |-> TRUE, extra |-> extra, seen |-> TRUE]

(* A client that was never started, or one that was configured before.     *)
SettingsInit ==
    /\ file \in {Missing, Configured(FALSE, 0), Configured(TRUE, 1)}
    /\ copy = Missing /\ held = FALSE
    /\ build = "newer" /\ client = "off"
    /\ stored = Defaults /\ fresh = FALSE /\ memory = Defaults
    /\ writable = TRUE /\ lock = NoSaver
    /\ saver = [w \in Writers |-> NotSaving]
    /\ savedOnce = FALSE /\ unsaved = FALSE /\ blind = FALSE
    /\ changes = 1 /\ starts = 0 /\ mishaps = 0

-----------------------------------------------------------------------------

(* What a build reads of a document: the older one has no field for extra. *)
ReadAs(doc, b) == IF b = "newer" THEN doc ELSE [doc EXCEPT !.extra = 0]
Pristine(doc) == doc = Defaults

(* A start forgets filters, unless the player chose to keep them, which    *)
(* are then among the preferences.                                         *)
WithoutFilters(doc) == [doc EXCEPT !.filters = FALSE]

(* document_to_write: the keys of the replaced document that this build    *)
(* does not read are written back.                                         *)
DocumentToWrite(doc, replaced) ==
    IF build = "older" /\ replaced # Missing THEN [doc EXCEPT !.extra = replaced.extra]
                                             ELSE doc

(* Faulty: a file that went missing replaces nothing.                      *)
FaultyReplaced == IF held THEN Missing ELSE file

(* What a save takes for replaced: the file, the copy for a missing one,   *)
(* and nothing for one that cannot be opened.                              *)
Replaced == CASE held           -> Missing
              [] file = Missing -> copy
              [] OTHER          -> file

(* Faulty: only plain defaults are refused.                                *)
FaultyRefuses(doc) ==
    Pristine(doc) /\ ~held /\ file # Missing /\ ~Pristine(ReadAs(file, build))

(* save refuses after a load that could not open the file, and refuses     *)
(* defaults over a configured document.                                    *)
Refuses(doc) ==
    \/ ~writable
    \/ /\ Pristine(doc)
       /\ ~held /\ file # Missing /\ ~Pristine(ReadAs(file, build))

-----------------------------------------------------------------------------
(* Starting.                                                               *)

Launch(b) ==
    /\ client = "off" /\ starts < MaxStarts
    /\ starts' = starts + 1
    /\ build' = b /\ client' = "reading"
    /\ stored' = Defaults /\ fresh' = FALSE /\ memory' = Defaults
    /\ writable' = TRUE
    /\ savedOnce' = FALSE /\ unsaved' = FALSE /\ blind' = FALSE
    /\ UNCHANGED <<diskVars, lock, saver, changes, mishaps>>

(* FileSettings::load, with read_document and keep_last_good_copy.         *)
Read ==
    /\ client = "reading"
    /\ client' = "read"
    /\ \/ /\ held
          /\ stored' = Defaults /\ fresh' = TRUE /\ writable' = FALSE
          /\ UNCHANGED copy
       \/ /\ ~held /\ file # Missing
          /\ stored' = WithoutFilters(ReadAs(file, build)) /\ fresh' = FALSE
          /\ writable' = TRUE
          /\ copy' = IF Pristine(ReadAs(file, build)) THEN copy ELSE file
       \/ /\ ~held /\ file = Missing
          /\ stored' = IF copy = Missing THEN Defaults ELSE WithoutFilters(ReadAs(copy, build))
          /\ fresh' = (copy = Missing) /\ writable' = TRUE
          /\ UNCHANGED copy
    /\ UNCHANGED <<file, held, build, memory, lock, saver, histories, limits>>

(* An empty game path is always replaced, by a default if need be; one that *)
(* is not there, and the path for replays, when another install is found.   *)
(* What was found is saved, in the one write outside the write order.       *)
Discover ==
    /\ client = "read"
    /\ client' = "found"
    /\ \/ /\ stored' = [stored EXCEPT !.path = TRUE]
          /\ saver' = [saver EXCEPT ![Loader] = [at |-> "saving", doc |-> stored']]
       \/ stored.path /\ UNCHANGED <<stored, saver>>
    /\ UNCHANGED <<diskVars, build, fresh, memory, writable, lock, histories, limits>>

(* Loaded: what Load holds becomes the slice. A client without settings    *)
(* records the running build, unless that is a development build.          *)
AnnounceLoaded ==
    /\ client = "found" /\ saver[Loader].at = "idle"
    /\ client' = "announced"
    /\ \/ /\ fresh
          /\ memory' = [stored EXCEPT !.seen = TRUE]
          /\ saver' = [saver EXCEPT ![Loader] = [at |-> "changed", doc |-> memory']]
       \/ memory' = stored /\ UNCHANGED saver
    /\ stored' = Defaults /\ fresh' = FALSE
    /\ UNCHANGED <<diskVars, build, writable, lock, histories, limits>>

MarkLoaded ==
    /\ client = "announced"
    /\ client' = "up"
    /\ UNCHANGED <<diskVars, build, loadVars, memory, writable, lock, saver, histories, limits>>

-----------------------------------------------------------------------------
(* A settings command: its change is merged and emitted under one lock, at *)
(* any time after the start, then persist is called.                       *)

Change(w) ==
    /\ client # "off" /\ saver[w].at = "idle" /\ changes < MaxChanges
    /\ changes' = changes + 1
    /\ \/ \E filters \in BOOLEAN :
             memory' = [memory EXCEPT !.prefs = changes + 1, !.filters = filters]
       \/ build = "newer" /\ memory' = [memory EXCEPT !.extra = changes + 1]
    /\ saver' = [saver EXCEPT ![w] = [at |-> "changed", doc |-> memory']]
    /\ UNCHANGED <<diskVars, build, client, loadVars, writable, lock, histories, starts, mishaps>>

(* try_persist saves nothing before mark_loaded: Loaded is to overwrite    *)
(* what was changed until then. Load itself calls it after mark_loaded.    *)
Persist(w) ==
    /\ saver[w].at = "changed"
    /\ w = Loader => client = "up"
    /\ IF client = "up"
       THEN saver' = [saver EXCEPT ![w] = InLine] /\ UNCHANGED unsaved
       ELSE saver' = [saver EXCEPT ![w] = NotSaving]
            /\ unsaved' = (unsaved \/ client = "announced")
    /\ UNCHANGED <<diskVars, build, client, loadVars, memory, writable, lock, savedOnce, blind, limits>>

(* Faulty: two writes at once.                                             *)
FaultyAcquireOrder(w) ==
    /\ saver[w].at = "queued"
    /\ lock' = w
    /\ saver' = [saver EXCEPT ![w] = [at |-> "saving", doc |-> memory]]
    /\ UNCHANGED <<diskVars, build, client, loadVars, memory, writable, histories, limits>>

(* The write order first, then the settings of this moment.                *)
AcquireOrder(w) ==
    /\ saver[w].at = "queued" /\ lock = NoSaver
    /\ lock' = w
    /\ saver' = [saver EXCEPT ![w] = [at |-> "saving", doc |-> memory]]
    /\ UNCHANGED <<diskVars, build, client, loadVars, memory, writable, histories, limits>>

(* A save is over, and with it the turn of whoever had one.                *)
SaveEnds(w) ==
    /\ saver' = [saver EXCEPT ![w] = NotSaving]
    /\ lock' = IF lock = w THEN NoSaver ELSE lock

(* save reads what it replaces ...                                         *)
ReadReplaced(w) ==
    /\ saver[w].at = "saving"
    /\ blind' = (blind \/ held)
    /\ IF Refuses(saver[w].doc)
       THEN SaveEnds(w) /\ unsaved' = TRUE
       ELSE /\ saver' = [saver EXCEPT ![w] =
                    [at |-> "writing", doc |-> DocumentToWrite(@.doc, Replaced)]]
            /\ UNCHANGED <<lock, unsaved>>
    /\ UNCHANGED <<diskVars, build, client, loadVars, memory, writable, savedOnce, limits>>

(* ... and replaces it in one rename, or fails.                            *)
Write(w) ==
    /\ saver[w].at = "writing"
    /\ SaveEnds(w)
    /\ \/ file' = saver[w].doc /\ savedOnce' = TRUE /\ unsaved' = FALSE
       \/ held /\ unsaved' = TRUE /\ UNCHANGED <<file, savedOnce>>
    /\ UNCHANGED <<copy, held, build, client, loadVars, memory, writable, blind, limits>>

-----------------------------------------------------------------------------
(* The client ends at any moment, whatever was under way with it.          *)

Quit ==
    /\ client # "off"
    /\ client' = "off"
    /\ lock' = NoSaver /\ saver' = [w \in Writers |-> NotSaving]
    /\ UNCHANGED <<diskVars, build, loadVars, memory, writable, histories, limits>>

Interfere ==
    /\ mishaps < MaxMishaps /\ mishaps' = mishaps + 1
    /\ \/ file' = Missing /\ held' = FALSE
       \/ held' = ~held /\ UNCHANGED file
    /\ UNCHANGED <<copy, build, client, loadVars, memory, writable, lock, saver, histories,
                   changes, starts>>

-----------------------------------------------------------------------------

SettingsNext ==
    \/ \E b \in {"older", "newer"} : Launch(b)
    \/ Read \/ Discover \/ AnnounceLoaded \/ MarkLoaded \/ Quit \/ Interfere
    \/ \E w \in Savers : Change(w)
    \/ \E w \in Writers : Persist(w) \/ AcquireOrder(w) \/ ReadReplaced(w) \/ Write(w)

SettingsSpec == SettingsInit /\ [][SettingsNext]_settingsVars

-----------------------------------------------------------------------------

(* "My settings reset themselves" does not happen on disk: what a write    *)
(* replaces is never configured when the document written is not, whether  *)
(* the file was still being read, could not be opened or had gone missing  *)
(* when this client started.                                               *)
NeverReset ==
    [][ LET before == IF file = Missing THEN copy ELSE file IN
        file' \notin {file, Missing} /\ before # Missing /\ before.prefs # 0
            => file'.prefs # 0 ]_settingsVars

(* What a newer build keeps in the file survives every save of an older    *)
(* one, through a file that went missing too; only a file that cannot be   *)
(* opened while it is saved over loses it.                                 *)
NewerKeysSurvive ==
    [][ LET before == IF file = Missing THEN copy ELSE file IN
        file' \notin {file, Missing} /\ before # Missing /\ build = "older" /\ ~blind
            => file'.extra = before.extra ]_settingsVars

(* What the disk has for this build.                                       *)
OnDisk == IF file = Missing THEN Defaults ELSE ReadAs(file, build)

(* The newest settings are what is on disk: once nothing is being saved,   *)
(* and what was last to be saved was not refused and did not fail, the     *)
(* file holds what the slice does, whichever of two commands, or of a      *)
(* command and the load, changed it last. In a run that has saved nothing  *)
(* they may differ by the filters a start forgets.                         *)
DiskIsMemory ==
    /\ client = "up" /\ writable /\ ~unsaved /\ mishaps = 0
    /\ \A w \in Writers : saver[w].at = "idle"
    => memory = IF savedOnce THEN OnDisk ELSE WithoutFilters(OnDisk)
=============================================================================
