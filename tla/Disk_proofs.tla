----------------------------- MODULE Disk_proofs -----------------------------
(* Theorems about what is on the disk.  SettingsFile, for any number of     *)
(* savers, changes, starts and mishaps: what the player chose is never      *)
(* replaced by defaults, and the newest of it is what is saved.  FolderSwap,*)
(* for any folder names, any number of archives, of failing calls and of    *)
(* crashes: a mod the player has is never lost, is in place once the client *)
(* is up, and what an update replaced does not come back; and the installer *)
(* implements AtomicUpdate.                                                 *)
EXTENDS SettingsFile, FolderSwap, TLAPS

-----------------------------------------------------------------------------
(* SettingsFile.  The invariant.                                            *)

(* The disk remembers something the player chose.                           *)
Chosen == file.prefs # 0 \/ copy.prefs # 0

(* The last good copy never knows more than the file it was taken from.     *)
CopyIsOlder == file # Missing /\ copy.prefs # 0 => file.prefs # 0

(* What may be written knows what the disk does: the document just read,    *)
(* the slice, and what a saver has taken from either.                       *)
ReadIsConfigured == client \in {"read", "found"} /\ writable /\ Chosen => stored.prefs # 0
SliceIsConfigured == client \in {"announced", "up"} /\ writable /\ Chosen => memory.prefs # 0

(* One save at a time: that of the load, which has not announced anything   *)
(* yet, or that of the task whose turn it is.                               *)
Saves(w) == saver[w].at \in {"saving", "writing"}
SavesAlone(w) == \/ client = "found" /\ w = Loader
                 \/ client = "up" /\ lock = w
Source == IF client = "found" THEN stored ELSE memory

SaverIsConfigured ==
    \A w \in Writers : Saves(w) =>
        /\ SavesAlone(w)
        /\ writable /\ Chosen => saver[w].doc.prefs # 0
        /\ saver[w].doc.prefs # 0 => Source.prefs # 0
        /\ saver[w].at = "writing" => writable

SaversRun ==
    /\ client = "off" => \A w \in Writers : saver[w].at = "idle"
    /\ client \in {"reading", "read", "found"} => saver[Loader].at # "changed"
    /\ client # "up" => \A w \in Writers : saver[w].at # "queued"

SettingsInv ==
    /\ SettingsTypeOK
    /\ CopyIsOlder
    /\ ReadIsConfigured /\ SliceIsConfigured
    /\ SaverIsConfigured /\ SaversRun

LEMMA Bounds == /\ MaxChanges \in Nat /\ MaxChanges >= 1
                /\ MaxStarts \in Nat /\ MaxMishaps \in Nat
BY SettingsFileAssumption

LEMMA WritersDiffer ==
    /\ NoSaver \notin Writers /\ Loader \in Writers
    /\ \A w \in Savers : w \in Writers /\ w # Loader
BY SettingsFileAssumption DEF Writers, Loader, NoSaver

LEMMA MissingIsNoDoc == Missing \notin Docs /\ Missing.prefs = 0 /\ Defaults \in Docs
BY Bounds DEF Missing, Docs, Defaults

LEMMA SavingTypes ==
    /\ NotSaving \in Savings /\ InLine \in Savings
    /\ NotSaving.at = "idle" /\ InLine.at = "queued"
    /\ \A doc \in Docs, at \in {"changed", "saving", "writing"} :
          [at |-> at, doc |-> doc] \in Savings
BY MissingIsNoDoc DEF NotSaving, InLine, Savings

(* Reading and writing a document keep the player's choice in it.           *)
LEMMA ReadAsKeeps ==
    ASSUME NEW doc \in Docs, NEW b
    PROVE  /\ ReadAs(doc, b) \in Docs
           /\ ReadAs(doc, b).prefs = doc.prefs /\ ReadAs(doc, b).path = doc.path
BY Bounds DEF ReadAs, Docs

LEMMA WithoutFiltersKeeps ==
    ASSUME NEW doc \in Docs
    PROVE  /\ WithoutFilters(doc) \in Docs
           /\ WithoutFilters(doc).prefs = doc.prefs /\ WithoutFilters(doc).path = doc.path
           /\ WithoutFilters(doc).extra = doc.extra
BY Bounds DEF WithoutFilters, Docs

LEMMA WriteKeeps ==
    ASSUME NEW doc \in Docs, NEW replaced \in Docs \cup {Missing}
    PROVE  /\ DocumentToWrite(doc, replaced) \in Docs
           /\ DocumentToWrite(doc, replaced).prefs = doc.prefs
           /\ DocumentToWrite(doc, replaced).path = doc.path
           /\ build = "older" /\ replaced # Missing
                => DocumentToWrite(doc, replaced).extra = replaced.extra
BY Bounds, MissingIsNoDoc DEF DocumentToWrite, Docs

LEMMA ReplacedIsRead == SettingsTypeOK => Replaced \in Docs \cup {Missing}
BY DEF SettingsTypeOK, Replaced

LEMMA InitSettings == SettingsInit => SettingsInv
<1> SUFFICES ASSUME SettingsInit PROVE SettingsInv
  OBVIOUS
<1>1. \A f \in BOOLEAN, e \in {0, 1} : Configured(f, e) \in Docs
  BY Bounds DEF Configured, Docs
<1>2. saver \in [Writers -> Savings] /\ \A w \in Writers : saver[w].at = "idle"
  BY SavingTypes DEF SettingsInit
<1>3. changes \in 0 .. MaxChanges /\ starts \in 0 .. MaxStarts /\ mishaps \in 0 .. MaxMishaps
  BY Bounds DEF SettingsInit
<1>4. file \in Docs \cup {Missing} /\ stored \in Docs /\ memory \in Docs
  BY <1>1, MissingIsNoDoc DEF SettingsInit
<1>5. SettingsTypeOK
  BY <1>2, <1>3, <1>4 DEF SettingsInit, SettingsTypeOK, Stages
<1>6. CopyIsOlder
  BY MissingIsNoDoc DEF SettingsInit, CopyIsOlder
<1>7. client = "off"
  BY DEF SettingsInit
<1> QED BY <1>2, <1>5, <1>6, <1>7
        DEF SettingsInv, ReadIsConfigured, SliceIsConfigured, SaverIsConfigured, SaversRun, Saves

-----------------------------------------------------------------------------
(* Every step keeps it.                                                     *)

LEMMA LaunchesKeep ==
    ASSUME SettingsInv, NEW b \in {"older", "newer"}, Launch(b)
    PROVE  SettingsInv'
<1>1. starts' \in 0 .. MaxStarts
  BY Bounds DEF SettingsInv, SettingsTypeOK, Launch
<1>2. SettingsTypeOK'
  BY <1>1, MissingIsNoDoc DEF SettingsInv, SettingsTypeOK, Launch, diskVars, Stages
<1>3. \A w \in Writers : saver'[w].at = "idle"
  BY DEF Launch, SettingsInv, SaversRun
<1>4. CopyIsOlder' /\ client' = "reading"
  BY DEF Launch, SettingsInv, CopyIsOlder, diskVars
<1> QED BY <1>2, <1>3, <1>4, WritersDiffer
        DEF SettingsInv, ReadIsConfigured, SliceIsConfigured, SaverIsConfigured, SaversRun, Saves

LEMMA ReadStep ==
    ASSUME SettingsInv, Read
    PROVE  SettingsInv'
<1> USE DEF SettingsInv, SettingsTypeOK
<1> DEFINE made(doc) == WithoutFilters(ReadAs(doc, build))
<1>1. \A doc \in Docs : made(doc) \in Docs /\ made(doc).prefs = doc.prefs
  BY ReadAsKeeps, WithoutFiltersKeeps
<1>2. /\ client = "reading" /\ client' = "read"
      /\ UNCHANGED <<file, held, build, memory, lock, saver, histories, limits>>
      /\ \/ stored' = Defaults /\ writable' = FALSE /\ copy' = copy
         \/ file # Missing /\ stored' = made(file) /\ writable' = TRUE /\ copy' \in {copy, file}
         \/ /\ file = Missing /\ writable' = TRUE /\ copy' = copy
            /\ stored' = IF copy = Missing THEN Defaults ELSE made(copy)
      /\ fresh' \in BOOLEAN
  BY DEF Read
<1> HIDE DEF made
<1>3. SettingsTypeOK'
  BY <1>1, <1>2, MissingIsNoDoc DEF limits, histories, Stages
<1>4. CopyIsOlder'
  BY <1>2 DEF CopyIsOlder
<1>5. ReadIsConfigured'
  BY <1>1, <1>2, MissingIsNoDoc DEF ReadIsConfigured, Chosen, CopyIsOlder
<1>6. \A w \in Writers : ~Saves(w)
  BY <1>2 DEF SaverIsConfigured, SavesAlone
<1> QED BY <1>2, <1>3, <1>4, <1>5, <1>6
        DEF SliceIsConfigured, SaverIsConfigured, SaversRun, Saves

LEMMA DiscoverStep ==
    ASSUME SettingsInv, Discover
    PROVE  SettingsInv'
<1> USE DEF SettingsInv, SettingsTypeOK
<1>1. /\ client = "read" /\ client' = "found"
      /\ UNCHANGED <<diskVars, build, fresh, memory, writable, lock, histories, limits>>
      /\ stored' \in Docs /\ stored'.prefs = stored.prefs
      /\ \/ saver' = [saver EXCEPT ![Loader] = [at |-> "saving", doc |-> stored']]
         \/ UNCHANGED saver
  BY DEF Discover, Docs
<1>2. SettingsTypeOK'
  BY <1>1, SavingTypes DEF diskVars, limits, histories, Stages
<1>3. \A w \in Writers : ~Saves(w)
  BY <1>1 DEF SaverIsConfigured, SavesAlone
<1>4. ReadIsConfigured'
  BY <1>1 DEF ReadIsConfigured, Chosen, diskVars
<1>5. SaverIsConfigured'
  BY <1>1, <1>3, <1>4, WritersDiffer
     DEF SaverIsConfigured, Saves, SavesAlone, Source, ReadIsConfigured, Chosen, diskVars
<1>6. SaversRun'
  BY <1>1, WritersDiffer DEF SaversRun
<1> QED BY <1>1, <1>2, <1>4, <1>5, <1>6 DEF SliceIsConfigured, CopyIsOlder, diskVars

LEMMA AnnounceStep ==
    ASSUME SettingsInv, AnnounceLoaded
    PROVE  SettingsInv'
<1> USE DEF SettingsInv, SettingsTypeOK
<1>1. /\ client = "found" /\ client' = "announced" /\ saver[Loader].at = "idle"
      /\ UNCHANGED <<diskVars, build, writable, lock, histories, limits>>
      /\ stored' = Defaults /\ fresh' = FALSE
      /\ memory' \in Docs /\ memory'.prefs = stored.prefs
      /\ \/ saver' = [saver EXCEPT ![Loader] = [at |-> "changed", doc |-> memory']]
         \/ UNCHANGED saver
  BY DEF AnnounceLoaded, Docs
<1>2. SettingsTypeOK'
  BY <1>1, SavingTypes, MissingIsNoDoc DEF diskVars, limits, histories, Stages
<1>3. \A w \in Writers : ~Saves(w) /\ ~Saves(w)'
  BY <1>1, WritersDiffer DEF SaverIsConfigured, SavesAlone, Saves
<1>4. SliceIsConfigured'
  BY <1>1 DEF ReadIsConfigured, SliceIsConfigured, Chosen, diskVars
<1>5. SaversRun'
  BY <1>1, WritersDiffer DEF SaversRun
<1> QED BY <1>1, <1>2, <1>3, <1>4, <1>5
        DEF ReadIsConfigured, SaverIsConfigured, CopyIsOlder, diskVars

LEMMA MarkLoadedStep ==
    ASSUME SettingsInv, MarkLoaded
    PROVE  SettingsInv'
<1> USE DEF SettingsInv, SettingsTypeOK
<1>1. SettingsTypeOK'
  BY DEF MarkLoaded, diskVars, loadVars, limits, histories, Stages
<1>2. \A w \in Writers : ~Saves(w) /\ ~Saves(w)'
  BY DEF MarkLoaded, SaverIsConfigured, SavesAlone, Saves
<1> QED BY <1>1, <1>2
        DEF MarkLoaded, diskVars, loadVars, CopyIsOlder, ReadIsConfigured, SliceIsConfigured,
            SaverIsConfigured, SaversRun, Chosen

(* What a change leaves in the slice.                                       *)
LEMMA ChangeKeeps ==
    ASSUME SettingsTypeOK, NEW w \in Savers, Change(w)
    PROVE  /\ memory' \in Docs
           /\ memory.prefs # 0 => memory'.prefs # 0
           /\ memory'.path = memory.path
           /\ build = "older" => memory'.extra = memory.extra
           /\ saver' = [saver EXCEPT ![w] = [at |-> "changed", doc |-> memory']]
<1>1. changes + 1 \in 0 .. MaxChanges /\ changes + 1 # 0
  <2>1. changes \in 0 .. MaxChanges /\ changes < MaxChanges
    BY DEF SettingsTypeOK, Change
  <2> QED BY <2>1, Bounds
<1>2. saver' = [saver EXCEPT ![w] = [at |-> "changed", doc |-> memory']]
  BY DEF Change
<1>3. ASSUME NEW filters \in BOOLEAN,
             memory' = [memory EXCEPT !.prefs = changes + 1, !.filters = filters]
      PROVE  memory' \in Docs /\ memory'.prefs # 0 /\ memory'.path = memory.path
             /\ memory'.extra = memory.extra
  BY <1>1, <1>3 DEF SettingsTypeOK, Docs
<1>4. ASSUME memory' = [memory EXCEPT !.extra = changes + 1]
      PROVE  memory' \in Docs /\ memory'.prefs = memory.prefs /\ memory'.path = memory.path
  BY <1>1, <1>4 DEF SettingsTypeOK, Docs
<1> QED BY <1>2, <1>3, <1>4 DEF Change

LEMMA ChangeStep ==
    ASSUME SettingsInv, NEW w \in Savers, Change(w)
    PROVE  SettingsInv'
<1> USE DEF SettingsInv, SettingsTypeOK
<1>1. /\ client # "off"
      /\ UNCHANGED <<diskVars, build, client, loadVars, writable, lock, histories, starts, mishaps>>
  BY DEF Change
<1>8. changes' \in 0 .. MaxChanges
  <2>1. changes \in 0 .. MaxChanges /\ changes < MaxChanges /\ changes' = changes + 1
    BY DEF Change
  <2> QED BY <2>1, Bounds
<1>2. /\ memory' \in Docs /\ (memory.prefs # 0 => memory'.prefs # 0)
      /\ saver' = [saver EXCEPT ![w] = [at |-> "changed", doc |-> memory']]
  BY ChangeKeeps
<1>3. SettingsTypeOK'
  BY <1>1, <1>2, <1>8, WritersDiffer, SavingTypes DEF diskVars, loadVars, histories
<1>4. \A v \in Writers : v # w => saver'[v] = saver[v]
  BY <1>2
<1>5. ~Saves(w)' /\ saver'[w].at = "changed"
  BY <1>2, WritersDiffer DEF Saves
<1>6. SaverIsConfigured'
  BY <1>1, <1>2, <1>4, <1>5
     DEF SaverIsConfigured, Saves, SavesAlone, Source, Chosen, diskVars, loadVars
<1>7. SaversRun'
  BY <1>1, <1>4, <1>5, WritersDiffer DEF SaversRun
<1> QED BY <1>1, <1>2, <1>3, <1>6, <1>7
        DEF CopyIsOlder, ReadIsConfigured, SliceIsConfigured, Chosen, diskVars, loadVars

LEMMA PersistStep ==
    ASSUME SettingsInv, NEW w \in Writers, Persist(w)
    PROVE  SettingsInv'
<1> USE DEF SettingsInv, SettingsTypeOK
<1>1. /\ saver[w].at = "changed"
      /\ UNCHANGED <<diskVars, build, client, loadVars, memory, writable, lock, savedOnce, blind, limits>>
      /\ unsaved' \in BOOLEAN
      /\ \/ client = "up" /\ saver' = [saver EXCEPT ![w] = InLine]
         \/ saver' = [saver EXCEPT ![w] = NotSaving]
  BY DEF Persist
<1>2. SettingsTypeOK'
  BY <1>1, SavingTypes DEF diskVars, loadVars, limits
<1>3. \A v \in Writers : v # w => saver'[v] = saver[v]
  BY <1>1
<1>4. saver'[w] \in {InLine, NotSaving} /\ ~Saves(w)'
  BY <1>1, SavingTypes DEF Saves
<1>7. client # "up" => saver'[w].at = "idle"
  BY <1>1, SavingTypes
<1>5. SaverIsConfigured'
  BY <1>1, <1>3, <1>4
     DEF SaverIsConfigured, Saves, SavesAlone, Source, Chosen, diskVars, loadVars
<1>8. client # "off"
  BY <1>1 DEF SaversRun
<1>6. SaversRun'
  BY <1>1, <1>3, <1>7, <1>8, WritersDiffer DEF SaversRun
<1> QED BY <1>1, <1>2, <1>5, <1>6
        DEF CopyIsOlder, ReadIsConfigured, SliceIsConfigured, Chosen, diskVars, loadVars

LEMMA AcquireOrderStep ==
    ASSUME SettingsInv, NEW w \in Writers, AcquireOrder(w)
    PROVE  SettingsInv'
<1> USE DEF SettingsInv, SettingsTypeOK
<1>1. /\ saver[w].at = "queued" /\ lock = NoSaver /\ lock' = w /\ client = "up"
      /\ saver' = [saver EXCEPT ![w] = [at |-> "saving", doc |-> memory]]
      /\ UNCHANGED <<diskVars, build, client, loadVars, memory, writable, histories, limits>>
  BY DEF AcquireOrder, SaversRun
<1>2. SettingsTypeOK'
  BY <1>1, SavingTypes DEF diskVars, loadVars, histories, limits
<1>3. \A v \in Writers : ~Saves(v)
  BY <1>1, WritersDiffer DEF SaverIsConfigured, SavesAlone
<1>4. SaverIsConfigured'
  BY <1>1, <1>3 DEF SaverIsConfigured, Saves, SavesAlone, Source, Chosen, SliceIsConfigured,
                    diskVars, loadVars
<1> QED BY <1>1, <1>2, <1>4
        DEF CopyIsOlder, ReadIsConfigured, SliceIsConfigured, SaversRun, Chosen, diskVars, loadVars

LEMMA ReadReplacedStep ==
    ASSUME SettingsInv, NEW w \in Writers, ReadReplaced(w)
    PROVE  SettingsInv'
<1> USE DEF SettingsInv, SettingsTypeOK
<1> DEFINE out == DocumentToWrite(saver[w].doc, Replaced)
<1>1. out \in Docs /\ out.prefs = saver[w].doc.prefs
  BY WriteKeeps, ReplacedIsRead DEF Savings
<1>2. /\ saver[w].at = "saving"
      /\ UNCHANGED <<diskVars, build, client, loadVars, memory, writable, savedOnce, limits>>
      /\ blind' \in BOOLEAN
      /\ \/ saver' = [saver EXCEPT ![w] = NotSaving] /\ lock' \in {NoSaver, lock} /\ unsaved' = TRUE
            /\ (lock = w \/ lock' = lock)
         \/ /\ writable
            /\ saver' = [saver EXCEPT ![w] = [at |-> "writing", doc |-> out]]
            /\ UNCHANGED <<lock, unsaved>>
  BY DEF ReadReplaced, Refuses, SaveEnds
<1> HIDE DEF out
<1>3. SettingsTypeOK'
  BY <1>1, <1>2, SavingTypes DEF diskVars, loadVars, limits
<1>4. \A v \in Writers : v # w => saver'[v] = saver[v] /\ ~Saves(v) /\ ~Saves(v)'
  BY <1>2, WritersDiffer DEF SaverIsConfigured, Saves, SavesAlone
<1>5. \/ ~Saves(w)'
      \/ writable /\ saver'[w] = [at |-> "writing", doc |-> out] /\ lock' = lock
  BY <1>2, SavingTypes DEF Saves
<1>6. SaverIsConfigured'
  BY <1>1, <1>2, <1>4, <1>5
     DEF SaverIsConfigured, Saves, SavesAlone, Source, Chosen, diskVars, loadVars
<1>8. client # "off" /\ saver'[w].at \in {"idle", "writing"}
  BY <1>2, SavingTypes DEF SaversRun
<1>7. SaversRun'
  BY <1>2, <1>4, <1>8, WritersDiffer DEF SaversRun
<1> QED BY <1>2, <1>3, <1>6, <1>7
        DEF CopyIsOlder, ReadIsConfigured, SliceIsConfigured, Chosen, diskVars, loadVars

LEMMA WriteStep ==
    ASSUME SettingsInv, NEW w \in Writers, Write(w)
    PROVE  SettingsInv'
<1> USE DEF SettingsInv, SettingsTypeOK
<1>1. /\ saver[w].at = "writing" /\ Saves(w)
      /\ saver' = [saver EXCEPT ![w] = NotSaving] /\ lock' \in {NoSaver, lock}
      /\ file' \in {saver[w].doc, file} /\ savedOnce' \in BOOLEAN /\ unsaved' \in BOOLEAN
      /\ UNCHANGED <<copy, held, build, client, loadVars, memory, writable, blind, limits>>
  BY DEF Write, SaveEnds, Saves
<1>2. /\ writable
      /\ Chosen => saver[w].doc.prefs # 0
      /\ saver[w].doc.prefs # 0 => Source.prefs # 0
      /\ SavesAlone(w)
  BY <1>1 DEF SaverIsConfigured
<1>3. SettingsTypeOK'
  BY <1>1, SavingTypes DEF loadVars, limits, Savings
<1>4. CopyIsOlder'
  BY <1>1, <1>2 DEF CopyIsOlder, Chosen
<1>5. \A v \in Writers : ~Saves(v)'
  BY <1>1, <1>2, SavingTypes, WritersDiffer DEF SaverIsConfigured, Saves, SavesAlone
<1>6. ReadIsConfigured' /\ SliceIsConfigured'
  BY <1>1, <1>2
     DEF ReadIsConfigured, SliceIsConfigured, Chosen, Source, SavesAlone, loadVars
<1>7. SaversRun'
  BY <1>1, SavingTypes DEF SaversRun
<1> QED BY <1>3, <1>4, <1>5, <1>6, <1>7 DEF SaverIsConfigured

LEMMA QuitStep ==
    ASSUME SettingsInv, Quit
    PROVE  SettingsInv'
<1> USE DEF SettingsInv, SettingsTypeOK
<1>1. SettingsTypeOK'
  BY SavingTypes DEF Quit, diskVars, loadVars, limits, histories, Stages
<1>2. \A w \in Writers : saver'[w].at = "idle"
  BY SavingTypes DEF Quit
<1> QED BY <1>1, <1>2, WritersDiffer
        DEF Quit, diskVars, CopyIsOlder, ReadIsConfigured, SliceIsConfigured,
            SaverIsConfigured, SaversRun, Saves

LEMMA InterfereStep ==
    ASSUME SettingsInv, Interfere
    PROVE  SettingsInv'
<1> USE DEF SettingsInv, SettingsTypeOK
<1>5. mishaps' \in 0 .. MaxMishaps
  BY Bounds DEF Interfere
<1>1. /\ file' \in {file, Missing} /\ held' \in BOOLEAN
      /\ UNCHANGED <<copy, build, client, loadVars, memory, writable, lock, saver, histories,
                     changes, starts>>
  BY DEF Interfere
<1>2. SettingsTypeOK'
  BY <1>1, <1>5 DEF loadVars, histories
<1>3. Chosen' => Chosen
  BY <1>1, MissingIsNoDoc DEF Chosen
<1>4. SaverIsConfigured'
  BY <1>1, <1>3 DEF SaverIsConfigured, Saves, SavesAlone, Source, loadVars
<1> QED BY <1>1, <1>2, <1>3, <1>4
        DEF CopyIsOlder, ReadIsConfigured, SliceIsConfigured, SaversRun, loadVars

LEMMA NextSettings == SettingsInv /\ [SettingsNext]_settingsVars => SettingsInv'
<1> SUFFICES ASSUME SettingsInv, [SettingsNext]_settingsVars PROVE SettingsInv'
  OBVIOUS
<1>1. CASE UNCHANGED settingsVars
  BY <1>1 DEF settingsVars, diskVars, loadVars, histories, limits, SettingsInv, SettingsTypeOK,
              CopyIsOlder, ReadIsConfigured, SliceIsConfigured, SaverIsConfigured, SaversRun,
              Saves, SavesAlone, Source, Chosen
<1>2. CASE SettingsNext
  BY <1>2, LaunchesKeep, ReadStep, DiscoverStep, AnnounceStep, MarkLoadedStep, ChangeStep,
     PersistStep, AcquireOrderStep, ReadReplacedStep, WriteStep, QuitStep, InterfereStep
     DEF SettingsNext
<1> QED BY <1>1, <1>2

-----------------------------------------------------------------------------
(* What is on disk and in the slice of the settings stays consistent: see   *)
(* the parts of SettingsInv.                                                *)
THEOREM SettingsInvariant == SettingsSpec => []SettingsInv
<1>1. SettingsInit => SettingsInv
  BY InitSettings
<1>2. SettingsInv /\ [SettingsNext]_settingsVars => SettingsInv'
  BY NextSettings
<1> QED BY <1>1, <1>2, PTL DEF SettingsSpec

(* The disk is written by saves and mishaps alone.                          *)
LEMMA OnlyWritesWrite ==
    ASSUME [SettingsNext]_settingsVars, file' \notin {file, Missing}
    PROVE  \E w \in Writers : Write(w) /\ file' = saver[w].doc
BY DEF SettingsNext, settingsVars, diskVars, Launch, Read, Discover, AnnounceLoaded, MarkLoaded, Change,
       Persist, AcquireOrder, ReadReplaced, Write, Quit, Interfere

(* A write never puts defaults over what the player chose: the load and the *)
(* commands have read, or taken from the slice, what the disk remembers.    *)
LEMMA NeverResetStep ==
    ASSUME SettingsInv, [SettingsNext]_settingsVars
    PROVE  [ LET before == IF file = Missing THEN copy ELSE file IN
             file' \notin {file, Missing} /\ before # Missing /\ before.prefs # 0
                 => file'.prefs # 0 ]_settingsVars
<1>1. file' \notin {file, Missing} /\ Chosen => file'.prefs # 0
  BY OnlyWritesWrite DEF Write, SettingsInv, SaverIsConfigured, Saves
<1> QED BY <1>1 DEF Chosen

(* Nothing the player chose is ever replaced by defaults on disk.           *)
THEOREM ChoicesAreNeverReset == SettingsSpec => NeverReset
<1>1. SettingsInv /\ [SettingsNext]_settingsVars =>
        [ LET before == IF file = Missing THEN copy ELSE file IN
          file' \notin {file, Missing} /\ before # Missing /\ before.prefs # 0
              => file'.prefs # 0 ]_settingsVars
  BY NeverResetStep
<1> QED BY <1>1, SettingsInvariant, PTL DEF SettingsSpec, NeverReset

-----------------------------------------------------------------------------
(* The disk holds what the slice does.                                      *)

(* What this run has written, or what its load makes of the file.           *)
Expected == IF savedOnce THEN OnDisk ELSE WithoutFilters(OnDisk)

OnTheWay(w) == saver[w].at \in {"changed", "queued"}

(* Whatever is being saved is what the load, or the slice, holds, unless    *)
(* someone behind it will save again.                                       *)
TakenIsNewest ==
    \A w \in Writers : Saves(w) =>
        \/ ReadAs(saver[w].doc, build) = Source
        \/ client = "up" /\ \E v \in Writers : OnTheWay(v)

(* The older build never gets to see what it has no field for.              *)
OlderKnowsLess == build = "older" => memory.extra = 0 /\ stored.extra = 0

(* With nothing interfering a copy is only ever kept beside its file.       *)
CopyHasFile == mishaps = 0 => ~held /\ (file = Missing => copy = Missing)

NothingSavedYet == client \in {"reading", "read"} => ~savedOnce

Undisturbed == writable /\ ~unsaved /\ mishaps = 0

LoadIsDisk ==
    client \in {"read", "found"} /\ Undisturbed /\ ~Saves(Loader) => stored = Expected

(* A slice that is not on disk yet has a saver on its way.                  *)
SliceIsComing ==
    client \in {"announced", "up"} /\ Undisturbed =>
        memory = Expected \/ \E w \in Writers : saver[w].at # "idle"

SameInv == /\ TakenIsNewest /\ OlderKnowsLess /\ CopyHasFile
           /\ NothingSavedYet /\ LoadIsDisk /\ SliceIsComing

(* What this build reads back is what it wrote.                             *)
LEMMA ReadBack ==
    ASSUME NEW doc \in Docs, NEW replaced \in Docs \cup {Missing}, build \in {"older", "newer"}
    PROVE  ReadAs(DocumentToWrite(doc, replaced), build) = ReadAs(doc, build)
BY Bounds DEF ReadAs, DocumentToWrite, Docs

LEMMA ReadsAlike ==
    ASSUME NEW doc \in Docs, NEW b \in {"older", "newer"}, b = "older" => doc.extra = 0
    PROVE  ReadAs(doc, b) = doc
BY DEF ReadAs, Docs

LEMMA OlderReadsLess ==
    ASSUME NEW doc \in Docs
    PROVE  ReadAs(doc, "older").extra = 0
BY Bounds DEF ReadAs, Docs

LEMMA InitSame == SettingsInit => SameInv
<1> SUFFICES ASSUME SettingsInit PROVE SameInv
  OBVIOUS
<1>1. \A w \in Writers : saver[w].at = "idle"
  BY SavingTypes DEF SettingsInit
<1> QED BY <1>1 DEF SettingsInit, SameInv, TakenIsNewest, OlderKnowsLess, CopyHasFile,
                    NothingSavedYet, LoadIsDisk, SliceIsComing, Saves

LEMMA SameLaunch ==
    ASSUME SettingsInv, SameInv, NEW b \in {"older", "newer"}, Launch(b)
    PROVE  SameInv'
<1>1. \A w \in Writers : saver'[w].at = "idle"
  BY DEF Launch, SettingsInv, SaversRun
<1> QED BY <1>1 DEF Launch, SameInv, TakenIsNewest, OlderKnowsLess, CopyHasFile, NothingSavedYet,
                    LoadIsDisk, SliceIsComing, Saves, Defaults, diskVars

LEMMA SameRead ==
    ASSUME SettingsInv, SameInv, Read
    PROVE  SameInv'
<1> USE DEF SettingsInv, SettingsTypeOK
<1>1. /\ client = "reading" /\ client' = "read"
      /\ UNCHANGED <<file, held, build, memory, lock, saver, histories, limits>>
  BY DEF Read
<1>2. \A w \in Writers : ~Saves(w) /\ ~Saves(w)'
  BY <1>1 DEF SaverIsConfigured, SavesAlone, Saves
<1>3. Defaults.extra = 0 /\ WithoutFilters(Defaults) = Defaults
  <2>1. \A doc \in Docs : doc.filters = FALSE => WithoutFilters(doc) = doc
    BY DEF WithoutFilters, Docs
  <2> QED BY <2>1, MissingIsNoDoc DEF Defaults
<1>4. \A doc \in Docs : build = "older" => WithoutFilters(ReadAs(doc, build)).extra = 0
  BY OlderReadsLess, ReadAsKeeps, WithoutFiltersKeeps
<1>5. OlderKnowsLess'
  BY <1>1, <1>3, <1>4 DEF SameInv, OlderKnowsLess, Read
<1>6. CopyHasFile'
  BY DEF SameInv, CopyHasFile, Read, limits
<1>7. LoadIsDisk'
  BY <1>1, <1>3
     DEF SameInv, CopyHasFile, NothingSavedYet, LoadIsDisk, Undisturbed, Expected, OnDisk, Read,
         histories, limits
<1> QED BY <1>1, <1>2, <1>5, <1>6, <1>7
        DEF SameInv, TakenIsNewest, NothingSavedYet, SliceIsComing, histories

LEMMA SameDiscover ==
    ASSUME SettingsInv, SameInv, Discover
    PROVE  SameInv'
<1> USE DEF SettingsInv, SettingsTypeOK
<1>1. /\ client = "read" /\ client' = "found"
      /\ UNCHANGED <<diskVars, build, fresh, memory, writable, lock, histories, limits>>
      /\ stored' \in Docs /\ stored'.extra = stored.extra
      /\ \/ saver' = [saver EXCEPT ![Loader] = [at |-> "saving", doc |-> stored']]
         \/ UNCHANGED <<stored, saver>>
  BY DEF Discover, Docs
<1>2. \A w \in Writers : ~Saves(w)
  BY <1>1 DEF SaverIsConfigured, SavesAlone
<1>3. OlderKnowsLess' /\ CopyHasFile'
  BY <1>1 DEF SameInv, OlderKnowsLess, CopyHasFile, diskVars, limits
<1>4. build = "older" => stored'.extra = 0
  BY <1>1 DEF SameInv, OlderKnowsLess
<1>5. ReadAs(stored', build) = stored'
  BY <1>1, <1>4, ReadsAlike
<1>6. TakenIsNewest'
  BY <1>1, <1>2, <1>5, WritersDiffer DEF TakenIsNewest, Saves, Source
<1>7. LoadIsDisk'
  <2>1. CASE UNCHANGED <<stored, saver>>
    BY <1>1, <1>2, <2>1, WritersDiffer
       DEF SameInv, LoadIsDisk, Undisturbed, Expected, OnDisk, diskVars, histories, limits
  <2>2. CASE saver' = [saver EXCEPT ![Loader] = [at |-> "saving", doc |-> stored']]
    BY <2>2, WritersDiffer DEF LoadIsDisk, Saves
  <2> QED BY <1>1, <2>1, <2>2
<1> QED BY <1>1, <1>3, <1>6, <1>7 DEF SameInv, NothingSavedYet, SliceIsComing

LEMMA SameAnnounce ==
    ASSUME SettingsInv, SameInv, AnnounceLoaded
    PROVE  SameInv'
<1> USE DEF SettingsInv, SettingsTypeOK
<1>1. /\ client = "found" /\ client' = "announced" /\ saver[Loader].at = "idle"
      /\ UNCHANGED <<diskVars, build, writable, lock, histories, limits>>
      /\ stored' = Defaults
      /\ memory'.extra = stored.extra
      /\ \/ saver' = [saver EXCEPT ![Loader] = [at |-> "changed", doc |-> memory']]
         \/ memory' = stored /\ UNCHANGED saver
  BY DEF AnnounceLoaded, Docs
<1>2. \A w \in Writers : ~Saves(w) /\ ~Saves(w)'
  BY <1>1, WritersDiffer DEF SaverIsConfigured, SavesAlone, Saves
<1>3. OlderKnowsLess' /\ CopyHasFile'
  BY <1>1 DEF SameInv, OlderKnowsLess, CopyHasFile, diskVars, limits, Defaults
<1>4. SliceIsComing'
  <2>1. CASE memory' = stored
    BY <1>1, <1>2, <2>1, WritersDiffer
       DEF SameInv, LoadIsDisk, SliceIsComing, Undisturbed, Expected, OnDisk, diskVars, histories,
           limits
  <2>2. CASE saver' = [saver EXCEPT ![Loader] = [at |-> "changed", doc |-> memory']]
    BY <2>2, WritersDiffer DEF SliceIsComing
  <2> QED BY <1>1, <2>1, <2>2
<1> QED BY <1>1, <1>2, <1>3, <1>4 DEF SameInv, TakenIsNewest, NothingSavedYet, LoadIsDisk

LEMMA SameMarkLoaded ==
    ASSUME SettingsInv, SameInv, MarkLoaded
    PROVE  SameInv'
<1> USE DEF SettingsInv, SettingsTypeOK
<1>1. \A w \in Writers : ~Saves(w) /\ ~Saves(w)'
  BY DEF MarkLoaded, SaverIsConfigured, SavesAlone, Saves
<1> QED BY <1>1
        DEF MarkLoaded, diskVars, loadVars, histories, limits, SameInv, TakenIsNewest,
            OlderKnowsLess, CopyHasFile, NothingSavedYet, LoadIsDisk, SliceIsComing, Undisturbed,
            Expected, OnDisk

LEMMA SameChange ==
    ASSUME SettingsInv, SameInv, NEW w \in Savers, Change(w)
    PROVE  SameInv'
<1> USE DEF SettingsInv, SettingsTypeOK
<1>1. /\ client # "off" /\ saver[w].at = "idle"
      /\ UNCHANGED <<diskVars, build, client, loadVars, writable, lock, histories, starts, mishaps>>
  BY DEF Change
<1>2. /\ build = "older" => memory'.extra = memory.extra
      /\ saver' = [saver EXCEPT ![w] = [at |-> "changed", doc |-> memory']]
  BY ChangeKeeps
<1>3. /\ \A v \in Writers : v # w => saver'[v] = saver[v]
      /\ saver'[w].at = "changed" /\ w \in Writers /\ w # Loader
  BY <1>2, WritersDiffer
<1>4. TakenIsNewest'
  <2> SUFFICES ASSUME NEW v \in Writers, Saves(v)'
               PROVE  \/ (ReadAs(saver[v].doc, build) = Source)'
                      \/ client' = "up" /\ \E u \in Writers : OnTheWay(u)'
    BY DEF TakenIsNewest
  <2>1. v # w /\ Saves(v)
    BY <1>3 DEF Saves
  <2>2. CASE client = "up"
    BY <1>1, <1>3, <2>2 DEF OnTheWay
  <2>3. CASE client # "up"
    BY <1>1, <1>3, <2>1, <2>3
       DEF SameInv, TakenIsNewest, SaverIsConfigured, SavesAlone, Source, loadVars
  <2> QED BY <2>2, <2>3
<1>5. SliceIsComing'
  BY <1>3 DEF SliceIsComing
<1>6. OlderKnowsLess' /\ CopyHasFile' /\ NothingSavedYet'
  BY <1>1, <1>2
     DEF SameInv, OlderKnowsLess, CopyHasFile, NothingSavedYet, diskVars, loadVars, histories
<1>7. LoadIsDisk'
  BY <1>1, <1>3, WritersDiffer
     DEF SameInv, LoadIsDisk, Undisturbed, Expected, OnDisk, Saves, diskVars, loadVars, histories
<1> QED BY <1>4, <1>5, <1>6, <1>7 DEF SameInv

LEMMA SamePersist ==
    ASSUME SettingsInv, SameInv, NEW w \in Writers, Persist(w)
    PROVE  SameInv'
<1> USE DEF SettingsInv, SettingsTypeOK
<1>1. /\ saver[w].at = "changed"
      /\ UNCHANGED <<diskVars, build, client, loadVars, memory, writable, lock, savedOnce, blind, limits>>
      /\ \/ client = "up" /\ saver' = [saver EXCEPT ![w] = InLine] /\ UNCHANGED unsaved
         \/ /\ client # "up" /\ saver' = [saver EXCEPT ![w] = NotSaving]
            /\ unsaved' = (unsaved \/ client = "announced")
  BY DEF Persist
<1>2. /\ \A v \in Writers : v # w => saver'[v] = saver[v]
      /\ client = "up" => saver'[w].at = "queued"
      /\ ~Saves(w) /\ ~Saves(w)'
  BY <1>1, SavingTypes DEF Saves
<1>3. TakenIsNewest'
  <2> SUFFICES ASSUME NEW v \in Writers, Saves(v)'
               PROVE  \/ (ReadAs(saver[v].doc, build) = Source)'
                      \/ client' = "up" /\ \E u \in Writers : OnTheWay(u)'
    BY DEF TakenIsNewest
  <2>1. v # w /\ Saves(v)
    BY <1>2 DEF Saves
  <2>2. CASE client = "up"
    BY <1>1, <1>2, <2>2 DEF OnTheWay
  <2>3. CASE client # "up"
    BY <1>1, <1>2, <2>1, <2>3
       DEF SameInv, TakenIsNewest, SaverIsConfigured, SavesAlone, Source, loadVars
  <2> QED BY <2>2, <2>3
<1>4. SliceIsComing'
  <2>1. CASE client = "up"
    BY <1>2, <2>1 DEF SliceIsComing
  <2>2. CASE client # "up"
    BY <1>1, <2>2 DEF SliceIsComing, Undisturbed
  <2> QED BY <2>1, <2>2
<1>5. OlderKnowsLess' /\ CopyHasFile' /\ NothingSavedYet'
  BY <1>1
     DEF SameInv, OlderKnowsLess, CopyHasFile, NothingSavedYet, diskVars, loadVars, limits
<1>6. LoadIsDisk'
  <2>1. Saves(Loader)' <=> Saves(Loader)
    BY <1>2, WritersDiffer DEF Saves
  <2> QED BY <1>1, <2>1
       DEF SameInv, LoadIsDisk, Undisturbed, Expected, OnDisk, diskVars, loadVars, limits
<1> QED BY <1>3, <1>4, <1>5, <1>6 DEF SameInv

LEMMA SameAcquire ==
    ASSUME SettingsInv, SameInv, NEW w \in Writers, AcquireOrder(w)
    PROVE  SameInv'
<1> USE DEF SettingsInv, SettingsTypeOK
<1>1. /\ client = "up" /\ lock = NoSaver
      /\ saver' = [saver EXCEPT ![w] = [at |-> "saving", doc |-> memory]]
      /\ UNCHANGED <<diskVars, build, client, loadVars, memory, writable, histories, limits>>
  BY DEF AcquireOrder, SaversRun
<1>2. ReadAs(memory, build) = memory
  BY ReadsAlike DEF SameInv, OlderKnowsLess
<1>3. \A v \in Writers : ~Saves(v)
  BY <1>1, WritersDiffer DEF SaverIsConfigured, SavesAlone
<1>4. /\ saver'[w] = [at |-> "saving", doc |-> memory]
      /\ \A v \in Writers \ {w} : saver'[v] = saver[v]
  BY <1>1
<1>5. TakenIsNewest'
  BY <1>1, <1>2, <1>3, <1>4 DEF TakenIsNewest, Saves, Source
<1>6. SliceIsComing'
  BY <1>4 DEF SliceIsComing
<1> QED BY <1>1, <1>5, <1>6
        DEF SameInv, OlderKnowsLess, CopyHasFile, NothingSavedYet, LoadIsDisk, diskVars, loadVars,
            limits

LEMMA SameReplaced ==
    ASSUME SettingsInv, SameInv, NEW w \in Writers, ReadReplaced(w)
    PROVE  SameInv'
<1> USE DEF SettingsInv, SettingsTypeOK
<1> DEFINE out == DocumentToWrite(saver[w].doc, Replaced)
<1>1. ReadAs(out, build) = ReadAs(saver[w].doc, build)
  BY ReadBack, ReplacedIsRead DEF Savings
<1>2. /\ saver[w].at = "saving"
      /\ UNCHANGED <<diskVars, build, client, loadVars, memory, writable, savedOnce, limits>>
      /\ \/ saver' = [saver EXCEPT ![w] = NotSaving] /\ unsaved' = TRUE
         \/ /\ saver' = [saver EXCEPT ![w] = [at |-> "writing", doc |-> out]]
            /\ UNCHANGED unsaved
  BY DEF ReadReplaced, SaveEnds
<1> HIDE DEF out
<1>3. /\ \A v \in Writers : v # w => saver'[v] = saver[v]
      /\ Saves(w) /\ ~OnTheWay(w)
  BY <1>2 DEF Saves, OnTheWay
<1>4. TakenIsNewest'
  <2> SUFFICES ASSUME NEW v \in Writers, Saves(v)'
               PROVE  \/ (ReadAs(saver[v].doc, build) = Source)'
                      \/ client' = "up" /\ \E u \in Writers : OnTheWay(u)'
    BY DEF TakenIsNewest
  <2>1. \A u \in Writers : OnTheWay(u) => OnTheWay(u)'
    BY <1>3 DEF OnTheWay
  <2>2. /\ Saves(v)
        /\ ReadAs(saver'[v].doc, build) = ReadAs(saver[v].doc, build)
    BY <1>1, <1>2, <1>3, SavingTypes DEF Saves
  <2>3. Source' = Source
    BY <1>2 DEF Source, loadVars
  <2> QED BY <1>2, <2>1, <2>2, <2>3 DEF SameInv, TakenIsNewest
<1>5. unsaved' \/ (saver'[w].at # "idle" /\ Saves(w)')
  BY <1>2 DEF Saves
<1>6. Saves(Loader)' => Saves(Loader)
  BY <1>3, WritersDiffer DEF Saves
<1>7. SliceIsComing'
  BY <1>5 DEF SliceIsComing, Undisturbed
<1>8. LoadIsDisk'
  <2>1. CASE unsaved'
    BY <2>1 DEF LoadIsDisk, Undisturbed
  <2>2. CASE Saves(w)' /\ client \in {"read", "found"}
    BY <1>3, <2>2 DEF SaverIsConfigured, SavesAlone, LoadIsDisk
  <2> QED BY <1>2, <1>5, <2>1, <2>2 DEF LoadIsDisk
<1> QED BY <1>2, <1>4, <1>7, <1>8
        DEF SameInv, OlderKnowsLess, CopyHasFile, NothingSavedYet, diskVars, loadVars, limits

LEMMA SameWrite ==
    ASSUME SettingsInv, SameInv, NEW w \in Writers, Write(w)
    PROVE  SameInv'
<1> USE DEF SettingsInv, SettingsTypeOK
<1>1. /\ saver[w].at = "writing" /\ Saves(w)
      /\ saver' = [saver EXCEPT ![w] = NotSaving]
      /\ UNCHANGED <<copy, held, build, client, loadVars, memory, writable, blind, limits>>
      /\ \/ file' = saver[w].doc /\ savedOnce' = TRUE
         \/ file' = file /\ savedOnce' = savedOnce /\ unsaved'
  BY DEF Write, SaveEnds, Saves
<1>2. SavesAlone(w) /\ saver[w].doc \in Docs
  BY <1>1 DEF SaverIsConfigured, Savings
<1>3. \A v \in Writers : ~Saves(v)'
  BY <1>1, <1>2, SavingTypes, WritersDiffer DEF SaverIsConfigured, Saves, SavesAlone
<1>4. \A v \in Writers : OnTheWay(v) => saver'[v].at # "idle"
  BY <1>1 DEF OnTheWay
<1>5. /\ client \in {"found", "up"}
      /\ \/ unsaved'
         \/ Expected' = ReadAs(saver[w].doc, build)
  BY <1>1, <1>2, MissingIsNoDoc DEF SavesAlone, Expected, OnDisk
<1>6. SliceIsComing' /\ LoadIsDisk'
  <2>1. CASE unsaved'
    BY <2>1 DEF SliceIsComing, LoadIsDisk, Undisturbed
  <2>2. CASE client = "up" /\ \E v \in Writers : OnTheWay(v)
    BY <1>1, <1>4, <2>2 DEF SliceIsComing, LoadIsDisk
  <2>3. CASE Expected' = Source
    BY <1>1, <1>5, <2>3 DEF SliceIsComing, LoadIsDisk, Source, loadVars
  <2> QED BY <1>1, <1>5, <2>1, <2>2, <2>3 DEF SameInv, TakenIsNewest
<1>7. CopyHasFile'
  BY <1>1, <1>2, MissingIsNoDoc DEF SameInv, CopyHasFile, limits
<1> QED BY <1>1, <1>3, <1>5, <1>6, <1>7
        DEF SameInv, TakenIsNewest, OlderKnowsLess, NothingSavedYet, loadVars

LEMMA SameNext ==
    ASSUME SettingsInv, SameInv, [SettingsNext]_settingsVars
    PROVE  SameInv'
<1>1. CASE UNCHANGED settingsVars
  BY <1>1 DEF settingsVars, diskVars, loadVars, histories, limits, SameInv, TakenIsNewest,
              OlderKnowsLess, CopyHasFile, NothingSavedYet, LoadIsDisk, SliceIsComing, Saves,
              Source, OnTheWay, Undisturbed, Expected, OnDisk
<1>2. CASE Quit
  <2>1. \A w \in Writers : ~Saves(w)'
    BY <1>2, SavingTypes DEF Quit, Saves
  <2> QED BY <1>2, <2>1
          DEF Quit, SameInv, TakenIsNewest, OlderKnowsLess, CopyHasFile, NothingSavedYet,
              LoadIsDisk, SliceIsComing, diskVars, loadVars, limits
<1>3. CASE Interfere
  <2>1. /\ mishaps' # 0
        /\ UNCHANGED <<copy, build, client, loadVars, memory, writable, lock, saver, histories>>
    BY <1>3 DEF Interfere, SettingsInv, SettingsTypeOK
  <2>2. TakenIsNewest'
    BY <2>1 DEF SameInv, TakenIsNewest, Saves, Source, OnTheWay, loadVars
  <2> QED BY <2>1, <2>2
          DEF SameInv, OlderKnowsLess, CopyHasFile, NothingSavedYet, LoadIsDisk, SliceIsComing,
              Undisturbed, loadVars, histories
<1> QED BY <1>1, <1>2, <1>3, SameLaunch, SameRead, SameDiscover, SameAnnounce, SameMarkLoaded,
           SameChange, SamePersist, SameAcquire, SameReplaced, SameWrite DEF SettingsNext

(* The newest settings are what is on disk: try_persist takes the slice     *)
(* under the write order, so the last writer has the last of it, and the    *)
(* load saves what it found before it announces it.                         *)
THEOREM NewestSettingsAreSaved == SettingsSpec => []DiskIsMemory
<1>1. SameInv => DiskIsMemory
  BY DEF SameInv, SliceIsComing, DiskIsMemory, Undisturbed, Expected
<1> QED BY <1>1, InitSame, SameNext, SettingsInvariant, PTL DEF SettingsSpec

-----------------------------------------------------------------------------
(* What a newer build keeps in the file.                                    *)

(* What the client works with: the file, or the copy of one that is gone.   *)
Before == IF file = Missing THEN copy ELSE file

(* No document without a game path is ever written.                         *)
PathsAreKnown ==
    /\ file # Missing => file.path
    /\ copy # Missing => copy.path
    /\ client = "found" => stored.path
    /\ client \in {"announced", "up"} => memory.path
    /\ \A w \in Writers : Saves(w) => saver[w].doc.path

(* While an older build saves over files it can open, the copy and what is  *)
(* about to be written keep the newer build's key.                          *)
KeysAreKept ==
    build = "older" /\ writable /\ ~blind =>
        /\ client \in {"read", "found", "announced", "up"} /\ file # Missing /\ copy # Missing
              => copy.extra = file.extra
        /\ \A w \in Writers : saver[w].at = "writing" /\ Before # Missing
              => saver[w].doc.extra = Before.extra

KeysInv == PathsAreKnown /\ KeysAreKept

LEMMA InitKeys == SettingsInit => KeysInv
<1> SUFFICES ASSUME SettingsInit PROVE KeysInv
  OBVIOUS
<1>1. \A w \in Writers : saver[w].at = "idle"
  BY SavingTypes DEF SettingsInit
<1>2. (file # Missing => file.path) /\ copy = Missing
  BY DEF SettingsInit, Configured
<1> QED BY <1>1, <1>2 DEF SettingsInit, KeysInv, PathsAreKnown, KeysAreKept, Saves

LEMMA KeysRead ==
    ASSUME SettingsInv, KeysInv, Read
    PROVE  KeysInv'
<1> USE DEF SettingsInv, SettingsTypeOK
<1>1. client = "reading" /\ client' = "read" /\ UNCHANGED <<file, build, saver, histories>>
  BY DEF Read
<1>2. \A w \in Writers : ~Saves(w) /\ ~Saves(w)'
  BY <1>1 DEF SaverIsConfigured, SavesAlone, Saves
<1>3. file # Missing => ~Pristine(ReadAs(file, build))
  BY ReadAsKeeps DEF KeysInv, PathsAreKnown, Pristine, Defaults
<1>4. PathsAreKnown'
  BY <1>1, <1>2 DEF KeysInv, PathsAreKnown, Read
<1>5. KeysAreKept'
  BY <1>1, <1>2, <1>3 DEF KeysAreKept, Read, Saves
<1> QED BY <1>4, <1>5 DEF KeysInv

LEMMA KeysLoad ==
    ASSUME SettingsInv, KeysInv, Discover \/ AnnounceLoaded \/ MarkLoaded
    PROVE  KeysInv'
<1> USE DEF SettingsInv, SettingsTypeOK
<1>1. UNCHANGED <<file, copy, build, writable, blind>>
  BY DEF Discover, AnnounceLoaded, MarkLoaded, diskVars, histories
<1>2. \A w \in Writers : saver'[w].at # "writing"
  BY WritersDiffer DEF Discover, AnnounceLoaded, MarkLoaded, SaverIsConfigured, Saves, SavesAlone
<1>3. KeysAreKept'
  BY <1>1, <1>2 DEF KeysInv, KeysAreKept, Discover, AnnounceLoaded, MarkLoaded
<1>4. /\ client' = "found" => stored'.path
      /\ client' \in {"announced", "up"} => memory'.path
  BY DEF KeysInv, PathsAreKnown, Discover, AnnounceLoaded, MarkLoaded, Docs
<1>5. \A w \in Writers : Saves(w)' => saver'[w].doc.path
  <2> SUFFICES ASSUME NEW w \in Writers, Saves(w)' PROVE saver'[w].doc.path
    OBVIOUS
  <2>1. CASE Discover
    BY <1>4, <2>1, WritersDiffer DEF Discover, SaverIsConfigured, Saves, SavesAlone
  <2>2. CASE AnnounceLoaded
    BY <2>2, WritersDiffer DEF AnnounceLoaded, SaverIsConfigured, Saves, SavesAlone
  <2>3. CASE MarkLoaded
    BY <2>3 DEF MarkLoaded, SaverIsConfigured, Saves, SavesAlone
  <2> QED BY <2>1, <2>2, <2>3
<1> QED BY <1>1, <1>3, <1>4, <1>5 DEF KeysInv, PathsAreKnown

LEMMA KeysChange ==
    ASSUME SettingsInv, KeysInv,
           (\E w \in Savers : Change(w)) \/ (\E w \in Writers : Persist(w) \/ AcquireOrder(w))
    PROVE  KeysInv'
<1> USE DEF SettingsInv, SettingsTypeOK
<1>1. UNCHANGED <<diskVars, build, client, stored, writable, blind>>
  BY DEF Change, Persist, AcquireOrder, loadVars, histories
<1>2. memory'.path = memory.path
  BY ChangeKeeps DEF Persist, AcquireOrder
<1>3. \A w \in Writers : saver'[w].at = "writing" => saver'[w] = saver[w]
  <2>1. CASE \E w \in Savers : Change(w)
    BY <2>1, WritersDiffer, ChangeKeeps
  <2>2. ASSUME NEW w \in Writers, Persist(w) \/ AcquireOrder(w)
        PROVE  \A v \in Writers : saver'[v].at = "writing" => saver'[v] = saver[v]
    BY <2>2, SavingTypes DEF Persist, AcquireOrder
  <2> QED BY <2>1, <2>2
<1>4. \A w \in Writers : Saves(w)' => saver'[w].doc.path
  <2>1. ASSUME NEW w \in Savers, Change(w)
        PROVE  \A v \in Writers : Saves(v)' => saver'[v].doc.path
    BY <2>1, WritersDiffer, ChangeKeeps DEF KeysInv, PathsAreKnown, Saves
  <2>2. ASSUME NEW w \in Writers, Persist(w)
        PROVE  \A v \in Writers : Saves(v)' => saver'[v].doc.path
    BY <2>2, SavingTypes DEF Persist, KeysInv, PathsAreKnown, Saves
  <2>3. ASSUME NEW w \in Writers, AcquireOrder(w)
        PROVE  \A v \in Writers : Saves(v)' => saver'[v].doc.path
    BY <2>3 DEF AcquireOrder, KeysInv, PathsAreKnown, Saves, SaversRun
  <2> QED BY <2>1, <2>2, <2>3
<1>5. PathsAreKnown'
  BY <1>1, <1>2, <1>4 DEF KeysInv, PathsAreKnown, diskVars
<1>6. KeysAreKept'
  BY <1>1, <1>3 DEF KeysInv, KeysAreKept, Before, diskVars
<1> QED BY <1>5, <1>6 DEF KeysInv

LEMMA KeysReplaced ==
    ASSUME SettingsInv, KeysInv, NEW w \in Writers, ReadReplaced(w)
    PROVE  KeysInv'
<1> USE DEF SettingsInv, SettingsTypeOK
<1> DEFINE out == DocumentToWrite(saver[w].doc, Replaced)
<1>1. /\ out.path = saver[w].doc.path
      /\ build = "older" /\ Replaced # Missing => out.extra = Replaced.extra
  BY WriteKeeps, ReplacedIsRead DEF Savings
<1>2. /\ saver[w].at = "saving"
      /\ UNCHANGED <<file, copy, held, build, client, stored, memory, writable, limits>>
      /\ blind' = (blind \/ held)
      /\ \/ saver' = [saver EXCEPT ![w] = NotSaving]
         \/ saver' = [saver EXCEPT ![w] = [at |-> "writing", doc |-> out]]
  BY DEF ReadReplaced, SaveEnds, diskVars, loadVars
<1> HIDE DEF out
<1>3. ~held => Replaced = Before
  BY DEF Replaced, Before
<1>4. \A v \in Writers \ {w} : saver'[v] = saver[v]
  BY <1>2
<1>5. PathsAreKnown'
  BY <1>1, <1>2, <1>4, SavingTypes DEF KeysInv, PathsAreKnown, Saves
<1>6. KeysAreKept'
  BY <1>1, <1>2, <1>3, <1>4, SavingTypes DEF KeysInv, KeysAreKept, Before
<1> QED BY <1>5, <1>6 DEF KeysInv

LEMMA KeysWrite ==
    ASSUME SettingsInv, KeysInv, NEW w \in Writers, Write(w)
    PROVE  KeysInv'
<1> USE DEF SettingsInv, SettingsTypeOK
<1>1. /\ saver[w].at = "writing" /\ Saves(w)
      /\ saver' = [saver EXCEPT ![w] = NotSaving]
      /\ UNCHANGED <<copy, held, build, client, loadVars, memory, writable, blind, limits>>
      /\ file' \in {saver[w].doc, file}
  BY DEF Write, SaveEnds, Saves
<1>2. \A v \in Writers : ~Saves(v)'
  BY <1>1, SavingTypes, WritersDiffer DEF SaverIsConfigured, Saves, SavesAlone
<1>3. client \in {"found", "up"}
  BY <1>1 DEF SaverIsConfigured, SavesAlone
<1>4. PathsAreKnown'
  BY <1>1, <1>2 DEF KeysInv, PathsAreKnown, loadVars
<1>5. KeysAreKept'
  <2>1. build = "older" /\ writable /\ ~blind /\ file' # Missing /\ copy # Missing
            => copy.extra = file'.extra
    BY <1>1, <1>3 DEF KeysInv, KeysAreKept, Before
  <2> QED BY <1>1, <1>2, <2>1 DEF KeysAreKept, Saves
<1> QED BY <1>4, <1>5 DEF KeysInv

LEMMA KeysNext ==
    ASSUME SettingsInv, KeysInv, [SettingsNext]_settingsVars
    PROVE  KeysInv'
<1> USE DEF SettingsInv
<1>1. CASE UNCHANGED settingsVars
  BY <1>1 DEF settingsVars, diskVars, loadVars, histories, limits, KeysInv, PathsAreKnown,
              KeysAreKept, Before, Saves
<1>2. ASSUME NEW b \in {"older", "newer"}, Launch(b) PROVE KeysInv'
  BY <1>2 DEF Launch, KeysInv, PathsAreKnown, KeysAreKept, SaversRun, Saves, diskVars
<1>3. CASE Quit
  <2>1. \A w \in Writers : saver'[w].at = "idle"
    BY <1>3, SavingTypes DEF Quit
  <2> QED BY <1>3, <2>1 DEF Quit, KeysInv, PathsAreKnown, KeysAreKept, Saves, diskVars
<1>4. CASE Interfere
  BY <1>4 DEF Interfere, KeysInv, PathsAreKnown, KeysAreKept, Before, SaversRun,
              SaverIsConfigured, Saves, SavesAlone, loadVars, histories
<1> QED BY <1>1, <1>2, <1>3, <1>4, KeysRead, KeysLoad, KeysChange, KeysReplaced, KeysWrite
        DEF SettingsNext

LEMMA KeysSurviveStep ==
    ASSUME SettingsInv, KeysInv, [SettingsNext]_settingsVars
    PROVE  [ LET before == IF file = Missing THEN copy ELSE file IN
             file' \notin {file, Missing} /\ before # Missing /\ build = "older" /\ ~blind
                 => file'.extra = before.extra ]_settingsVars
<1>1. file' \notin {file, Missing} /\ Before # Missing /\ build = "older" /\ ~blind
          => file'.extra = Before.extra
  BY OnlyWritesWrite
     DEF Write, SettingsInv, SaverIsConfigured, KeysInv, KeysAreKept, Saves
<1> QED BY <1>1 DEF Before

(* An older build's saves keep what a newer one put into the file: what     *)
(* document_to_write takes over is what the file, or the copy of one that   *)
(* went missing, still holds when the write lands.                          *)
THEOREM OlderBuildsKeepNewerKeys == SettingsSpec => NewerKeysSurvive
<1>1. SettingsInv /\ KeysInv /\ [SettingsNext]_settingsVars =>
        [ LET before == IF file = Missing THEN copy ELSE file IN
          file' \notin {file, Missing} /\ before # Missing /\ build = "older" /\ ~blind
              => file'.extra = before.extra ]_settingsVars
  BY KeysSurviveStep
<1> QED BY <1>1, InitKeys, KeysNext, SettingsInvariant, PTL DEF SettingsSpec, NewerKeysSurvive

-----------------------------------------------------------------------------
(* The variables of SettingsFile keep their types.                          *)
THEOREM SettingsTypes == SettingsSpec => []SettingsTypeOK
<1>1. SettingsInv => SettingsTypeOK
  BY DEF SettingsInv
<1> QED BY <1>1, SettingsInvariant, PTL

-----------------------------------------------------------------------------
(* FolderSwap.  The invariant.                                              *)

Backed(s) == staging[s].backup # Absent
Waits(s) == staging[s].previous # NoName /\ ~Exists(staging[s].target)

(* What a staging folder holds belongs together.                            *)
StagingFits ==
    /\ \A s \in Slots :
         /\ Backed(s) => staging[s].here
         /\ s \in doomed => staging[s].here
         /\ Backed(s) => staging[s].previous \in Folders /\ staging[s].target \in Folders
    /\ process # "up" => op.at = "idle"
    /\ process = "down" => seen = {} /\ doomed = {}

(* What the operation under way has done so far.                            *)
AtPlace == op.kind = "install" /\ Mine.backup = Absent /\ ~op.committed /\ ~Exists(op.target)
AtRecord ==
    /\ op.kind = "replace" /\ op.previous \in Folders /\ Mine.backup = Absent /\ ~op.committed
    /\ op.target # op.previous => ~Exists(op.target)
Recorded == Mine.previous = op.previous /\ Mine.target = op.target
AtSwap ==
    /\ op.kind = "replace" /\ op.previous \in Folders /\ Recorded /\ ~op.committed
    /\ ~Exists(op.previous) /\ ~Exists(op.target)
AtDrop ==
    /\ op.kind = "install" => Mine.backup = Absent
    /\ op.committed => Mine.target = op.target /\ Exists(op.target)

OpFits ==
    /\ op.at # "idle" => op.target \in Folders
    /\ op.at \notin {"idle", "remove"} => op.slot \in Slots /\ op.slot \notin doomed /\ Mine.here
    /\ op.at = "place" => AtPlace
    /\ op.at = "record" => AtRecord
    /\ op.at = "aside" => AtRecord /\ Recorded
    /\ op.at = "swap" => AtSwap
    /\ op.at = "restore" => AtSwap /\ Backed(op.slot)
    /\ op.at = "drop" => AtDrop

(* Everything on the disk was fetched, and the archive an operation brings  *)
(* was fetched last.                                                        *)
Dated ==
    /\ \A f \in Folders : folder[f] \in Versions => folder[f] <= fetched
    /\ \A s \in Slots : staging[s].backup \in Versions => staging[s].backup <= fetched
    /\ Coming =>
         /\ fetched \in Versions /\ Mine.incoming = fetched
         /\ \A f \in Folders : folder[f] # fetched
         /\ \A s \in Slots : staging[s].backup # fetched

(* Unless an operation began beside an older backup, there is one backup at *)
(* most, that of the operation under way if there is one, ...               *)
OneBackup ==
    ~mingled =>
        /\ \A s, t \in Slots : Backed(s) /\ Backed(t) => s = t
        /\ op.at \notin {"idle", "remove"} => \A s \in Slots : Backed(s) => s = op.slot
        /\ op.at = "remove" => \A s \in Slots : ~Backed(s)

(* ... no version lies in two places, ...                                   *)
Distinct ==
    ~mingled =>
        /\ \A f, g \in Folders : folder[f] \in Versions /\ folder[f] = folder[g] => f = g
        /\ \A f \in Folders, s \in Slots : folder[f] \in Versions => folder[f] # staging[s].backup

(* ... and what lies in a folder, or waits aside for a version that has not *)
(* come, is exactly what the player has.                                    *)
HeldIsOwned ==
    ~mingled =>
        /\ \A f \in Folders : folder[f] \in Versions => folder[f] \in owned
        /\ \A s \in Slots : staging[s].backup \in Versions /\ Waits(s) => staging[s].backup \in owned
        /\ \A v \in owned : \/ \E f \in Folders : folder[f] = v
                            \/ \E s \in Slots : Waits(s) /\ staging[s].backup = v

(* What may be discarded does not wait, and once the client is up nothing   *)
(* does, unless it could not be put back.                                   *)
Settled ==
    ~mingled =>
        /\ \A s \in doomed : Backed(s) => ~Waits(s)
        /\ ~retained /\ process = "up" /\ op.at \notin {"swap", "restore"} =>
              \A s \in Slots : Backed(s) => ~Waits(s)
        /\ ~retained /\ process = "starting" => \A s \in seen : Backed(s) => ~Waits(s)

SwapInv ==
    /\ SwapTypeOK /\ StagingFits /\ OpFits /\ Dated
    /\ OneBackup /\ Distinct /\ HeldIsOwned /\ Settled

LEMMA SwapBounds ==
    /\ MaxVersion \in Nat /\ MaxFailures \in Nat /\ MaxCrashes \in Nat
    /\ NoName \notin Folders
BY FolderSwapAssumption

LEMMA BlankRecords == NoStaging \in Stagings /\ NoOp \in Operations
BY SwapBounds
DEF NoStaging, Stagings, NoOp, Operations, Steps, CallKinds, Names, Contents, Absent

(* What the steps do to one staging folder, and to the operation.           *)
LEMMA StagingEdits ==
    ASSUME NEW st \in [Slots -> Stagings], NEW s \in Slots, NEW c \in Contents
    PROVE  /\ [st EXCEPT ![s].incoming = c] \in [Slots -> Stagings]
           /\ [st EXCEPT ![s].backup = c] \in [Slots -> Stagings]
           /\ [st EXCEPT ![s] = NoStaging] \in [Slots -> Stagings]
<1>1. [st[s] EXCEPT !.incoming = c] \in Stagings
  BY DEF Stagings
<1>2. [st[s] EXCEPT !.backup = c] \in Stagings
  BY DEF Stagings
<1> QED BY <1>1, <1>2, BlankRecords

LEMMA OperationEdits ==
    ASSUME NEW o \in Operations, NEW step \in Steps
    PROVE  /\ [o EXCEPT !.at = step] \in Operations
           /\ [o EXCEPT !.at = step, !.committed = TRUE] \in Operations
BY DEF Operations

(* A staging folder that is discarded keeps no whole backup, and nothing it *)
(* keeps is new; the others are not touched.                                *)
LEMMA DiscardEffect ==
    ASSUME SwapTypeOK, NEW s \in Slots, Discard(s)
    PROVE  /\ staging' \in [Slots -> Stagings]
           /\ failures' \in 0 .. MaxFailures
           /\ \A t \in Slots : t # s => staging'[t] = staging[t]
           /\ staging'[s].incoming \in {staging[s].incoming, Absent}
           /\ staging'[s].backup # Absent =>
                /\ staging[s].backup # Absent
                /\ staging'[s].backup \in {staging[s].backup, Broken}
                /\ staging'[s].here = staging[s].here
                /\ staging'[s].previous = staging[s].previous
                /\ staging'[s].target = staging[s].target
<1> DEFINE rest == IF staging[s].backup = Absent THEN Absent ELSE Broken
           part == [staging[s] EXCEPT !.incoming = Absent, !.backup = rest]
<1>1. staging \in [Slots -> Stagings] /\ failures \in 0 .. MaxFailures /\ staging[s] \in Stagings
  BY DEF SwapTypeOK
<1>2. part \in Stagings /\ part.here = staging[s].here /\ part.previous = staging[s].previous
      /\ part.target = staging[s].target /\ part.backup = rest /\ part.incoming = Absent
  <2>1. rest \in Contents /\ Absent \in Contents
    BY SwapBounds DEF Contents, Absent, Broken
  <2> HIDE DEF rest
  <2> QED BY <1>1, <2>1 DEF Stagings
<1>3. \/ staging' = [staging EXCEPT ![s] = NoStaging]
      \/ staging' = staging
      \/ staging' = [staging EXCEPT ![s] = part]
  <2>1. CASE staging' = [staging EXCEPT ![s].incoming = Absent,
                           ![s].backup = IF @ = Absent THEN Absent ELSE Broken]
    <3>1. staging' = [staging EXCEPT ![s] = part]
      BY <2>1, <1>1 DEF Stagings
    <3> QED BY <3>1
  <2> QED BY <2>1 DEF Discard
<1>4. failures' \in 0 .. MaxFailures
  BY <1>1, SwapBounds DEF Discard, CallWorks, CallFails
<1>5. CASE staging' = [staging EXCEPT ![s] = NoStaging]
  BY <1>1, <1>4, <1>5, BlankRecords DEF NoStaging
<1>6. CASE staging' = staging
  BY <1>1, <1>4, <1>6
<1>7. CASE staging' = [staging EXCEPT ![s] = part]
  BY <1>1, <1>2, <1>4, <1>7
<1> QED BY <1>3, <1>5, <1>6, <1>7

LEMMA InitSwap == SwapInit => SwapInv
<1> SUFFICES ASSUME SwapInit PROVE SwapInv
  OBVIOUS
<1>1. SwapTypeOK
  <2>1. Absent \in Contents /\ 0 \in 0 .. MaxVersion /\ 0 \in 0 .. MaxFailures /\ 0 \in 0 .. MaxCrashes
    BY SwapBounds DEF Contents, Absent
  <2> QED BY <2>1, BlankRecords DEF SwapInit, SwapTypeOK
<1>2. /\ op.at = "idle" /\ owned = {} /\ doomed = {} /\ seen = {} /\ process = "up"
      /\ \A s \in Slots : ~Backed(s)
      /\ \A f \in Folders : folder[f] = Absent
      /\ Absent \notin Versions
  BY SwapBounds DEF SwapInit, NoOp, NoStaging, Backed, Versions, Absent
<1>3. StagingFits /\ OpFits /\ OneBackup
  BY <1>2 DEF StagingFits, OpFits, OneBackup
<1>4. Dated /\ Distinct /\ HeldIsOwned /\ Settled
  BY <1>2 DEF Dated, Coming, Distinct, HeldIsOwned, Settled, Backed
<1> QED BY <1>1, <1>3, <1>4 DEF SwapInv

-----------------------------------------------------------------------------
(* Every step keeps it.                                                     *)

(* What the steps change, one field at a time.                              *)
LEMMA IncomingGoes ==
    ASSUME SwapTypeOK, NEW s \in Slots, staging' = [staging EXCEPT ![s].incoming = Absent]
    PROVE  /\ staging' \in [Slots -> Stagings]
           /\ \A t \in Slots :
                /\ staging'[t].here = staging[t].here
                /\ staging'[t].backup = staging[t].backup
                /\ staging'[t].previous = staging[t].previous
                /\ staging'[t].target = staging[t].target
<1>1. staging \in [Slots -> Stagings] /\ Absent \in Contents
  BY SwapBounds DEF SwapTypeOK, Contents, Absent
<1>2. staging' \in [Slots -> Stagings]
  BY <1>1, StagingEdits
<1> QED BY <1>1, <1>2 DEF Stagings

LEMMA BackupBecomes ==
    ASSUME SwapTypeOK, NEW s \in Slots, NEW c \in Contents,
           staging' = [staging EXCEPT ![s].backup = c]
    PROVE  /\ staging' \in [Slots -> Stagings]
           /\ staging'[s].backup = c
           /\ \A t \in Slots :
                /\ t # s => staging'[t].backup = staging[t].backup
                /\ staging'[t].here = staging[t].here
                /\ staging'[t].incoming = staging[t].incoming
                /\ staging'[t].previous = staging[t].previous
                /\ staging'[t].target = staging[t].target
<1>1. staging \in [Slots -> Stagings]
  BY DEF SwapTypeOK
<1>2. staging' \in [Slots -> Stagings]
  BY <1>1, StagingEdits
<1> QED BY <1>1, <1>2 DEF Stagings

LEMMA OperationMoves ==
    ASSUME SwapTypeOK, NEW step \in Steps, NextStep(step)
    PROVE  /\ op' \in Operations
           /\ op'.at = step /\ op'.kind = op.kind /\ op'.slot = op.slot
           /\ op'.previous = op.previous /\ op'.target = op.target
           /\ op'.committed = op.committed
<1>1. op \in Operations
  BY DEF SwapTypeOK
<1> QED BY <1>1, OperationEdits DEF NextStep, Operations

LEMMA FolderBecomes ==
    ASSUME SwapTypeOK, NEW f \in Folders, NEW c \in Contents, folder' = [folder EXCEPT ![f] = c]
    PROVE  /\ folder' \in [Folders -> Contents]
           /\ folder'[f] = c
           /\ \A g \in Folders : g # f => folder'[g] = folder[g]
BY DEF SwapTypeOK

LEMMA OneCall ==
    ASSUME SwapTypeOK, CallWorks \/ CallFails
    PROVE  failures' \in 0 .. MaxFailures
BY SwapBounds DEF SwapTypeOK, CallWorks, CallFails

LEMMA VersionsAreContents ==
    /\ Absent \in Contents /\ Broken \in Contents /\ Versions \subseteq Contents
    /\ Absent \notin Versions /\ Broken \notin Versions /\ Absent # Broken
BY SwapBounds DEF Contents, Versions, Absent, Broken

LEMMA StageEffect ==
    ASSUME SwapTypeOK, NEW kind \in {"install", "replace"}, NEW previous \in Names,
           NEW target \in Folders, Stage(kind, previous, target)
    PROVE  /\ op' \in Operations /\ op'.slot \in Slots /\ ~staging[op'.slot].here
           /\ op'.at = (IF kind = "install" THEN "place" ELSE "record")
           /\ op'.kind = kind /\ op'.previous = previous /\ op'.target = target
           /\ ~op'.committed
           /\ staging' \in [Slots -> Stagings]
           /\ staging'[op'.slot].here /\ staging'[op'.slot].incoming \in Versions
           /\ staging'[op'.slot].backup = Absent /\ staging'[op'.slot].previous = NoName
           /\ \A t \in Slots : t # op'.slot => staging'[t] = staging[t]
           /\ fetched' \in 0 .. MaxVersion
           /\ fetched' = fetched + 1 /\ staging'[op'.slot].incoming = fetched + 1
<1> DEFINE s == CHOOSE free \in FreeSlots : TRUE
           new == [NoStaging EXCEPT !.here = TRUE, !.incoming = fetched + 1]
<1>1. s \in Slots /\ ~staging[s].here
  BY DEF Stage, FreeSlots
<1>2. fetched + 1 \in Versions /\ fetched' \in 0 .. MaxVersion
  BY SwapBounds DEF Stage, SwapTypeOK, Versions
<1>3. new \in Stagings /\ new.here /\ new.incoming = fetched + 1 /\ new.backup = Absent
      /\ new.previous = NoName
  BY <1>2, VersionsAreContents, BlankRecords DEF Stagings, NoStaging
<1>4. staging \in [Slots -> Stagings] /\ staging' = [staging EXCEPT ![s] = new]
  BY DEF Stage, SwapTypeOK
<1>5. op' = [at |-> IF kind = "install" THEN "place" ELSE "record", kind |-> kind, slot |-> s,
             previous |-> previous, target |-> target, committed |-> FALSE]
  BY DEF Stage
<1> HIDE DEF s, new
<1>6. op' \in Operations
  BY <1>1, <1>5 DEF Operations, Steps, CallKinds, Names
<1>7. fetched' = fetched + 1
  BY DEF Stage
<1> QED BY <1>1, <1>2, <1>3, <1>4, <1>5, <1>6, <1>7

LEMMA InstallStep ==
    ASSUME SwapInv, NEW f \in Folders, Install(f)
    PROVE  SwapInv'
<1> USE DEF SwapInv, Exists, Backed, Absent
<1>1. /\ op' \in Operations /\ op'.slot \in Slots /\ ~staging[op'.slot].here
      /\ op'.at = "place" /\ op'.kind = "install" /\ op'.target = f /\ ~op'.committed
      /\ op'.previous = NoName
      /\ staging' \in [Slots -> Stagings]
      /\ staging'[op'.slot].here /\ staging'[op'.slot].incoming \in Versions
      /\ staging'[op'.slot].backup = Absent /\ staging'[op'.slot].previous = NoName
      /\ \A t \in Slots : t # op'.slot => staging'[t] = staging[t]
      /\ fetched' \in 0 .. MaxVersion
      /\ fetched' = fetched + 1 /\ staging'[op'.slot].incoming = fetched + 1
  BY StageEffect DEF Install, Replace, Names
<1>2. /\ process = "up" /\ op.at = "idle"
      /\ mingled' = (mingled \/ Leftover)
      /\ UNCHANGED <<process, folder, seen, doomed, owned, retained, failures, crashes>>
      /\ folder[f] = Absent
  BY DEF Install, Replace, Stage, Idle, startVars, limitVars
<1>3. SwapTypeOK'
  BY <1>1, <1>2 DEF SwapTypeOK
<1>4. StagingFits'
  BY SwapBounds, <1>1, <1>2, <1>3
  DEF SwapTypeOK, StagingFits, OpFits, AtPlace, AtRecord, Recorded, AtSwap, AtDrop,
      Mine, Versions, Contents, Broken
<1>5. OpFits'
  BY SwapBounds, <1>1, <1>2, <1>3
  DEF SwapTypeOK, StagingFits, OpFits, AtPlace, AtRecord, Recorded, AtSwap, AtDrop,
      Mine, Versions, Contents, Broken
<1>6. Dated'
  <2>1. fetched \in Nat /\ MaxVersion \in Nat /\ \A v \in Versions : v \in Nat
    BY SwapBounds DEF SwapTypeOK, Versions
  <2>2. \A h \in Folders : folder[h] \in Versions => folder[h] < fetched + 1
    BY <2>1 DEF Dated
  <2>3. \A s \in Slots : staging'[s].backup \in Versions => staging'[s].backup < fetched + 1
    BY <1>1, <2>1, VersionsAreContents DEF Dated
  <2>4. fetched + 1 \in Versions /\ Mine' = staging'[op'.slot]
    BY <1>1 DEF Mine
  <2>5. \A v \in Versions : v < fetched + 1 => v <= fetched + 1 /\ v # fetched + 1
    BY <2>1
  <2> QED BY <1>1, <1>2, <2>2, <2>3, <2>4, <2>5 DEF Dated
<1>7. OneBackup'
  <2> SUFFICES ASSUME ~mingled'
               PROVE  OneBackup'
    BY DEF OneBackup
  <2>1. ~mingled /\ \A t \in Slots : ~Backed(t) /\ ~Backed(t)'
    BY <1>1, <1>2 DEF Leftover
  <2> QED BY <1>1, <1>2, <2>1 DEF OneBackup
<1>8. Distinct'
  BY SwapBounds, <1>1, <1>2, <1>3
  DEF SwapTypeOK, Distinct, Dated, Coming, OneBackup, StagingFits, OpFits, AtPlace,
      AtRecord, Recorded, AtSwap, AtDrop, Mine, Versions, Contents, Broken
<1>9. HeldIsOwned'
  BY SwapBounds, <1>1, <1>2, <1>3
  DEF SwapTypeOK, HeldIsOwned, Waits, Distinct, Dated, Coming, OneBackup, StagingFits,
      OpFits, AtPlace, AtRecord, Recorded, AtSwap, AtDrop, Mine, Versions, Contents,
      Broken
<1>10. Settled'
  BY SwapBounds, <1>1, <1>2, <1>3
  DEF SwapTypeOK, Settled, Waits, OneBackup, StagingFits, OpFits, AtPlace, AtRecord,
      Recorded, AtSwap, AtDrop, Mine, Versions, Contents, Broken
<1> QED BY <1>3, <1>4, <1>5, <1>6, <1>7, <1>8, <1>9, <1>10

LEMMA ReplaceStep ==
    ASSUME SwapInv, NEW f \in Folders, NEW g \in Folders, Replace(f, g)
    PROVE  SwapInv'
<1> USE DEF SwapInv, Exists, Backed, Absent
<1>1. /\ op' \in Operations /\ op'.slot \in Slots /\ ~staging[op'.slot].here
      /\ op'.at = "record" /\ op'.kind = "replace" /\ op'.target = g /\ ~op'.committed
      /\ op'.previous = f
      /\ staging' \in [Slots -> Stagings]
      /\ staging'[op'.slot].here /\ staging'[op'.slot].incoming \in Versions
      /\ staging'[op'.slot].backup = Absent /\ staging'[op'.slot].previous = NoName
      /\ \A t \in Slots : t # op'.slot => staging'[t] = staging[t]
      /\ fetched' \in 0 .. MaxVersion
      /\ fetched' = fetched + 1 /\ staging'[op'.slot].incoming = fetched + 1
  BY StageEffect DEF Install, Replace, Names
<1>2. /\ process = "up" /\ op.at = "idle"
      /\ mingled' = (mingled \/ Leftover)
      /\ UNCHANGED <<process, folder, seen, doomed, owned, retained, failures, crashes>>
      /\ g # f => folder[g] = Absent
  BY DEF Install, Replace, Stage, Idle, startVars, limitVars
<1>3. SwapTypeOK'
  BY <1>1, <1>2 DEF SwapTypeOK
<1>4. StagingFits'
  BY SwapBounds, <1>1, <1>2, <1>3
  DEF SwapTypeOK, StagingFits, OpFits, AtPlace, AtRecord, Recorded, AtSwap, AtDrop,
      Mine, Versions, Contents, Broken
<1>5. OpFits'
  BY SwapBounds, <1>1, <1>2, <1>3
  DEF SwapTypeOK, StagingFits, OpFits, AtPlace, AtRecord, Recorded, AtSwap, AtDrop,
      Mine, Versions, Contents, Broken
<1>6. Dated'
  <2>1. fetched \in Nat /\ MaxVersion \in Nat /\ \A v \in Versions : v \in Nat
    BY SwapBounds DEF SwapTypeOK, Versions
  <2>2. \A h \in Folders : folder[h] \in Versions => folder[h] < fetched + 1
    BY <2>1 DEF Dated
  <2>3. \A s \in Slots : staging'[s].backup \in Versions => staging'[s].backup < fetched + 1
    BY <1>1, <2>1, VersionsAreContents DEF Dated
  <2>4. fetched + 1 \in Versions /\ Mine' = staging'[op'.slot]
    BY <1>1 DEF Mine
  <2>5. \A v \in Versions : v < fetched + 1 => v <= fetched + 1 /\ v # fetched + 1
    BY <2>1
  <2> QED BY <1>1, <1>2, <2>2, <2>3, <2>4, <2>5 DEF Dated
<1>7. OneBackup'
  <2> SUFFICES ASSUME ~mingled'
               PROVE  OneBackup'
    BY DEF OneBackup
  <2>1. ~mingled /\ \A t \in Slots : ~Backed(t) /\ ~Backed(t)'
    BY <1>1, <1>2 DEF Leftover
  <2> QED BY <1>1, <1>2, <2>1 DEF OneBackup
<1>8. Distinct'
  BY SwapBounds, <1>1, <1>2, <1>3
  DEF SwapTypeOK, Distinct, Dated, Coming, OneBackup, StagingFits, OpFits, AtPlace,
      AtRecord, Recorded, AtSwap, AtDrop, Mine, Versions, Contents, Broken
<1>9. HeldIsOwned'
  BY SwapBounds, <1>1, <1>2, <1>3
  DEF SwapTypeOK, HeldIsOwned, Waits, Distinct, Dated, Coming, OneBackup, StagingFits,
      OpFits, AtPlace, AtRecord, Recorded, AtSwap, AtDrop, Mine, Versions, Contents,
      Broken
<1>10. Settled'
  BY SwapBounds, <1>1, <1>2, <1>3
  DEF SwapTypeOK, Settled, Waits, OneBackup, StagingFits, OpFits, AtPlace, AtRecord,
      Recorded, AtSwap, AtDrop, Mine, Versions, Contents, Broken
<1> QED BY <1>3, <1>4, <1>5, <1>6, <1>7, <1>8, <1>9, <1>10

LEMMA RemoveStep ==
    ASSUME SwapInv, NEW f \in Folders, Remove(f)
    PROVE  SwapInv'
<1> USE DEF SwapInv, Exists, Backed, Absent
<1>1. /\ op' \in Operations /\ op'.at = "remove" /\ op'.target = f
  BY BlankRecords, SwapBounds DEF Remove, NoOp, Operations, Steps, CallKinds, Names
<1>2. /\ process = "up" /\ op.at = "idle"
      /\ mingled' = (mingled \/ Leftover)
      /\ UNCHANGED <<process, folder, staging, fetched, seen, doomed, owned, retained, failures, crashes>>
  BY DEF Remove, Idle, startVars, limitVars
<1>3. SwapTypeOK'
  BY <1>1, <1>2 DEF SwapTypeOK
<1>4. StagingFits'
  BY SwapBounds, <1>1, <1>2, <1>3
  DEF SwapTypeOK, StagingFits, OpFits, AtPlace, AtRecord, Recorded, AtSwap, AtDrop,
      Mine, Versions, Contents, Broken
<1>5. OpFits'
  BY SwapBounds, <1>1, <1>2, <1>3
  DEF SwapTypeOK, StagingFits, OpFits, AtPlace, AtRecord, Recorded, AtSwap, AtDrop,
      Mine, Versions, Contents, Broken
<1>6. Dated'
  BY SwapBounds, <1>1, <1>2, <1>3
  DEF SwapTypeOK, Dated, Coming, StagingFits, OpFits, AtPlace, AtRecord, Recorded,
      AtSwap, AtDrop, Mine, Versions, Contents, Broken
<1>7. OneBackup'
  <2> SUFFICES ASSUME ~mingled'
               PROVE  OneBackup'
    BY DEF OneBackup
  <2>1. ~mingled /\ \A t \in Slots : ~Backed(t) /\ ~Backed(t)'
    BY <1>1, <1>2 DEF Leftover
  <2> QED BY <1>1, <1>2, <2>1 DEF OneBackup
<1>8. Distinct'
  BY SwapBounds, <1>1, <1>2, <1>3
  DEF SwapTypeOK, Distinct, Dated, Coming, OneBackup, StagingFits, OpFits, AtPlace,
      AtRecord, Recorded, AtSwap, AtDrop, Mine, Versions, Contents, Broken
<1>9. HeldIsOwned'
  BY SwapBounds, <1>1, <1>2, <1>3
  DEF SwapTypeOK, HeldIsOwned, Waits, Distinct, Dated, Coming, OneBackup, StagingFits,
      OpFits, AtPlace, AtRecord, Recorded, AtSwap, AtDrop, Mine, Versions, Contents,
      Broken
<1>10. Settled'
  BY SwapBounds, <1>1, <1>2, <1>3
  DEF SwapTypeOK, Settled, Waits, OneBackup, StagingFits, OpFits, AtPlace, AtRecord,
      Recorded, AtSwap, AtDrop, Mine, Versions, Contents, Broken
<1> QED BY <1>3, <1>4, <1>5, <1>6, <1>7, <1>8, <1>9, <1>10

(* What is left of a folder, if anything, once a removal has touched it.    *)
LEMMA Removes ==
    ASSUME SwapInv, process = "up", op.at = "remove", NEW rest \in {Absent, Broken},
           folder' = [folder EXCEPT ![op.target] = rest],
           owned' = owned \ {folder[op.target]}, op' = op \/ op' = NoOp,
           failures' \in 0 .. MaxFailures,
           UNCHANGED <<process, staging, seen, doomed, fetched, retained, mingled, crashes>>
    PROVE  SwapInv'
<1> USE DEF SwapInv, Exists, Backed, Absent
<1>1. op.target \in Folders /\ op' \in Operations /\ (op' = op \/ op'.at = "idle")
  <2>1. NoOp.at = "idle" /\ op \in Operations
    BY DEF NoOp, SwapTypeOK
  <2> QED BY <2>1, BlankRecords DEF OpFits
<1>2. /\ folder' \in [Folders -> Contents] /\ folder'[op.target] \in {Absent, Broken}
      /\ \A f \in Folders : f # op.target => folder'[f] = folder[f]
  BY <1>1, FolderBecomes, VersionsAreContents
<1>3. /\ \A s \in Slots : Waits(s) => staging'[s].previous # NoName
      /\ Absent \notin Versions /\ Broken \notin Versions
  BY VersionsAreContents DEF Waits
<1>4. SwapTypeOK'
  BY <1>1, <1>2, <1>3 DEF SwapTypeOK
<1>5. StagingFits'
  BY SwapBounds, <1>1, <1>2, <1>3, <1>4
  DEF SwapTypeOK, StagingFits, OpFits, AtPlace, AtRecord, Recorded, AtSwap, AtDrop,
      Mine, Versions, Contents, Broken
<1>6. OpFits'
  BY SwapBounds, <1>1, <1>2, <1>3, <1>4
  DEF SwapTypeOK, StagingFits, OpFits, AtPlace, AtRecord, Recorded, AtSwap, AtDrop,
      Mine, Versions, Contents, Broken
<1>7. Dated'
  BY SwapBounds, <1>1, <1>2, <1>3, <1>4
  DEF SwapTypeOK, Dated, Coming, StagingFits, OpFits, AtPlace, AtRecord, Recorded,
      AtSwap, AtDrop, Mine, Versions, Contents, Broken
<1>8. OneBackup'
  BY SwapBounds, <1>1, <1>2, <1>3, <1>4
  DEF SwapTypeOK, OneBackup, StagingFits, OpFits, AtPlace, AtRecord, Recorded, AtSwap,
      AtDrop, Mine, Versions, Contents, Broken
<1>9. Distinct'
  BY SwapBounds, <1>1, <1>2, <1>3, <1>4
  DEF SwapTypeOK, Distinct, Dated, Coming, OneBackup, StagingFits, OpFits, AtPlace,
      AtRecord, Recorded, AtSwap, AtDrop, Mine, Versions, Contents, Broken
<1>10. HeldIsOwned'
  BY SwapBounds, <1>1, <1>2, <1>3, <1>4
  DEF SwapTypeOK, HeldIsOwned, Waits, Distinct, Dated, Coming, OneBackup, StagingFits,
      OpFits, AtPlace, AtRecord, Recorded, AtSwap, AtDrop, Mine, Versions, Contents,
      Broken
<1>11. Settled'
  BY SwapBounds, <1>1, <1>2, <1>3, <1>4
  DEF SwapTypeOK, Settled, Waits, OneBackup, StagingFits, OpFits, AtPlace, AtRecord,
      Recorded, AtSwap, AtDrop, Mine, Versions, Contents, Broken
<1> QED BY <1>4, <1>5, <1>6, <1>7, <1>8, <1>9, <1>10, <1>11

LEMMA RemovePartStep ==
    ASSUME SwapInv, RemovePart
    PROVE  SwapInv'
<1>1. failures \in 0 .. MaxFailures
  BY DEF SwapInv, SwapTypeOK
<1> QED BY <1>1, Removes DEF RemovePart, startVars, limitVars

LEMMA RemoveFails ==
    ASSUME SwapInv, op.at = "remove", CallFails, op' = NoOp,
           UNCHANGED <<process, folder, staging, seen, doomed, fetched, owned, retained, mingled,
                       crashes>>
    PROVE  SwapInv'
<1> USE DEF SwapInv, Exists, Backed, Absent
<1>1. op' \in Operations /\ op'.at = "idle"
  BY BlankRecords DEF NoOp
<1>2. SwapTypeOK'
  BY <1>1, OneCall DEF SwapTypeOK
<1>3. StagingFits'
  BY SwapBounds, <1>1, <1>2
  DEF SwapTypeOK, StagingFits, OpFits, AtPlace, AtRecord, Recorded, AtSwap, AtDrop,
      Mine, Versions, Contents, Broken
<1>4. OpFits'
  BY SwapBounds, <1>1, <1>2
  DEF SwapTypeOK, StagingFits, OpFits, AtPlace, AtRecord, Recorded, AtSwap, AtDrop,
      Mine, Versions, Contents, Broken
<1>5. Dated'
  BY SwapBounds, <1>1, <1>2
  DEF SwapTypeOK, Dated, Coming, StagingFits, OpFits, AtPlace, AtRecord, Recorded,
      AtSwap, AtDrop, Mine, Versions, Contents, Broken
<1>6. OneBackup'
  BY SwapBounds, <1>1, <1>2
  DEF SwapTypeOK, OneBackup, StagingFits, OpFits, AtPlace, AtRecord, Recorded, AtSwap,
      AtDrop, Mine, Versions, Contents, Broken
<1>7. Distinct'
  BY SwapBounds, <1>1, <1>2
  DEF SwapTypeOK, Distinct, Dated, Coming, OneBackup, StagingFits, OpFits, AtPlace,
      AtRecord, Recorded, AtSwap, AtDrop, Mine, Versions, Contents, Broken
<1>8. HeldIsOwned'
  BY SwapBounds, <1>1, <1>2
  DEF SwapTypeOK, HeldIsOwned, Waits, Distinct, Dated, Coming, OneBackup, StagingFits,
      OpFits, AtPlace, AtRecord, Recorded, AtSwap, AtDrop, Mine, Versions, Contents,
      Broken
<1>9. Settled'
  BY SwapBounds, <1>1, <1>2
  DEF SwapTypeOK, Settled, Waits, OneBackup, StagingFits, OpFits, AtPlace, AtRecord,
      Recorded, AtSwap, AtDrop, Mine, Versions, Contents, Broken
<1> QED BY <1>2, <1>3, <1>4, <1>5, <1>6, <1>7, <1>8, <1>9

LEMMA RemoveRestStep ==
    ASSUME SwapInv, RemoveRest
    PROVE  SwapInv'
<1>1. failures' \in 0 .. MaxFailures
  BY OneCall DEF RemoveRest, SwapInv
<1> QED BY <1>1, Removes, RemoveFails DEF RemoveRest, startVars

(* A call that fails changes no folder: the operation goes on to give up.   *)
LEMMA FailedCall ==
    ASSUME SwapInv, process = "up", op.at \in {"place", "record", "aside", "swap", "restore"},
           CallFails, NEW step \in {"restore", "drop"}, NextStep(step),
           step = "restore" <=> op.at = "swap" /\ Mine.backup # Absent,
           retained' = (retained \/ op.at = "restore"),
           UNCHANGED <<process, folder, staging, seen, doomed, fetched, owned, mingled, crashes>>
    PROVE  SwapInv'
<1> USE DEF SwapInv, Exists, Backed, Absent
<1>1. /\ op' \in Operations /\ op'.at = step
      /\ op'.kind = op.kind /\ op'.slot = op.slot /\ op'.previous = op.previous
      /\ op'.target = op.target /\ op'.committed = op.committed
  BY OperationMoves DEF Steps
<1>2. SwapTypeOK'
  BY <1>1, OneCall DEF SwapTypeOK
<1>3. StagingFits'
  BY SwapBounds, <1>1, <1>2
  DEF SwapTypeOK, StagingFits, OpFits, AtPlace, AtRecord, Recorded, AtSwap, AtDrop,
      Mine, Versions, Contents, Broken
<1>4. OpFits'
  BY SwapBounds, <1>1, <1>2
  DEF SwapTypeOK, StagingFits, OpFits, AtPlace, AtRecord, Recorded, AtSwap, AtDrop,
      Mine, Versions, Contents, Broken
<1>5. Dated'
  BY SwapBounds, <1>1, <1>2
  DEF SwapTypeOK, Dated, Coming, StagingFits, OpFits, AtPlace, AtRecord, Recorded,
      AtSwap, AtDrop, Mine, Versions, Contents, Broken
<1>6. OneBackup'
  BY SwapBounds, <1>1, <1>2
  DEF SwapTypeOK, OneBackup, StagingFits, OpFits, AtPlace, AtRecord, Recorded, AtSwap,
      AtDrop, Mine, Versions, Contents, Broken
<1>7. Distinct'
  BY SwapBounds, <1>1, <1>2
  DEF SwapTypeOK, Distinct, Dated, Coming, OneBackup, StagingFits, OpFits, AtPlace,
      AtRecord, Recorded, AtSwap, AtDrop, Mine, Versions, Contents, Broken
<1>8. HeldIsOwned'
  BY SwapBounds, <1>1, <1>2
  DEF SwapTypeOK, HeldIsOwned, Waits, Distinct, Dated, Coming, OneBackup, StagingFits,
      OpFits, AtPlace, AtRecord, Recorded, AtSwap, AtDrop, Mine, Versions, Contents,
      Broken
<1>9. Settled'
  BY SwapBounds, <1>1, <1>2
  DEF SwapTypeOK, Settled, Waits, OneBackup, StagingFits, OpFits, AtPlace, AtRecord,
      Recorded, AtSwap, AtDrop, Mine, Versions, Contents, Broken
<1> QED BY <1>2, <1>3, <1>4, <1>5, <1>6, <1>7, <1>8, <1>9

LEMMA PlaceWorks ==
    ASSUME SwapInv, Place, CallWorks, owned' = owned \cup {Mine.incoming},
           folder' = [folder EXCEPT ![op.target] = Mine.incoming],
           staging' = [staging EXCEPT ![op.slot].incoming = Absent]
    PROVE  SwapInv'
<1> USE DEF SwapInv, Exists, Backed, Absent
<1>1. /\ process = "up" /\ op.at = "place"
      /\ UNCHANGED <<process, seen, doomed, fetched, retained, mingled, crashes>>
  BY DEF Place, startVars
<1>2. /\ op.slot \in Slots /\ op.target \in Folders /\ op.slot \notin doomed /\ Mine.here /\ AtPlace
      /\ Mine.incoming = fetched /\ fetched \in Versions
  BY <1>1 DEF OpFits, Dated, Coming
<1>3. /\ op' \in Operations /\ op'.at = "drop"
      /\ op'.kind = op.kind /\ op'.slot = op.slot /\ op'.previous = op.previous
      /\ op'.target = op.target /\ op'.committed = op.committed
  BY OperationMoves DEF Place, Steps
<1>4. /\ staging' \in [Slots -> Stagings]
      /\ \A t \in Slots :
           /\ staging'[t].here = staging[t].here
           /\ staging'[t].backup = staging[t].backup
           /\ staging'[t].previous = staging[t].previous
           /\ staging'[t].target = staging[t].target
  BY <1>2, IncomingGoes
<1>5. /\ folder' \in [Folders -> Contents] /\ folder'[op.target] = fetched
      /\ \A f \in Folders : f # op.target => folder'[f] = folder[f]
  BY ZenonT(40), <1>2, FolderBecomes, VersionsAreContents
<1>6. SwapTypeOK'
  BY <1>1, <1>2, <1>3, <1>4, <1>5, OneCall DEF SwapTypeOK
<1>7. StagingFits'
  BY SwapBounds, <1>1, <1>2, <1>3, <1>4, <1>5, <1>6
  DEF SwapTypeOK, StagingFits, OpFits, AtPlace, AtRecord, Recorded, AtSwap, AtDrop,
      Mine, Versions, Contents, Broken
<1>8. OpFits'
  BY SwapBounds, <1>1, <1>2, <1>3, <1>4, <1>5, <1>6
  DEF SwapTypeOK, StagingFits, OpFits, AtPlace, AtRecord, Recorded, AtSwap, AtDrop,
      Mine, Versions, Contents, Broken
<1>9. Dated'
  BY SwapBounds, <1>1, <1>2, <1>3, <1>4, <1>5, <1>6
  DEF SwapTypeOK, Dated, Coming, StagingFits, OpFits, AtPlace, AtRecord, Recorded,
      AtSwap, AtDrop, Mine, Versions, Contents, Broken
<1>10. OneBackup'
  BY SwapBounds, <1>1, <1>2, <1>3, <1>4, <1>5, <1>6
  DEF SwapTypeOK, OneBackup, StagingFits, OpFits, AtPlace, AtRecord, Recorded, AtSwap,
      AtDrop, Mine, Versions, Contents, Broken
<1>11. Distinct'
  BY SwapBounds, <1>1, <1>2, <1>3, <1>4, <1>5, <1>6
  DEF SwapTypeOK, Distinct, Dated, Coming, OneBackup, StagingFits, OpFits, AtPlace,
      AtRecord, Recorded, AtSwap, AtDrop, Mine, Versions, Contents, Broken
<1>12. HeldIsOwned'
  BY SwapBounds, <1>1, <1>2, <1>3, <1>4, <1>5, <1>6
  DEF SwapTypeOK, HeldIsOwned, Waits, Distinct, Dated, Coming, OneBackup, StagingFits,
      OpFits, AtPlace, AtRecord, Recorded, AtSwap, AtDrop, Mine, Versions, Contents,
      Broken
<1>13. Settled'
  BY SwapBounds, <1>1, <1>2, <1>3, <1>4, <1>5, <1>6
  DEF SwapTypeOK, Settled, Waits, OneBackup, StagingFits, OpFits, AtPlace, AtRecord,
      Recorded, AtSwap, AtDrop, Mine, Versions, Contents, Broken
<1> QED BY <1>6, <1>7, <1>8, <1>9, <1>10, <1>11, <1>12, <1>13

LEMMA PlaceStep ==
    ASSUME SwapInv, Place
    PROVE  SwapInv'
BY PlaceWorks, FailedCall DEF Place, startVars, SwapInv, SwapTypeOK

LEMMA RecordWorks ==
    ASSUME SwapInv, Record, CallWorks, NextStep("aside"),
           staging' = [staging EXCEPT ![op.slot].previous = op.previous,
                                      ![op.slot].target = op.target]
    PROVE  SwapInv'
<1> USE DEF SwapInv, Exists, Backed, Absent
<1>1. /\ process = "up" /\ op.at = "record"
      /\ UNCHANGED <<process, seen, doomed, fetched, folder, owned, retained, mingled, crashes>>
  BY DEF Record, startVars
<1>2. op.slot \in Slots /\ op.target \in Folders /\ op.slot \notin doomed /\ Mine.here /\ AtRecord
  BY <1>1 DEF OpFits
<1>3. /\ op' \in Operations /\ op'.at = "aside"
      /\ op'.kind = op.kind /\ op'.slot = op.slot /\ op'.previous = op.previous
      /\ op'.target = op.target /\ op'.committed = op.committed
  BY OperationMoves DEF Steps
<1>4. /\ staging' \in [Slots -> Stagings]
      /\ staging'[op.slot].previous = op.previous /\ staging'[op.slot].target = op.target
      /\ \A t \in Slots :
           /\ t # op.slot => staging'[t] = staging[t]
           /\ staging'[t].here = staging[t].here
           /\ staging'[t].incoming = staging[t].incoming
           /\ staging'[t].backup = staging[t].backup
  <2> DEFINE new == [Mine EXCEPT !.previous = op.previous, !.target = op.target]
  <2>1. staging \in [Slots -> Stagings] /\ Mine \in Stagings
    BY <1>2 DEF SwapTypeOK, Mine
  <2>2. /\ new \in Stagings /\ new.previous = op.previous /\ new.target = op.target
        /\ new.here = Mine.here /\ new.incoming = Mine.incoming /\ new.backup = Mine.backup
    BY <1>2, <2>1 DEF AtRecord, Stagings, Names
  <2>3. staging' = [staging EXCEPT ![op.slot] = new]
    BY <1>2, <2>1 DEF Mine, Stagings
  <2> HIDE DEF new
  <2> QED BY <1>2, <2>1, <2>2, <2>3 DEF Mine
<1>5. SwapTypeOK'
  BY <1>1, <1>2, <1>3, <1>4, OneCall DEF SwapTypeOK
<1>6. StagingFits'
  BY SwapBounds, <1>1, <1>2, <1>3, <1>4, <1>5
  DEF SwapTypeOK, StagingFits, OpFits, AtPlace, AtRecord, Recorded, AtSwap, AtDrop,
      Mine, Versions, Contents, Broken
<1>7. OpFits'
  BY SwapBounds, <1>1, <1>2, <1>3, <1>4, <1>5
  DEF SwapTypeOK, StagingFits, OpFits, AtPlace, AtRecord, Recorded, AtSwap, AtDrop,
      Mine, Versions, Contents, Broken
<1>8. Dated'
  BY SwapBounds, <1>1, <1>2, <1>3, <1>4, <1>5
  DEF SwapTypeOK, Dated, Coming, StagingFits, OpFits, AtPlace, AtRecord, Recorded,
      AtSwap, AtDrop, Mine, Versions, Contents, Broken
<1>9. OneBackup'
  BY SwapBounds, <1>1, <1>2, <1>3, <1>4, <1>5
  DEF SwapTypeOK, OneBackup, StagingFits, OpFits, AtPlace, AtRecord, Recorded, AtSwap,
      AtDrop, Mine, Versions, Contents, Broken
<1>10. Distinct'
  BY SwapBounds, <1>1, <1>2, <1>3, <1>4, <1>5
  DEF SwapTypeOK, Distinct, Dated, Coming, OneBackup, StagingFits, OpFits, AtPlace,
      AtRecord, Recorded, AtSwap, AtDrop, Mine, Versions, Contents, Broken
<1>11. HeldIsOwned'
  BY SwapBounds, <1>1, <1>2, <1>3, <1>4, <1>5
  DEF SwapTypeOK, HeldIsOwned, Waits, Distinct, Dated, Coming, OneBackup, StagingFits,
      OpFits, AtPlace, AtRecord, Recorded, AtSwap, AtDrop, Mine, Versions, Contents,
      Broken
<1>12. Settled'
  BY SwapBounds, <1>1, <1>2, <1>3, <1>4, <1>5
  DEF SwapTypeOK, Settled, Waits, OneBackup, StagingFits, OpFits, AtPlace, AtRecord,
      Recorded, AtSwap, AtDrop, Mine, Versions, Contents, Broken
<1> QED BY <1>5, <1>6, <1>7, <1>8, <1>9, <1>10, <1>11, <1>12

LEMMA RecordStep ==
    ASSUME SwapInv, Record
    PROVE  SwapInv'
BY RecordWorks, FailedCall DEF Record, startVars, SwapInv, SwapTypeOK

LEMMA MoveAsideWorks ==
    ASSUME SwapInv, MoveAside, CallWorks, NextStep("swap"), Exists(op.previous),
           staging' = [staging EXCEPT ![op.slot].backup = folder[op.previous]],
           folder' = [folder EXCEPT ![op.previous] = Absent]
    PROVE  SwapInv'
<1> USE DEF SwapInv, Exists, Backed, Absent
<1>1. /\ process = "up" /\ op.at = "aside"
      /\ UNCHANGED <<process, seen, doomed, fetched, owned, retained, mingled, crashes>>
  BY DEF MoveAside, startVars
<1>2. /\ op.slot \in Slots /\ op.target \in Folders /\ op.slot \notin doomed /\ Mine.here
      /\ AtRecord /\ Recorded /\ folder[op.previous] \in Contents
  BY <1>1 DEF OpFits, AtRecord, SwapTypeOK
<1>3. /\ op' \in Operations /\ op'.at = "swap"
      /\ op'.kind = op.kind /\ op'.slot = op.slot /\ op'.previous = op.previous
      /\ op'.target = op.target /\ op'.committed = op.committed
  BY OperationMoves DEF Steps
<1>4. /\ staging' \in [Slots -> Stagings]
      /\ staging'[op.slot].backup = folder[op.previous]
      /\ \A t \in Slots :
           /\ t # op.slot => staging'[t].backup = staging[t].backup
           /\ staging'[t].here = staging[t].here
           /\ staging'[t].incoming = staging[t].incoming
           /\ staging'[t].previous = staging[t].previous
           /\ staging'[t].target = staging[t].target
  BY <1>2, BackupBecomes, VersionsAreContents
<1>5. /\ folder' \in [Folders -> Contents] /\ folder'[op.previous] = Absent
      /\ \A f \in Folders : f # op.previous => folder'[f] = folder[f]
  BY ZenonT(40), <1>2, FolderBecomes, VersionsAreContents DEF AtRecord
<1>6. SwapTypeOK'
  BY <1>1, <1>2, <1>3, <1>4, <1>5, OneCall DEF SwapTypeOK
<1>7. StagingFits'
  BY SwapBounds, <1>1, <1>2, <1>3, <1>4, <1>5, <1>6
  DEF SwapTypeOK, StagingFits, OpFits, AtPlace, AtRecord, Recorded, AtSwap, AtDrop,
      Mine, Versions, Contents, Broken
<1>8. OpFits'
  BY SwapBounds, <1>1, <1>2, <1>3, <1>4, <1>5, <1>6
  DEF SwapTypeOK, StagingFits, OpFits, AtPlace, AtRecord, Recorded, AtSwap, AtDrop,
      Mine, Versions, Contents, Broken
<1>9. Dated'
  BY SwapBounds, <1>1, <1>2, <1>3, <1>4, <1>5, <1>6
  DEF SwapTypeOK, Dated, Coming, StagingFits, OpFits, AtPlace, AtRecord, Recorded,
      AtSwap, AtDrop, Mine, Versions, Contents, Broken
<1>10. OneBackup'
  BY SwapBounds, <1>1, <1>2, <1>3, <1>4, <1>5, <1>6
  DEF SwapTypeOK, OneBackup, StagingFits, OpFits, AtPlace, AtRecord, Recorded, AtSwap,
      AtDrop, Mine, Versions, Contents, Broken
<1>11. Distinct'
  BY SwapBounds, <1>1, <1>2, <1>3, <1>4, <1>5, <1>6
  DEF SwapTypeOK, Distinct, Dated, Coming, OneBackup, StagingFits, OpFits, AtPlace,
      AtRecord, Recorded, AtSwap, AtDrop, Mine, Versions, Contents, Broken
<1>12. HeldIsOwned'
  BY SwapBounds, <1>1, <1>2, <1>3, <1>4, <1>5, <1>6
  DEF SwapTypeOK, HeldIsOwned, Waits, Distinct, Dated, Coming, OneBackup, StagingFits,
      OpFits, AtPlace, AtRecord, Recorded, AtSwap, AtDrop, Mine, Versions, Contents,
      Broken
<1>13. Settled'
  BY SwapBounds, <1>1, <1>2, <1>3, <1>4, <1>5, <1>6
  DEF SwapTypeOK, Settled, Waits, OneBackup, StagingFits, OpFits, AtPlace, AtRecord,
      Recorded, AtSwap, AtDrop, Mine, Versions, Contents, Broken
<1> QED BY <1>6, <1>7, <1>8, <1>9, <1>10, <1>11, <1>12, <1>13

(* Nothing is there to be moved.                                            *)
LEMMA MoveAsideSkips ==
    ASSUME SwapInv, MoveAside, CallWorks, NextStep("swap"), ~Exists(op.previous),
           UNCHANGED <<folder, staging>>
    PROVE  SwapInv'
<1> USE DEF SwapInv, Exists, Backed, Absent
<1>1. /\ process = "up" /\ op.at = "aside"
      /\ UNCHANGED <<process, seen, doomed, fetched, owned, retained, mingled, crashes>>
  BY DEF MoveAside, startVars
<1>2. /\ op.slot \in Slots /\ op.target \in Folders /\ op.slot \notin doomed /\ Mine.here
      /\ AtRecord /\ Recorded
  BY <1>1 DEF OpFits
<1>3. /\ op' \in Operations /\ op'.at = "swap"
      /\ op'.kind = op.kind /\ op'.slot = op.slot /\ op'.previous = op.previous
      /\ op'.target = op.target /\ op'.committed = op.committed
  BY OperationMoves DEF Steps
<1>4. SwapTypeOK'
  BY <1>1, <1>2, <1>3, OneCall DEF SwapTypeOK
<1>5. StagingFits'
  BY SwapBounds, <1>1, <1>2, <1>3, <1>4
  DEF SwapTypeOK, StagingFits, OpFits, AtPlace, AtRecord, Recorded, AtSwap, AtDrop,
      Mine, Versions, Contents, Broken
<1>6. OpFits'
  BY SwapBounds, <1>1, <1>2, <1>3, <1>4
  DEF SwapTypeOK, StagingFits, OpFits, AtPlace, AtRecord, Recorded, AtSwap, AtDrop,
      Mine, Versions, Contents, Broken
<1>7. Dated'
  BY SwapBounds, <1>1, <1>2, <1>3, <1>4
  DEF SwapTypeOK, Dated, Coming, StagingFits, OpFits, AtPlace, AtRecord, Recorded,
      AtSwap, AtDrop, Mine, Versions, Contents, Broken
<1>8. OneBackup'
  BY SwapBounds, <1>1, <1>2, <1>3, <1>4
  DEF SwapTypeOK, OneBackup, StagingFits, OpFits, AtPlace, AtRecord, Recorded, AtSwap,
      AtDrop, Mine, Versions, Contents, Broken
<1>9. Distinct'
  BY SwapBounds, <1>1, <1>2, <1>3, <1>4
  DEF SwapTypeOK, Distinct, Dated, Coming, OneBackup, StagingFits, OpFits, AtPlace,
      AtRecord, Recorded, AtSwap, AtDrop, Mine, Versions, Contents, Broken
<1>10. HeldIsOwned'
  BY SwapBounds, <1>1, <1>2, <1>3, <1>4
  DEF SwapTypeOK, HeldIsOwned, Waits, Distinct, Dated, Coming, OneBackup, StagingFits,
      OpFits, AtPlace, AtRecord, Recorded, AtSwap, AtDrop, Mine, Versions, Contents,
      Broken
<1>11. Settled'
  BY SwapBounds, <1>1, <1>2, <1>3, <1>4
  DEF SwapTypeOK, Settled, Waits, OneBackup, StagingFits, OpFits, AtPlace, AtRecord,
      Recorded, AtSwap, AtDrop, Mine, Versions, Contents, Broken
<1> QED BY <1>4, <1>5, <1>6, <1>7, <1>8, <1>9, <1>10, <1>11

LEMMA MoveAsideStep ==
    ASSUME SwapInv, MoveAside
    PROVE  SwapInv'
BY MoveAsideWorks, MoveAsideSkips, FailedCall DEF MoveAside, startVars, SwapInv, SwapTypeOK

LEMMA SwapWorks ==
    ASSUME SwapInv, Swap, CallWorks,
           folder' = [folder EXCEPT ![op.target] = Mine.incoming],
           staging' = [staging EXCEPT ![op.slot].incoming = Absent],
           op' = [op EXCEPT !.at = "drop", !.committed = TRUE],
           owned' = (owned \ {Mine.backup}) \cup {Mine.incoming}
    PROVE  SwapInv'
<1> USE DEF SwapInv, Exists, Backed, Absent
<1>1. /\ process = "up" /\ op.at = "swap"
      /\ UNCHANGED <<process, seen, doomed, fetched, retained, mingled, crashes>>
  BY DEF Swap, startVars
<1>2. /\ op.slot \in Slots /\ op.target \in Folders /\ op.slot \notin doomed /\ Mine.here /\ AtSwap
      /\ Mine.incoming = fetched /\ fetched \in Versions
  BY <1>1 DEF OpFits, Dated, Coming
<1>3. /\ op' \in Operations /\ op'.at = "drop" /\ op'.committed
      /\ op'.kind = op.kind /\ op'.slot = op.slot /\ op'.previous = op.previous
      /\ op'.target = op.target
  <2>1. op \in Operations /\ "drop" \in Steps
    BY DEF SwapTypeOK, Steps
  <2> QED BY <2>1, OperationEdits DEF Operations
<1>4. /\ staging' \in [Slots -> Stagings]
      /\ \A t \in Slots :
           /\ staging'[t].here = staging[t].here
           /\ staging'[t].backup = staging[t].backup
           /\ staging'[t].previous = staging[t].previous
           /\ staging'[t].target = staging[t].target
  BY <1>2, IncomingGoes
<1>5. /\ folder' \in [Folders -> Contents] /\ folder'[op.target] = fetched
      /\ \A f \in Folders : f # op.target => folder'[f] = folder[f]
  BY ZenonT(40), <1>2, FolderBecomes, VersionsAreContents
<1>6. SwapTypeOK'
  BY <1>1, <1>2, <1>3, <1>4, <1>5, OneCall DEF SwapTypeOK
<1>7. StagingFits'
  BY SwapBounds, <1>1, <1>2, <1>3, <1>4, <1>5, <1>6
  DEF SwapTypeOK, StagingFits, OpFits, AtPlace, AtRecord, Recorded, AtSwap, AtDrop,
      Mine, Versions, Contents, Broken
<1>8. OpFits'
  BY SwapBounds, <1>1, <1>2, <1>3, <1>4, <1>5, <1>6
  DEF SwapTypeOK, StagingFits, OpFits, AtPlace, AtRecord, Recorded, AtSwap, AtDrop,
      Mine, Versions, Contents, Broken
<1>9. Dated'
  BY SwapBounds, <1>1, <1>2, <1>3, <1>4, <1>5, <1>6
  DEF SwapTypeOK, Dated, Coming, StagingFits, OpFits, AtPlace, AtRecord, Recorded,
      AtSwap, AtDrop, Mine, Versions, Contents, Broken
<1>10. OneBackup'
  BY SwapBounds, <1>1, <1>2, <1>3, <1>4, <1>5, <1>6
  DEF SwapTypeOK, OneBackup, StagingFits, OpFits, AtPlace, AtRecord, Recorded, AtSwap,
      AtDrop, Mine, Versions, Contents, Broken
<1>11. Distinct'
  BY SwapBounds, <1>1, <1>2, <1>3, <1>4, <1>5, <1>6
  DEF SwapTypeOK, Distinct, Dated, Coming, OneBackup, StagingFits, OpFits, AtPlace,
      AtRecord, Recorded, AtSwap, AtDrop, Mine, Versions, Contents, Broken
<1>12. HeldIsOwned'
  BY SwapBounds, <1>1, <1>2, <1>3, <1>4, <1>5, <1>6
  DEF SwapTypeOK, HeldIsOwned, Waits, Distinct, Dated, Coming, OneBackup, StagingFits,
      OpFits, AtPlace, AtRecord, Recorded, AtSwap, AtDrop, Mine, Versions, Contents,
      Broken
<1>13. Settled'
  BY SwapBounds, <1>1, <1>2, <1>3, <1>4, <1>5, <1>6
  DEF SwapTypeOK, Settled, Waits, OneBackup, StagingFits, OpFits, AtPlace, AtRecord,
      Recorded, AtSwap, AtDrop, Mine, Versions, Contents, Broken
<1> QED BY <1>6, <1>7, <1>8, <1>9, <1>10, <1>11, <1>12, <1>13

LEMMA SwapStep ==
    ASSUME SwapInv, Swap
    PROVE  SwapInv'
BY SwapWorks, FailedCall DEF Swap, startVars, SwapInv, SwapTypeOK

LEMMA RestoreOldWorks ==
    ASSUME SwapInv, RestoreOld, CallWorks, UNCHANGED retained,
           folder' = [folder EXCEPT ![op.previous] = Mine.backup],
           staging' = [staging EXCEPT ![op.slot].backup = Absent]
    PROVE  SwapInv'
<1> USE DEF SwapInv, Exists, Backed, Absent
<1>1. /\ process = "up" /\ op.at = "restore"
      /\ UNCHANGED <<process, seen, doomed, fetched, owned, mingled, crashes>>
  BY DEF RestoreOld, startVars
<1>2. /\ op.slot \in Slots /\ op.target \in Folders /\ op.slot \notin doomed /\ Mine.here /\ AtSwap
      /\ Backed(op.slot) /\ Mine.backup \in Contents
  BY <1>1 DEF OpFits, Mine, SwapTypeOK, Stagings
<1>3. /\ op' \in Operations /\ op'.at = "drop"
      /\ op'.kind = op.kind /\ op'.slot = op.slot /\ op'.previous = op.previous
      /\ op'.target = op.target /\ op'.committed = op.committed
  BY OperationMoves DEF RestoreOld, Steps
<1>4. /\ staging' \in [Slots -> Stagings]
      /\ staging'[op.slot].backup = Absent
      /\ \A t \in Slots :
           /\ t # op.slot => staging'[t].backup = staging[t].backup
           /\ staging'[t].here = staging[t].here
           /\ staging'[t].incoming = staging[t].incoming
           /\ staging'[t].previous = staging[t].previous
           /\ staging'[t].target = staging[t].target
  BY <1>2, BackupBecomes, VersionsAreContents
<1>5. /\ folder' \in [Folders -> Contents] /\ folder'[op.previous] = Mine.backup
      /\ \A f \in Folders : f # op.previous => folder'[f] = folder[f]
  BY <1>2, FolderBecomes, VersionsAreContents DEF AtSwap
<1>6. SwapTypeOK'
  BY <1>1, <1>2, <1>3, <1>4, <1>5, OneCall DEF SwapTypeOK
<1>7. StagingFits'
  BY SwapBounds, <1>1, <1>2, <1>3, <1>4, <1>5, <1>6
  DEF SwapTypeOK, StagingFits, OpFits, AtPlace, AtRecord, Recorded, AtSwap, AtDrop,
      Mine, Versions, Contents, Broken
<1>8. OpFits'
  BY SwapBounds, <1>1, <1>2, <1>3, <1>4, <1>5, <1>6
  DEF SwapTypeOK, StagingFits, OpFits, AtPlace, AtRecord, Recorded, AtSwap, AtDrop,
      Mine, Versions, Contents, Broken
<1>9. Dated'
  BY SwapBounds, <1>1, <1>2, <1>3, <1>4, <1>5, <1>6
  DEF SwapTypeOK, Dated, Coming, StagingFits, OpFits, AtPlace, AtRecord, Recorded,
      AtSwap, AtDrop, Mine, Versions, Contents, Broken
<1>10. OneBackup'
  BY SwapBounds, <1>1, <1>2, <1>3, <1>4, <1>5, <1>6
  DEF SwapTypeOK, OneBackup, StagingFits, OpFits, AtPlace, AtRecord, Recorded, AtSwap,
      AtDrop, Mine, Versions, Contents, Broken
<1>11. Distinct'
  BY SwapBounds, <1>1, <1>2, <1>3, <1>4, <1>5, <1>6
  DEF SwapTypeOK, Distinct, Dated, Coming, OneBackup, StagingFits, OpFits, AtPlace,
      AtRecord, Recorded, AtSwap, AtDrop, Mine, Versions, Contents, Broken
<1>12. HeldIsOwned'
  BY SwapBounds, <1>1, <1>2, <1>3, <1>4, <1>5, <1>6
  DEF SwapTypeOK, HeldIsOwned, Waits, Distinct, Dated, Coming, OneBackup, StagingFits,
      OpFits, AtPlace, AtRecord, Recorded, AtSwap, AtDrop, Mine, Versions, Contents,
      Broken
<1>13. Settled'
  BY SwapBounds, <1>1, <1>2, <1>3, <1>4, <1>5, <1>6
  DEF SwapTypeOK, Settled, Waits, OneBackup, StagingFits, OpFits, AtPlace, AtRecord,
      Recorded, AtSwap, AtDrop, Mine, Versions, Contents, Broken
<1> QED BY <1>6, <1>7, <1>8, <1>9, <1>10, <1>11, <1>12, <1>13

LEMMA RestoreOldStep ==
    ASSUME SwapInv, RestoreOld
    PROVE  SwapInv'
BY RestoreOldWorks, FailedCall DEF RestoreOld, startVars, SwapInv, SwapTypeOK

LEMMA DropDiscards ==
    ASSUME SwapInv, DropStaging, Discard(op.slot),
           op.kind = "install" \/ op.committed \/ Mine.backup = Absent
    PROVE  SwapInv'
<1> USE DEF SwapInv, Exists, Backed, Absent
<1>1. /\ process = "up" /\ op.at = "drop" /\ AtDrop
      /\ op.slot \in Slots /\ op.slot \notin doomed /\ op.target \in Folders
      /\ UNCHANGED <<process, folder, seen, doomed, fetched, owned, retained, mingled, crashes>>
  BY DEF DropStaging, OpFits, startVars
<1>2. op' = NoOp /\ op' \in Operations /\ op'.at = "idle"
  BY BlankRecords DEF DropStaging, NoOp
<1>3. /\ staging' \in [Slots -> Stagings] /\ failures' \in 0 .. MaxFailures
      /\ \A t \in Slots : t # op.slot => staging'[t] = staging[t]
      /\ staging'[op.slot].backup # Absent =>
           /\ staging[op.slot].backup # Absent
           /\ staging'[op.slot].backup \in {staging[op.slot].backup, Broken}
           /\ staging'[op.slot].here = staging[op.slot].here
           /\ staging'[op.slot].previous = staging[op.slot].previous
           /\ staging'[op.slot].target = staging[op.slot].target
  BY <1>1, DiscardEffect
<1>4. SwapTypeOK'
  BY <1>1, <1>2, <1>3 DEF SwapTypeOK
<1>5. StagingFits'
  BY SwapBounds, <1>1, <1>2, <1>3, <1>4
  DEF SwapTypeOK, StagingFits, OpFits, AtPlace, AtRecord, Recorded, AtSwap, AtDrop,
      Mine, Versions, Contents, Broken
<1>6. OpFits'
  BY SwapBounds, <1>1, <1>2, <1>3, <1>4
  DEF SwapTypeOK, StagingFits, OpFits, AtPlace, AtRecord, Recorded, AtSwap, AtDrop,
      Mine, Versions, Contents, Broken
<1>7. Dated'
  BY SwapBounds, <1>1, <1>2, <1>3, <1>4
  DEF SwapTypeOK, Dated, Coming, StagingFits, OpFits, AtPlace, AtRecord, Recorded,
      AtSwap, AtDrop, Mine, Versions, Contents, Broken
<1>8. OneBackup'
  BY SwapBounds, <1>1, <1>2, <1>3, <1>4
  DEF SwapTypeOK, OneBackup, StagingFits, OpFits, AtPlace, AtRecord, Recorded, AtSwap,
      AtDrop, Mine, Versions, Contents, Broken
<1>9. Distinct'
  BY SwapBounds, <1>1, <1>2, <1>3, <1>4
  DEF SwapTypeOK, Distinct, Dated, Coming, OneBackup, StagingFits, OpFits, AtPlace,
      AtRecord, Recorded, AtSwap, AtDrop, Mine, Versions, Contents, Broken
<1>10. HeldIsOwned'
  BY SwapBounds, <1>1, <1>2, <1>3, <1>4
  DEF SwapTypeOK, HeldIsOwned, Waits, Distinct, Dated, Coming, OneBackup, StagingFits,
      OpFits, AtPlace, AtRecord, Recorded, AtSwap, AtDrop, Mine, Versions, Contents,
      Broken
<1>11. Settled'
  BY SwapBounds, <1>1, <1>2, <1>3, <1>4
  DEF SwapTypeOK, Settled, Waits, OneBackup, StagingFits, OpFits, AtPlace, AtRecord,
      Recorded, AtSwap, AtDrop, Mine, Versions, Contents, Broken
<1> QED BY <1>4, <1>5, <1>6, <1>7, <1>8, <1>9, <1>10, <1>11

LEMMA DropKeeps ==
    ASSUME SwapInv, DropStaging, CallWorks, UNCHANGED staging,
           ~op.committed, Mine.backup # Absent
    PROVE  SwapInv'
<1> USE DEF SwapInv, Exists, Backed, Absent
<1>1. /\ process = "up" /\ op.at = "drop" /\ AtDrop
      /\ op.slot \in Slots /\ op.slot \notin doomed /\ op.target \in Folders
      /\ UNCHANGED <<process, folder, seen, doomed, fetched, owned, retained, mingled, crashes>>
  BY DEF DropStaging, OpFits, startVars
<1>2. op' = NoOp /\ op' \in Operations /\ op'.at = "idle"
  BY BlankRecords DEF DropStaging, NoOp
<1>3. SwapTypeOK'
  BY <1>1, <1>2, OneCall DEF SwapTypeOK
<1>4. StagingFits'
  BY SwapBounds, <1>1, <1>2, <1>3
  DEF SwapTypeOK, StagingFits, OpFits, AtPlace, AtRecord, Recorded, AtSwap, AtDrop,
      Mine, Versions, Contents, Broken
<1>5. OpFits'
  BY SwapBounds, <1>1, <1>2, <1>3
  DEF SwapTypeOK, StagingFits, OpFits, AtPlace, AtRecord, Recorded, AtSwap, AtDrop,
      Mine, Versions, Contents, Broken
<1>6. Dated'
  BY SwapBounds, <1>1, <1>2, <1>3
  DEF SwapTypeOK, Dated, Coming, StagingFits, OpFits, AtPlace, AtRecord, Recorded,
      AtSwap, AtDrop, Mine, Versions, Contents, Broken
<1>7. OneBackup'
  BY SwapBounds, <1>1, <1>2, <1>3
  DEF SwapTypeOK, OneBackup, StagingFits, OpFits, AtPlace, AtRecord, Recorded, AtSwap,
      AtDrop, Mine, Versions, Contents, Broken
<1>8. Distinct'
  BY SwapBounds, <1>1, <1>2, <1>3
  DEF SwapTypeOK, Distinct, Dated, Coming, OneBackup, StagingFits, OpFits, AtPlace,
      AtRecord, Recorded, AtSwap, AtDrop, Mine, Versions, Contents, Broken
<1>9. HeldIsOwned'
  BY SwapBounds, <1>1, <1>2, <1>3
  DEF SwapTypeOK, HeldIsOwned, Waits, Distinct, Dated, Coming, OneBackup, StagingFits,
      OpFits, AtPlace, AtRecord, Recorded, AtSwap, AtDrop, Mine, Versions, Contents,
      Broken
<1>10. Settled'
  BY SwapBounds, <1>1, <1>2, <1>3
  DEF SwapTypeOK, Settled, Waits, OneBackup, StagingFits, OpFits, AtPlace, AtRecord,
      Recorded, AtSwap, AtDrop, Mine, Versions, Contents, Broken
<1> QED BY <1>3, <1>4, <1>5, <1>6, <1>7, <1>8, <1>9, <1>10

LEMMA DropStagingStep ==
    ASSUME SwapInv, DropStaging
    PROVE  SwapInv'
BY DropDiscards, DropKeeps DEF DropStaging

LEMMA CrashStep ==
    ASSUME SwapInv, Crash
    PROVE  SwapInv'
<1> USE DEF SwapInv, Exists, Backed, Absent
<1>1. /\ process' = "down" /\ seen' = {} /\ doomed' = {} /\ retained' = FALSE
      /\ op' \in Operations /\ op'.at = "idle" /\ crashes' \in 0 .. MaxCrashes
      /\ UNCHANGED <<folder, staging, fetched, owned, mingled, failures>>
  BY SwapBounds, BlankRecords DEF Crash, NoOp, SwapTypeOK
<1>2. SwapTypeOK'
  BY <1>1 DEF SwapTypeOK
<1>3. StagingFits'
  BY SwapBounds, <1>1, <1>2
  DEF SwapTypeOK, StagingFits, OpFits, AtPlace, AtRecord, Recorded, AtSwap, AtDrop,
      Mine, Versions, Contents, Broken
<1>4. OpFits'
  BY SwapBounds, <1>1, <1>2
  DEF SwapTypeOK, StagingFits, OpFits, AtPlace, AtRecord, Recorded, AtSwap, AtDrop,
      Mine, Versions, Contents, Broken
<1>5. Dated'
  BY SwapBounds, <1>1, <1>2
  DEF SwapTypeOK, Dated, Coming, StagingFits, OpFits, AtPlace, AtRecord, Recorded,
      AtSwap, AtDrop, Mine, Versions, Contents, Broken
<1>6. OneBackup'
  BY SwapBounds, <1>1, <1>2
  DEF SwapTypeOK, OneBackup, StagingFits, OpFits, AtPlace, AtRecord, Recorded, AtSwap,
      AtDrop, Mine, Versions, Contents, Broken
<1>7. Distinct'
  BY SwapBounds, <1>1, <1>2
  DEF SwapTypeOK, Distinct, Dated, Coming, OneBackup, StagingFits, OpFits, AtPlace,
      AtRecord, Recorded, AtSwap, AtDrop, Mine, Versions, Contents, Broken
<1>8. HeldIsOwned'
  BY SwapBounds, <1>1, <1>2
  DEF SwapTypeOK, HeldIsOwned, Waits, Distinct, Dated, Coming, OneBackup, StagingFits,
      OpFits, AtPlace, AtRecord, Recorded, AtSwap, AtDrop, Mine, Versions, Contents,
      Broken
<1>9. Settled'
  BY SwapBounds, <1>1, <1>2
  DEF SwapTypeOK, Settled, Waits, OneBackup, StagingFits, OpFits, AtPlace, AtRecord,
      Recorded, AtSwap, AtDrop, Mine, Versions, Contents, Broken
<1> QED BY <1>2, <1>3, <1>4, <1>5, <1>6, <1>7, <1>8, <1>9

LEMMA StartStep ==
    ASSUME SwapInv, Start
    PROVE  SwapInv'
<1> USE DEF SwapInv, Exists, Backed, Absent
<1>1. /\ process = "down" /\ process' = "starting"
      /\ UNCHANGED <<folder, staging, op, seen, doomed, fetched, owned, retained, mingled,
                     failures, crashes>>
  BY DEF Start, startVars, limitVars
<1>2. SwapTypeOK'
  BY <1>1 DEF SwapTypeOK
<1>3. StagingFits'
  BY SwapBounds, <1>1, <1>2
  DEF SwapTypeOK, StagingFits, OpFits, AtPlace, AtRecord, Recorded, AtSwap, AtDrop,
      Mine, Versions, Contents, Broken
<1>4. OpFits'
  BY SwapBounds, <1>1, <1>2
  DEF SwapTypeOK, StagingFits, OpFits, AtPlace, AtRecord, Recorded, AtSwap, AtDrop,
      Mine, Versions, Contents, Broken
<1>5. Dated'
  BY SwapBounds, <1>1, <1>2
  DEF SwapTypeOK, Dated, Coming, StagingFits, OpFits, AtPlace, AtRecord, Recorded,
      AtSwap, AtDrop, Mine, Versions, Contents, Broken
<1>6. OneBackup'
  BY SwapBounds, <1>1, <1>2
  DEF SwapTypeOK, OneBackup, StagingFits, OpFits, AtPlace, AtRecord, Recorded, AtSwap,
      AtDrop, Mine, Versions, Contents, Broken
<1>7. Distinct'
  BY SwapBounds, <1>1, <1>2
  DEF SwapTypeOK, Distinct, Dated, Coming, OneBackup, StagingFits, OpFits, AtPlace,
      AtRecord, Recorded, AtSwap, AtDrop, Mine, Versions, Contents, Broken
<1>8. HeldIsOwned'
  BY SwapBounds, <1>1, <1>2
  DEF SwapTypeOK, HeldIsOwned, Waits, Distinct, Dated, Coming, OneBackup, StagingFits,
      OpFits, AtPlace, AtRecord, Recorded, AtSwap, AtDrop, Mine, Versions, Contents,
      Broken
<1>9. Settled'
  BY SwapBounds, <1>1, <1>2
  DEF SwapTypeOK, Settled, Waits, OneBackup, StagingFits, OpFits, AtPlace, AtRecord,
      Recorded, AtSwap, AtDrop, Mine, Versions, Contents, Broken
<1> QED BY <1>2, <1>3, <1>4, <1>5, <1>6, <1>7, <1>8, <1>9

LEMMA CollectRestores ==
    ASSUME SwapInv, NEW s \in Slots, Collect(s), CallWorks, Backed(s), UNCHANGED retained,
           ~Exists(staging[s].target), ~Exists(staging[s].previous),
           folder' = [folder EXCEPT ![staging[s].previous] = staging[s].backup],
           staging' = [staging EXCEPT ![s].backup = Absent], doomed' = doomed \cup {s}
    PROVE  SwapInv'
<1> USE DEF SwapInv, Exists, Backed, Absent
<1>1. /\ process = "starting" /\ op.at = "idle"
      /\ seen' = seen \cup {s} /\ failures' \in 0 .. MaxFailures
      /\ UNCHANGED <<process, op, fetched, owned, mingled, crashes>> /\ staging[s].here
  BY OneCall DEF Collect, StagingFits
<1>2. /\ staging[s].previous \in Folders /\ staging[s].target \in Folders
      /\ staging[s].backup \in Contents /\ NoName \notin Folders
  BY SwapBounds DEF StagingFits, SwapTypeOK, Stagings
<1>3. /\ staging' \in [Slots -> Stagings]
      /\ staging'[s].backup = Absent
      /\ \A t \in Slots :
           /\ t # s => staging'[t].backup = staging[t].backup
           /\ staging'[t].here = staging[t].here
           /\ staging'[t].incoming = staging[t].incoming
           /\ staging'[t].previous = staging[t].previous
           /\ staging'[t].target = staging[t].target
  BY BackupBecomes, VersionsAreContents
<1>4. /\ folder' \in [Folders -> Contents] /\ folder'[staging[s].previous] = staging[s].backup
      /\ \A f \in Folders : f # staging[s].previous => folder'[f] = folder[f]
  BY <1>2, FolderBecomes
<1>5. SwapTypeOK'
  BY <1>1, <1>2, <1>3, <1>4 DEF SwapTypeOK
<1>6. StagingFits'
  BY SwapBounds, <1>1, <1>2, <1>3, <1>4, <1>5
  DEF SwapTypeOK, StagingFits, OpFits, AtPlace, AtRecord, Recorded, AtSwap, AtDrop,
      Mine, Versions, Contents, Broken
<1>7. OpFits'
  BY SwapBounds, <1>1, <1>2, <1>3, <1>4, <1>5
  DEF SwapTypeOK, StagingFits, OpFits, AtPlace, AtRecord, Recorded, AtSwap, AtDrop,
      Mine, Versions, Contents, Broken
<1>8. Dated'
  BY SwapBounds, <1>1, <1>2, <1>3, <1>4, <1>5
  DEF SwapTypeOK, Dated, Coming, StagingFits, OpFits, AtPlace, AtRecord, Recorded,
      AtSwap, AtDrop, Mine, Versions, Contents, Broken
<1>9. OneBackup'
  BY SwapBounds, <1>1, <1>2, <1>3, <1>4, <1>5
  DEF SwapTypeOK, OneBackup, StagingFits, OpFits, AtPlace, AtRecord, Recorded, AtSwap,
      AtDrop, Mine, Versions, Contents, Broken
<1>10. Distinct'
  BY SwapBounds, <1>1, <1>2, <1>3, <1>4, <1>5
  DEF SwapTypeOK, Distinct, Dated, Coming, OneBackup, StagingFits, OpFits, AtPlace,
      AtRecord, Recorded, AtSwap, AtDrop, Mine, Versions, Contents, Broken
<1>11. HeldIsOwned'
  BY SwapBounds, <1>1, <1>2, <1>3, <1>4, <1>5
  DEF SwapTypeOK, HeldIsOwned, Waits, Distinct, Dated, Coming, OneBackup, StagingFits,
      OpFits, AtPlace, AtRecord, Recorded, AtSwap, AtDrop, Mine, Versions, Contents,
      Broken
<1>12. Settled'
  BY SwapBounds, <1>1, <1>2, <1>3, <1>4, <1>5
  DEF SwapTypeOK, Settled, Waits, OneBackup, StagingFits, OpFits, AtPlace, AtRecord,
      Recorded, AtSwap, AtDrop, Mine, Versions, Contents, Broken
<1> QED BY <1>5, <1>6, <1>7, <1>8, <1>9, <1>10, <1>11, <1>12

LEMMA CollectLeaves ==
    ASSUME SwapInv, NEW s \in Slots, Collect(s), UNCHANGED <<folder, staging>>,
           \/ UNCHANGED doomed /\ retained'
           \/ /\ doomed' = doomed \cup {s} /\ UNCHANGED retained
              /\ Backed(s) => Exists(staging[s].target)
    PROVE  SwapInv'
<1> USE DEF SwapInv, Exists, Backed, Absent
<1>1. /\ process = "starting" /\ op.at = "idle"
      /\ seen' = seen \cup {s} /\ failures' \in 0 .. MaxFailures
      /\ UNCHANGED <<process, op, fetched, owned, mingled, crashes>> /\ staging[s].here
  BY OneCall DEF Collect, Recover, NeedsRestore, StagingFits
<1>2. SwapTypeOK'
  BY <1>1 DEF SwapTypeOK, Collect, Recover
<1>3. StagingFits'
  BY SwapBounds, <1>1, <1>2
  DEF SwapTypeOK, StagingFits, OpFits, AtPlace, AtRecord, Recorded, AtSwap, AtDrop,
      Mine, Versions, Contents, Broken
<1>4. OpFits'
  BY SwapBounds, <1>1, <1>2
  DEF SwapTypeOK, StagingFits, OpFits, AtPlace, AtRecord, Recorded, AtSwap, AtDrop,
      Mine, Versions, Contents, Broken
<1>5. Dated'
  BY SwapBounds, <1>1, <1>2
  DEF SwapTypeOK, Dated, Coming, StagingFits, OpFits, AtPlace, AtRecord, Recorded,
      AtSwap, AtDrop, Mine, Versions, Contents, Broken
<1>6. OneBackup'
  BY SwapBounds, <1>1, <1>2
  DEF SwapTypeOK, OneBackup, StagingFits, OpFits, AtPlace, AtRecord, Recorded, AtSwap,
      AtDrop, Mine, Versions, Contents, Broken
<1>7. Distinct'
  BY SwapBounds, <1>1, <1>2
  DEF SwapTypeOK, Distinct, Dated, Coming, OneBackup, StagingFits, OpFits, AtPlace,
      AtRecord, Recorded, AtSwap, AtDrop, Mine, Versions, Contents, Broken
<1>8. HeldIsOwned'
  BY SwapBounds, <1>1, <1>2
  DEF SwapTypeOK, HeldIsOwned, Waits, Distinct, Dated, Coming, OneBackup, StagingFits,
      OpFits, AtPlace, AtRecord, Recorded, AtSwap, AtDrop, Mine, Versions, Contents,
      Broken
<1>9. Settled'
  BY SwapBounds, <1>1, <1>2
  DEF SwapTypeOK, Settled, Waits, OneBackup, StagingFits, OpFits, AtPlace, AtRecord,
      Recorded, AtSwap, AtDrop, Mine, Versions, Contents, Broken
<1> QED BY <1>2, <1>3, <1>4, <1>5, <1>6, <1>7, <1>8, <1>9

LEMMA CollectStep ==
    ASSUME SwapInv, NEW s \in Slots, Collect(s)
    PROVE  SwapInv'
<1>1. CASE NeedsRestore(s)
  BY <1>1, CollectRestores, CollectLeaves DEF Collect, Recover, NeedsRestore, Backed
<1>2. CASE ~NeedsRestore(s)
  BY <1>2, CollectLeaves DEF Collect, NeedsRestore, Backed
<1> QED BY <1>1, <1>2

LEMMA RecoveredStep ==
    ASSUME SwapInv, Recovered
    PROVE  SwapInv'
<1> USE DEF SwapInv, Exists, Backed, Absent
<1>1. /\ process = "starting" /\ process' = "up"
      /\ \A s \in Slots : staging[s].here => s \in seen
      /\ UNCHANGED <<folder, staging, op, seen, doomed, fetched, owned, retained, mingled,
                     failures, crashes>>
  BY DEF Recovered, startVars, limitVars
<1>2. SwapTypeOK'
  BY <1>1 DEF SwapTypeOK
<1>3. StagingFits'
  BY SwapBounds, <1>1, <1>2
  DEF SwapTypeOK, StagingFits, OpFits, AtPlace, AtRecord, Recorded, AtSwap, AtDrop,
      Mine, Versions, Contents, Broken
<1>4. OpFits'
  BY SwapBounds, <1>1, <1>2
  DEF SwapTypeOK, StagingFits, OpFits, AtPlace, AtRecord, Recorded, AtSwap, AtDrop,
      Mine, Versions, Contents, Broken
<1>5. Dated'
  BY SwapBounds, <1>1, <1>2
  DEF SwapTypeOK, Dated, Coming, StagingFits, OpFits, AtPlace, AtRecord, Recorded,
      AtSwap, AtDrop, Mine, Versions, Contents, Broken
<1>6. OneBackup'
  BY SwapBounds, <1>1, <1>2
  DEF SwapTypeOK, OneBackup, StagingFits, OpFits, AtPlace, AtRecord, Recorded, AtSwap,
      AtDrop, Mine, Versions, Contents, Broken
<1>7. Distinct'
  BY SwapBounds, <1>1, <1>2
  DEF SwapTypeOK, Distinct, Dated, Coming, OneBackup, StagingFits, OpFits, AtPlace,
      AtRecord, Recorded, AtSwap, AtDrop, Mine, Versions, Contents, Broken
<1>8. HeldIsOwned'
  BY SwapBounds, <1>1, <1>2
  DEF SwapTypeOK, HeldIsOwned, Waits, Distinct, Dated, Coming, OneBackup, StagingFits,
      OpFits, AtPlace, AtRecord, Recorded, AtSwap, AtDrop, Mine, Versions, Contents,
      Broken
<1>9. Settled'
  BY SwapBounds, <1>1, <1>2
  DEF SwapTypeOK, Settled, Waits, OneBackup, StagingFits, OpFits, AtPlace, AtRecord,
      Recorded, AtSwap, AtDrop, Mine, Versions, Contents, Broken
<1> QED BY <1>2, <1>3, <1>4, <1>5, <1>6, <1>7, <1>8, <1>9

LEMMA SweepStep ==
    ASSUME SwapInv, NEW s \in Slots, Sweep(s)
    PROVE  SwapInv'
<1> USE DEF SwapInv, Exists, Backed, Absent
<1>1. /\ process = "up" /\ s \in doomed /\ doomed' = doomed \ {s}
      /\ op.at \notin {"idle", "remove"} => s # op.slot
      /\ UNCHANGED <<process, folder, op, seen, fetched, owned, retained, mingled, crashes>>
  BY DEF Sweep, OpFits
<1>2. /\ staging' \in [Slots -> Stagings] /\ failures' \in 0 .. MaxFailures
      /\ \A t \in Slots : t # s => staging'[t] = staging[t]
      /\ staging'[s].backup # Absent =>
           /\ staging[s].backup # Absent
           /\ staging'[s].backup \in {staging[s].backup, Broken}
           /\ staging'[s].here = staging[s].here
           /\ staging'[s].previous = staging[s].previous
           /\ staging'[s].target = staging[s].target
  BY DiscardEffect DEF Sweep
<1>3. SwapTypeOK'
  BY <1>1, <1>2 DEF SwapTypeOK
<1>4. StagingFits'
  BY SwapBounds, <1>1, <1>2, <1>3
  DEF SwapTypeOK, StagingFits, OpFits, AtPlace, AtRecord, Recorded, AtSwap, AtDrop,
      Mine, Versions, Contents, Broken
<1>5. OpFits'
  BY SwapBounds, <1>1, <1>2, <1>3
  DEF SwapTypeOK, StagingFits, OpFits, AtPlace, AtRecord, Recorded, AtSwap, AtDrop,
      Mine, Versions, Contents, Broken
<1>6. Dated'
  BY SwapBounds, <1>1, <1>2, <1>3
  DEF SwapTypeOK, Dated, Coming, StagingFits, OpFits, AtPlace, AtRecord, Recorded,
      AtSwap, AtDrop, Mine, Versions, Contents, Broken
<1>7. OneBackup'
  BY SwapBounds, <1>1, <1>2, <1>3
  DEF SwapTypeOK, OneBackup, StagingFits, OpFits, AtPlace, AtRecord, Recorded, AtSwap,
      AtDrop, Mine, Versions, Contents, Broken
<1>8. Distinct'
  BY SwapBounds, <1>1, <1>2, <1>3
  DEF SwapTypeOK, Distinct, Dated, Coming, OneBackup, StagingFits, OpFits, AtPlace,
      AtRecord, Recorded, AtSwap, AtDrop, Mine, Versions, Contents, Broken
<1>9. HeldIsOwned'
  <2> SUFFICES ASSUME ~mingled PROVE HeldIsOwned'
    BY <1>1 DEF HeldIsOwned
  <2>1. Backed(s) => ~Waits(s)
    BY <1>1 DEF Settled
  <2>2. \A t \in Slots : staging'[t].backup \in Versions => staging'[t] = staging[t] \/ t = s
    BY <1>2
  <2>3. Absent \notin Versions /\ Broken \notin Versions /\ owned \subseteq Versions
    BY VersionsAreContents DEF SwapTypeOK
  <2>4. \A t \in Slots : staging'[t].backup \in Versions /\ Waits(t)' => staging'[t].backup \in owned
    BY <1>1, <1>2, <2>1, <2>2, <2>3 DEF HeldIsOwned, Waits
  <2>5. \A v \in owned : \/ \E f \in Folders : folder[f] = v
                         \/ \E t \in Slots : Waits(t)' /\ staging'[t].backup = v
    BY <1>1, <1>2, <2>1, <2>3 DEF HeldIsOwned, Waits
  <2> QED BY <1>1, <2>4, <2>5 DEF HeldIsOwned
<1>10. Settled'
  BY SwapBounds, <1>1, <1>2, <1>3
  DEF SwapTypeOK, Settled, Waits, OneBackup, StagingFits, OpFits, AtPlace, AtRecord,
      Recorded, AtSwap, AtDrop, Mine, Versions, Contents, Broken
<1> QED BY <1>3, <1>4, <1>5, <1>6, <1>7, <1>8, <1>9, <1>10

LEMMA NextSwap ==
    ASSUME SwapInv, [SwapNext]_swapVars
    PROVE  SwapInv'
<1>1. CASE UNCHANGED swapVars
  BY <1>1 DEF SwapInv, SwapTypeOK, StagingFits, OpFits, AtPlace, AtRecord, Recorded, AtSwap,
              AtDrop, Mine, Dated, Coming, OneBackup, Distinct, HeldIsOwned, Settled, Backed,
              Waits, Exists, swapVars, startVars, limitVars
<1>2. CASE SwapNext
  BY <1>2, InstallStep, ReplaceStep, RemoveStep, RemovePartStep, RemoveRestStep, PlaceStep,
     RecordStep, MoveAsideStep, SwapStep, RestoreOldStep, DropStagingStep, CrashStep, StartStep,
     RecoveredStep, CollectStep, SweepStep
  DEF SwapNext
<1> QED BY <1>1, <1>2

-----------------------------------------------------------------------------
(* The theorems.                                                            *)

(* The inductive invariant holds in every state the folders can get into.   *)
THEOREM SwapInvariant == SwapSpec => []SwapInv
<1>1. SwapInit => SwapInv
  BY InitSwap
<1>2. SwapInv /\ [SwapNext]_swapVars => SwapInv'
  BY NextSwap
<1> QED BY <1>1, <1>2, PTL DEF SwapSpec

(* The player has what lies in the folders and what waits to be put back.   *)
LEMMA HeldIs == SwapInv => owned \subseteq Versions /\ (~mingled => Held = owned)
<1> SUFFICES ASSUME SwapInv, ~mingled PROVE Held = owned
  BY DEF SwapInv, SwapTypeOK
<1>1. owned \subseteq Versions
  BY DEF SwapInv, SwapTypeOK
<1>2. ASSUME NEW v \in Versions, (\E f \in Folders : folder[f] = v)
                                 \/ (\E s \in Slots : Waits(s) /\ staging[s].backup = v)
      PROVE  v \in owned
  BY <1>2 DEF SwapInv, HeldIsOwned
<1>3. ASSUME NEW v \in owned
      PROVE  (\E f \in Folders : folder[f] = v)
             \/ (\E s \in Slots : Waits(s) /\ staging[s].backup = v)
  BY DEF SwapInv, HeldIsOwned
<1> QED BY <1>1, <1>2, <1>3 DEF Held, InFolders, Undecided, Waits

(* A version the player has is never lost, whichever call fails and         *)
(* wherever the process dies (DirectoryReplacement and                      *)
(* recover_interrupted_work).                                               *)
THEOREM ModIsNeverLost == SwapSpec => []CopyKept
<1>1. SwapInv => CopyKept
  BY HeldIs DEF CopyKept
<1> QED BY <1>1, SwapInvariant, PTL

(* ... and is in its folder whenever the client is up and idle, unless a    *)
(* rename back failed since it was started.                                 *)
THEOREM ModIsInPlace == SwapSpec => []InPlaceWhenUp
<1>1. SwapInv => InPlaceWhenUp
  <2> SUFFICES ASSUME SwapInv, Idle, ~mingled, ~retained, NEW v \in owned PROVE v \in InFolders
    BY DEF InPlaceWhenUp
  <2>1. v \in Versions /\ Absent \notin Versions
    BY HeldIs, VersionsAreContents
  <2>2. \A s \in Slots : staging[s].backup = v => ~Waits(s)
    BY <2>1 DEF SwapInv, Settled, Idle, Backed
  <2>3. \E f \in Folders : folder[f] = v
    BY <2>2 DEF SwapInv, HeldIsOwned
  <2> QED BY <2>1, <2>3 DEF InFolders
<1> QED BY <1>1, SwapInvariant, PTL

(* No update, removal, failing call, crash or recovery brings a version     *)
(* back that was replaced or removed (recover_replacement asks whether the  *)
(* new one came).                                                           *)
THEOREM ReplacedStaysAway == SwapSpec => []NothingComesBack
<1>1. SwapInv => NothingComesBack
  BY DEF SwapInv, HeldIsOwned, NothingComesBack, InFolders
<1> QED BY <1>1, SwapInvariant, PTL

(* The variables keep their types.                                          *)
THEOREM SwapTypes == SwapSpec => []SwapTypeOK
BY SwapInvariant, PTL DEF SwapInv

-----------------------------------------------------------------------------
(* FolderSwap implements AtomicUpdate.  While nothing is mingled Held is    *)
(* owned, so what a step does to owned is what it does to Held.             *)

Plain == SwapInv /\ SwapInv' /\ ~mingled /\ ~mingled'

LEMMA HeldIsOwnedThen == (SwapInv => owned \subseteq Versions /\ (~mingled => Held = owned))'
BY HeldIs, PTL

LEMMA PlainHeld ==
    ASSUME Plain
    PROVE  Held = owned /\ Held' = owned' /\ owned \subseteq Versions
BY HeldIs, HeldIsOwnedThen DEF Plain

(* A step that leaves no operation able to commit, and what the player has  *)
(* as it was, is the end of one that came to nothing.                       *)
LEMMA Aborts ==
    ASSUME Plain, UNCHANGED owned, ~Coming', op'.at # "remove"
    PROVE  Update!Abort
<1>1. Held' = Held
  BY PlainHeld
<1>2. Incoming' = Absent /\ Outgoing' = {}
  BY DEF Incoming, Outgoing, Coming
<1> QED BY <1>1, <1>2 DEF Update!Abort, Update!NoArchive, Absent

LEMMA StageBegins ==
    ASSUME Plain, NEW kind \in {"install", "replace"}, NEW previous \in Names,
           kind = "replace" => previous \in Folders,
           NEW target \in Folders, Stage(kind, previous, target)
    PROVE  \E v \in Versions : Update!Begin(v)
<1>1. /\ op'.slot \in Slots /\ op'.previous = previous
      /\ op'.at = (IF kind = "install" THEN "place" ELSE "record")
      /\ staging'[op'.slot].incoming = fetched + 1
      /\ staging'[op'.slot].incoming \in Versions
  BY StageEffect DEF Plain, SwapInv
<1>2. folder' = folder /\ op.at = "idle" /\ UNCHANGED owned
  BY DEF Stage, Idle
<1>3. Incoming = Absent /\ Outgoing = {} /\ Incoming' = fetched + 1
  BY <1>1, <1>2 DEF Incoming, Outgoing, Coming, Mine
<1>4. Held = owned /\ Held' = owned
  BY <1>2, PlainHeld
<1>5. Outgoing' \subseteq Held /\ \A v, w \in Outgoing' : v = w
  <2>1. Outgoing' \subseteq {folder[previous]} \cap Versions /\ (kind = "install" => Outgoing' = {})
    BY <1>1, <1>2 DEF Outgoing
  <2>2. previous \in Folders /\ folder[previous] \in Versions => folder[previous] \in owned
    BY DEF Plain, SwapInv, HeldIsOwned
  <2> QED BY <1>4, <2>1, <2>2
<1>6. fetched \in Nat /\ \A w \in Versions : w \in Nat
  BY SwapBounds DEF Plain, SwapInv, SwapTypeOK, Versions
<1>7. \A w \in owned : w \in Versions /\ w <= fetched
  BY PlainHeld DEF Plain, SwapInv, HeldIsOwned, Dated
<1>8. \A w \in Held : w < fetched + 1
  BY <1>4, <1>6, <1>7
<1>9. fetched + 1 \in Versions
  BY <1>1
<1> QED BY <1>3, <1>4, <1>5, <1>8, <1>9 DEF Update!Begin, Update!NoArchive, Absent

LEMMA RemoveBegins ==
    ASSUME Plain, NEW f \in Folders, Remove(f)
    PROVE  \/ \E v \in Versions : Update!BeginRemoval(v)
           \/ UNCHANGED <<Held, Incoming, Outgoing>>
<1>1. op.at = "idle" /\ op'.at = "remove" /\ op'.target = f /\ UNCHANGED <<folder, owned>>
  BY DEF Remove, Idle, NoOp
<1>2. Held = owned /\ Held' = owned
  BY <1>1, PlainHeld
<1>3. /\ Incoming = Absent /\ Incoming' = Absent /\ Outgoing = {}
      /\ Outgoing' = {folder[f]} \cap Versions
  BY <1>1 DEF Incoming, Outgoing, Coming
<1>4. CASE folder[f] \in Versions
  <2>1. folder[f] \in Held /\ Outgoing' = {folder[f]}
    BY <1>2, <1>3, <1>4 DEF Plain, SwapInv, HeldIsOwned
  <2> QED BY <1>2, <1>3, <1>4, <2>1 DEF Update!BeginRemoval, Update!NoArchive, Absent
<1>5. CASE folder[f] \notin Versions
  <2>1. Outgoing' = {}
    BY <1>3, <1>5
  <2> QED BY <1>2, <1>3, <2>1
<1> QED BY <1>4, <1>5

LEMMA RemovalRemoves ==
    ASSUME Plain, op.at = "remove", owned' = owned \ {folder[op.target]},
           op' = NoOp \/ (op' = op /\ folder'[op.target] \notin Versions)
    PROVE  Update!Remove \/ UNCHANGED <<Held, Incoming, Outgoing>>
<1>1. Held = owned /\ Held' = owned \ {folder[op.target]} /\ owned \subseteq Versions
  BY PlainHeld
<1>2. /\ Incoming = Absent /\ Incoming' = Absent
      /\ Outgoing = {folder[op.target]} \cap Versions
  BY DEF Incoming, Outgoing, Coming, NoOp
<1>3. Outgoing' = {}
  BY DEF Outgoing, NoOp
<1>4. CASE folder[op.target] \in Versions
  <2>1. Outgoing = {folder[op.target]}
    BY <1>2, <1>4
  <2> QED BY <1>1, <1>2, <1>3, <2>1 DEF Update!Remove, Update!NoArchive, Absent
<1>5. CASE folder[op.target] \notin Versions
  <2>1. Outgoing = {} /\ owned \ {folder[op.target]} = owned
    BY <1>1, <1>2, <1>5
  <2> QED BY <1>1, <1>2, <1>3, <2>1
<1> QED BY <1>4, <1>5

LEMMA PlaceOrSwapCommits ==
    ASSUME Plain,
           \/ op.at = "place" /\ owned' = owned \cup {Mine.incoming}
           \/ op.at = "swap" /\ owned' = (owned \ {Mine.backup}) \cup {Mine.incoming},
           op'.at = "drop"
    PROVE  Update!Commit
<1>1. Held = owned /\ Held' = owned' /\ owned \subseteq Versions
  BY PlainHeld
<1>2. Incoming = Mine.incoming /\ Incoming # Absent /\ Incoming' = Absent /\ Outgoing' = {}
  BY VersionsAreContents DEF Incoming, Outgoing, Coming, Plain, SwapInv, Dated
<1>3. CASE op.at = "place"
  <2>1. Outgoing = {}
    BY <1>3 DEF Outgoing
  <2> QED BY <1>1, <1>2, <1>3, <2>1 DEF Update!Commit, Update!NoArchive, Absent
<1>4. CASE op.at = "swap"
  <2>1. Outgoing = {Mine.backup} \cap Versions
    BY <1>4 DEF Outgoing
  <2>2. Held \ Outgoing = owned \ {Mine.backup}
    BY <1>1, <2>1
  <2> QED BY <1>1, <1>2, <1>4, <2>2 DEF Update!Commit, Update!NoArchive, Absent
<1> QED BY <1>3, <1>4

(* The record, and what is moved aside, are not seen.                       *)
LEMMA AsideIsUnseen ==
    ASSUME Plain, Record \/ MoveAside, op'.at # "drop"
    PROVE  UNCHANGED <<Held, Incoming, Outgoing>>
<1>1. op.at \in {"record", "aside"} /\ op.slot \in Slots /\ op.previous \in Folders /\ AtRecord
  BY DEF Record, MoveAside, Plain, SwapInv, OpFits, AtRecord
<1>2. op'.at \in {"aside", "swap"} /\ op'.slot = op.slot /\ op'.previous = op.previous
  BY <1>1, OperationMoves DEF Record, MoveAside, Steps, Plain, SwapInv
<1>3. UNCHANGED <<owned, fetched>>
  BY DEF Record, MoveAside
<1>4. Held' = Held
  BY <1>3, PlainHeld
<1>5. Incoming' = fetched /\ Incoming = fetched
  BY <1>1, <1>2, <1>3 DEF Incoming, Coming, Plain, SwapInv, Dated
<1>6. Outgoing' = Outgoing
  <2>1. Outgoing = {folder[op.previous]} \cap Versions
    BY <1>1 DEF Outgoing
  <2>2. CASE Record
    <3>1. op'.at = "aside" /\ folder' = folder
      BY <2>2, OperationMoves DEF Record, Steps, Plain, SwapInv
    <3> QED BY <1>2, <2>1, <3>1 DEF Outgoing
  <2>3. CASE MoveAside
    <3>1. op'.at = "swap" /\ Outgoing' = {Mine'.backup} \cap Versions
      BY <2>3, OperationMoves DEF MoveAside, Steps, Plain, SwapInv, Outgoing
    <3>2. CASE Exists(op.previous)
      <4>1. staging' = [staging EXCEPT ![op.slot].backup = folder[op.previous]]
        BY <2>3, <3>1, <3>2, OperationMoves DEF MoveAside, Steps, Plain, SwapInv
      <4>2. Mine'.backup = folder[op.previous]
        BY <1>1, <1>2, <4>1 DEF Mine, Plain, SwapInv, SwapTypeOK, Stagings
      <4> QED BY <2>1, <3>1, <4>2
    <3>3. CASE ~Exists(op.previous)
      <4>1. staging' = staging
        BY <2>3, <3>3 DEF MoveAside
      <4>2. Mine'.backup = Absent /\ folder[op.previous] = Absent
        BY <1>1, <1>2, <3>3, <4>1 DEF Mine, AtRecord, Exists
      <4> QED BY <2>1, <3>1, <4>2
    <3> QED BY <3>2, <3>3
  <2> QED BY <1>1, <2>2, <2>3
<1> QED BY <1>4, <1>5, <1>6

LEMMA SweepIsUnseen ==
    ASSUME Plain, NEW s \in Slots, Sweep(s)
    PROVE  UNCHANGED <<Held, Incoming, Outgoing>>
<1>1. op' = op /\ folder' = folder /\ UNCHANGED owned /\ Discard(s) /\ s \in doomed
  BY DEF Sweep
<1>2. Held' = Held
  BY <1>1, PlainHeld
<1>3. \A t \in Slots : t # s => staging'[t] = staging[t]
  BY <1>1, DiscardEffect DEF Plain, SwapInv
<1>4. op.at \notin {"idle", "remove"} => op.slot \in Slots /\ op.slot # s
  BY <1>1 DEF Plain, SwapInv, OpFits
<1>5. op.at \notin {"idle", "remove"} => Mine' = Mine
  BY <1>1, <1>3, <1>4 DEF Mine
<1> QED BY <1>1, <1>2, <1>5 DEF Incoming, Outgoing, Coming

LEMMA PlainStep ==
    ASSUME Plain, SwapNext
    PROVE  Update!Step \/ UNCHANGED <<Held, Incoming, Outgoing>>
<1> DEFINE Goal == Update!Step \/ UNCHANGED <<Held, Incoming, Outgoing>>
<1> USE DEF Update!Step
<1>0. SwapTypeOK
  BY DEF Plain, SwapInv
<1>1. ASSUME NEW f \in Folders, Install(f) PROVE Goal
  BY <1>1, StageBegins DEF Install, Names
<1>2. ASSUME NEW f \in Folders, NEW g \in Folders, Replace(f, g) PROVE Goal
  BY <1>2, StageBegins DEF Replace, Names
<1>3. ASSUME NEW f \in Folders, Remove(f) PROVE Goal
  BY <1>3, RemoveBegins
<1>4. CASE RemovePart
  <2>1. op.target \in Folders
    BY <1>4 DEF RemovePart, Plain, SwapInv, OpFits
  <2>2. folder'[op.target] \notin Versions
    BY <1>0, <1>4, <2>1, VersionsAreContents DEF RemovePart, SwapTypeOK
  <2> QED BY <1>4, <2>2, RemovalRemoves DEF RemovePart
<1>5. CASE RemoveRest
  <2>1. CASE UNCHANGED owned
    BY <1>5, <2>1, Aborts DEF RemoveRest, NoOp, Coming
  <2>2. CASE owned' = owned \ {folder[op.target]}
    BY <1>5, <2>2, RemovalRemoves DEF RemoveRest
  <2> QED BY <1>5, <2>1, <2>2 DEF RemoveRest
<1>6. CASE Place
  <2>1. op'.at = "drop" /\ op.at = "place"
    BY <1>0, <1>6, OperationMoves DEF Place, Steps
  <2>2. CASE UNCHANGED owned
    BY <2>1, <2>2, Aborts DEF Coming
  <2>3. CASE owned' = owned \cup {Mine.incoming}
    BY <2>1, <2>3, PlaceOrSwapCommits
  <2> QED BY <1>6, <2>2, <2>3 DEF Place
<1>7. CASE Record \/ MoveAside
  <2>1. CASE op'.at = "drop"
    BY <1>7, <2>1, Aborts DEF Record, MoveAside, Coming
  <2> QED BY <1>7, <2>1, AsideIsUnseen
<1>8. CASE Swap
  <2>1. CASE UNCHANGED owned /\ op'.at \in {"drop", "restore"}
    BY <2>1, Aborts DEF Coming
  <2>2. CASE owned' = (owned \ {Mine.backup}) \cup {Mine.incoming} /\ op'.at = "drop"
    BY <1>8, <2>2, PlaceOrSwapCommits DEF Swap
  <2>3. \/ UNCHANGED owned /\ NextStep(IF Mine.backup = Absent THEN "drop" ELSE "restore")
        \/ /\ owned' = (owned \ {Mine.backup}) \cup {Mine.incoming}
           /\ op' = [op EXCEPT !.at = "drop", !.committed = TRUE]
    BY <1>8 DEF Swap
  <2>4. op \in Operations
    BY <1>0 DEF SwapTypeOK
  <2>5. CASE NextStep(IF Mine.backup = Absent THEN "drop" ELSE "restore") /\ UNCHANGED owned
    BY <1>0, <2>1, <2>5, OperationMoves DEF Steps
  <2>6. CASE /\ owned' = (owned \ {Mine.backup}) \cup {Mine.incoming}
             /\ op' = [op EXCEPT !.at = "drop", !.committed = TRUE]
    BY <2>2, <2>4, <2>6 DEF Operations
  <2> QED BY <2>3, <2>5, <2>6
<1>9. CASE RestoreOld
  <2>1. op'.at = "drop" /\ UNCHANGED owned
    BY <1>0, <1>9, OperationMoves DEF RestoreOld, Steps
  <2> QED BY <2>1, Aborts DEF Coming
<1>10. CASE DropStaging \/ Crash
  BY <1>10, Aborts DEF DropStaging, Crash, NoOp, Coming
<1>11. CASE Start \/ Recovered \/ \E s \in Slots : Collect(s)
  <2>1. op.at = "idle" /\ op' = op /\ UNCHANGED owned
    BY <1>11 DEF Start, Recovered, Collect, Plain, SwapInv, StagingFits
  <2> QED BY <2>1, Aborts DEF Coming
<1>12. ASSUME NEW s \in Slots, Sweep(s) PROVE Goal
  BY <1>12, SweepIsUnseen
<1> QED BY <1>1, <1>2, <1>3, <1>4, <1>5, <1>6, <1>7, <1>8, <1>9, <1>10, <1>11, <1>12
        DEF SwapNext

(* mingled is for good.                                                     *)
LEMMA MingledStays ==
    ASSUME [SwapNext]_swapVars, mingled
    PROVE  mingled'
BY DEF SwapNext, swapVars, Install, Replace, Stage, Remove, RemovePart, RemoveRest, Place, Record,
       MoveAside, Swap, RestoreOld, DropStaging, Crash, Start, Recovered, Collect, Sweep

LEMMA UpdateStep ==
    ASSUME SwapInv, SwapInv', [SwapNext]_swapVars
    PROVE  [Update!Next]_<<Held, Incoming, Outgoing, ~mingled>>
<1>1. CASE UNCHANGED swapVars
  BY <1>1 DEF swapVars, Held, InFolders, Undecided, Exists, Incoming, Outgoing, Coming, Mine
<1>2. CASE SwapNext /\ ~mingled'
  <2>1. ~mingled
    BY MingledStays, <1>2
  <2>2. Update!Step \/ UNCHANGED <<Held, Incoming, Outgoing>>
    BY <1>2, <2>1, PlainStep DEF Plain
  <2>3. (~mingled)' = ~mingled
    BY <1>2, <2>1 DEF SwapInv, SwapTypeOK
  <2> QED BY <1>2, <2>1, <2>2, <2>3 DEF Update!Next
<1>3. CASE mingled'
  <2>1. Held' \subseteq Versions /\ Outgoing' \subseteq Versions
    BY DEF Held, InFolders, Outgoing
  <2>2. Incoming' \in Versions \cup {Absent}
    BY DEF Incoming, SwapInv, Dated
  <2> QED BY <1>3, <2>1, <2>2 DEF Update!Next, Update!Unsure, Update!NoArchive, Absent
<1> QED BY <1>1, <1>2, <1>3

LEMMA UpdateInit == SwapInit => Update!Init
<1> SUFFICES ASSUME SwapInit PROVE Update!Init
  OBVIOUS
<1>1. op.at = "idle" /\ mingled = FALSE /\ owned = {}
  BY DEF SwapInit, NoOp
<1>2. Held = {}
  BY <1>1, InitSwap, HeldIs
<1>3. Incoming = Absent /\ Outgoing = {}
  BY <1>1 DEF Incoming, Outgoing, Coming
<1> QED BY <1>1, <1>2, <1>3 DEF Update!Init, Update!NoArchive, Absent

(* The installer implements AtomicUpdate: through failing calls, crashes    *)
(* and recoveries the player's versions change in one step                  *)
(* (DirectoryReplacement::commit, recover_replacement).                     *)
THEOREM InstallerIsAtomic == SwapSpec => UpdatesAreAtomic
<1>1. SwapInit => SwapInv /\ Update!Init
  BY InitSwap, UpdateInit
<1>2. SwapInv /\ [SwapNext]_swapVars => SwapInv'
  BY NextSwap
<1>3. SwapInv /\ SwapInv' /\ [SwapNext]_swapVars
        => [Update!Next]_<<Held, Incoming, Outgoing, ~mingled>>
  BY UpdateStep
<1> QED BY <1>1, <1>2, <1>3, PTL DEF SwapSpec, UpdatesAreAtomic, Update!Spec

=============================================================================
