----------------------------- MODULE FolderSwap -----------------------------
(***************************************************************************)
(* The folders of one mod on disk: a first install, the replacement of an  *)
(* installed version by another (whose archive may carry another folder    *)
(* name), an install beside other versions of the mod, as the preparation  *)
(* of a game makes it, a removal, and what the next start makes of         *)
(* whatever a crash left behind (infra/vault_install.rs,                   *)
(* infra/interrupted_work.rs, and remove_installed_mod and                 *)
(* ensure_game_mods_cancellable of infra/mods.rs).                         *)
(*                                                                         *)
(* Commands on mod files are serial, so one operation runs at a time.      *)
(* Between any two system calls the process may die.                       *)
(***************************************************************************)
EXTENDS Naturals, FiniteSets

CONSTANTS
    Folders,        \* the folder names the archives of this mod carry
    Slots,          \* names for staging folders
    MaxVersion,     \* how many archives are fetched in one run
    MaxFailures,    \* system calls that fail in one run
    MaxCrashes      \* how often the client dies in one run

NoName == "no folder"

ASSUME FolderSwapAssumption ==
    /\ IsFiniteSet(Folders) /\ NoName \notin Folders
    /\ IsFiniteSet(Slots)
    /\ MaxVersion \in Nat /\ MaxFailures \in Nat /\ MaxCrashes \in Nat

Absent == 0
Versions == 1 .. MaxVersion
Broken == MaxVersion + 1        \* a folder only part of which was removed
Contents == 0 .. MaxVersion + 1

VARIABLES
    process,    \* "down", "starting" (recovering) or "up"
    folder,     \* what each folder of the mods directory holds
    staging,    \* the staging folders beside them
    op,         \* the operation under way
    seen,       \* the staging folders this start has looked at
    doomed,     \* those its cleanup will delete
    fetched,    \* archives fetched so far
    owned,      \* history: the versions put in place, neither replaced nor removed since
    retained,   \* history: a rename back failed since the client started
    mingled,    \* history: an operation began beside the backup of an earlier one
    failures, crashes

limitVars == <<failures, crashes>>
startVars == <<seen, doomed>>
swapVars == <<process, folder, staging, op, startVars, fetched, owned, retained, mingled,
              limitVars>>

Names == Folders \cup {NoName}
Stagings == [here : BOOLEAN, incoming : Contents, backup : Contents,
             previous : Names, target : Names]
NoStaging == [here |-> FALSE, incoming |-> Absent, backup |-> Absent,
              previous |-> NoName, target |-> NoName]

NoSlot == "no staging"
Steps == {"idle", "place", "record", "aside", "swap", "restore", "drop", "remove"}
CallKinds == {"none", "install", "replace", "remove"}
Operations == [at : Steps, kind : CallKinds, slot : Slots \cup {NoSlot},
               previous : Names, target : Names, committed : BOOLEAN]
NoOp == [at |-> "idle", kind |-> "none", slot |-> NoSlot, previous |-> NoName,
         target |-> NoName, committed |-> FALSE]

SwapTypeOK ==
    /\ process \in {"down", "starting", "up"}
    /\ folder \in [Folders -> Contents]
    /\ staging \in [Slots -> Stagings]
    /\ op \in Operations
    /\ seen \subseteq Slots /\ doomed \subseteq Slots
    /\ fetched \in 0 .. MaxVersion
    /\ owned \subseteq Versions /\ retained \in BOOLEAN /\ mingled \in BOOLEAN
    /\ failures \in 0 .. MaxFailures /\ crashes \in 0 .. MaxCrashes

SwapInit ==
    /\ process = "up"
    /\ folder = [f \in Folders |-> Absent]
    /\ staging = [s \in Slots |-> NoStaging]
    /\ op = NoOp /\ seen = {} /\ doomed = {}
    /\ fetched = 0 /\ owned = {} /\ retained = FALSE /\ mingled = FALSE
    /\ failures = 0 /\ crashes = 0

-----------------------------------------------------------------------------

Exists(f) == folder[f] # Absent
CallFails == failures < MaxFailures /\ failures' = failures + 1
CallWorks == UNCHANGED failures
Idle == process = "up" /\ op.at = "idle"
NextStep(step) == op' = [op EXCEPT !.at = step]
Mine == staging[op.slot]

(* remove_dir_all, its error ignored: the folder goes, or stays whole, or  *)
(* stays in part.                                                          *)
Discard(s) ==
    \/ CallWorks /\ staging' = [staging EXCEPT ![s] = NoStaging]
    \/ CallFails /\ UNCHANGED staging
    \/ /\ CallFails
       /\ staging' = [staging EXCEPT ![s].incoming = Absent,
                        ![s].backup = IF @ = Absent THEN Absent ELSE Broken]

(* A backup whose staging folder could not be removed outlives its update, *)
(* and once a later operation moves its target away, recovery takes it for *)
(* an interrupted one.                                                     *)
Leftover == \E s \in Slots : staging[s].backup # Absent

(* An archive is fetched, checked and extracted into a staging folder of a *)
(* random name; one that turns out unfit leaves nothing behind.            *)
FreeSlots == {s \in Slots : ~staging[s].here}

Stage(kind, previous, target) ==
    /\ Idle /\ fetched < MaxVersion /\ FreeSlots # {}
    /\ LET s == CHOOSE free \in FreeSlots : TRUE IN
         /\ staging' = [staging EXCEPT ![s] =
                [NoStaging EXCEPT !.here = TRUE, !.incoming = fetched + 1]]
         /\ op' = [at |-> IF kind = "install" THEN "place" ELSE "record",
                   kind |-> kind, slot |-> s, previous |-> previous,
                   target |-> target, committed |-> FALSE]
    /\ fetched' = fetched + 1
    /\ mingled' = (mingled \/ Leftover)
    /\ UNCHANGED <<process, folder, startVars, owned, retained, limitVars>>

(* A version is installed beside whatever others there are: only the       *)
(* folder its archive names has to be free.                                *)
Install(f) == ~Exists(f) /\ Stage("install", NoName, f)

(* The page updates a folder of the list it last read, which may be what a *)
(* failed removal left, or one that an update could not put back; a join   *)
(* replaces what is in the way of the version it needs.                    *)
Listed(f) ==
    \/ Exists(f)
    \/ retained /\ \E s \in Slots : staging[s].backup # Absent /\ staging[s].previous = f

Replace(f, target) ==
    /\ Listed(f)
    /\ target # f => ~Exists(target)
    /\ Stage("replace", f, target)

Remove(f) ==
    /\ Idle /\ Exists(f)
    /\ op' = [NoOp EXCEPT !.at = "remove", !.kind = "remove", !.target = f]
    /\ mingled' = (mingled \/ Leftover)
    /\ UNCHANGED <<process, folder, staging, startVars, fetched, owned, retained, limitVars>>

(* remove_dir_all goes through the folder: a crash or a failing call may   *)
(* leave it whole or in part.                                              *)
RemovePart ==
    /\ process = "up" /\ op.at = "remove" /\ folder[op.target] \in Versions
    /\ folder' = [folder EXCEPT ![op.target] = Broken]
    /\ owned' = owned \ {folder[op.target]}
    /\ UNCHANGED <<process, staging, op, startVars, fetched, retained, mingled, limitVars>>

RemoveRest ==
    /\ process = "up" /\ op.at = "remove"
    /\ \/ /\ CallWorks
          /\ folder' = [folder EXCEPT ![op.target] = Absent]
          /\ owned' = owned \ {folder[op.target]}
       \/ CallFails /\ UNCHANGED <<folder, owned>>
    /\ op' = NoOp
    /\ UNCHANGED <<process, staging, startVars, fetched, retained, mingled, crashes>>

-----------------------------------------------------------------------------
(* install_archive: one rename into place.                                 *)

Place ==
    /\ process = "up" /\ op.at = "place"
    /\ \/ /\ CallWorks
          /\ folder' = [folder EXCEPT ![op.target] = Mine.incoming]
          /\ staging' = [staging EXCEPT ![op.slot].incoming = Absent]
          /\ owned' = owned \cup {Mine.incoming}
       \/ CallFails /\ UNCHANGED <<folder, staging, owned>>
    /\ NextStep("drop")
    /\ UNCHANGED <<process, startVars, fetched, retained, mingled, crashes>>

-----------------------------------------------------------------------------
(* DirectoryReplacement::commit: the record first, then the two renames.   *)

Record ==
    /\ process = "up" /\ op.at = "record"
    /\ \/ /\ CallWorks
          /\ staging' = [staging EXCEPT ![op.slot].previous = op.previous,
                                        ![op.slot].target = op.target]
          /\ NextStep("aside")
       \/ CallFails /\ UNCHANGED staging /\ NextStep("drop")
    /\ UNCHANGED <<process, folder, startVars, fetched, owned, retained, mingled, crashes>>

MoveAside ==
    /\ process = "up" /\ op.at = "aside"
    /\ \/ /\ CallWorks /\ Exists(op.previous)
          /\ staging' = [staging EXCEPT ![op.slot].backup = folder[op.previous]]
          /\ folder' = [folder EXCEPT ![op.previous] = Absent]
          /\ NextStep("swap")
       \/ CallWorks /\ ~Exists(op.previous) /\ UNCHANGED <<folder, staging>> /\ NextStep("swap")
       \/ /\ CallFails /\ Exists(op.previous)
          /\ UNCHANGED <<folder, staging>> /\ NextStep("drop")
    /\ UNCHANGED <<process, startVars, fetched, owned, retained, mingled, crashes>>

Swap ==
    /\ process = "up" /\ op.at = "swap"
    /\ \/ /\ CallWorks
          /\ folder' = [folder EXCEPT ![op.target] = Mine.incoming]
          /\ staging' = [staging EXCEPT ![op.slot].incoming = Absent]
          /\ op' = [op EXCEPT !.at = "drop", !.committed = TRUE]
          /\ owned' = (owned \ {Mine.backup}) \cup {Mine.incoming}
       \/ /\ CallFails
          /\ NextStep(IF Mine.backup = Absent THEN "drop" ELSE "restore")
          /\ UNCHANGED <<folder, staging, owned>>
    /\ UNCHANGED <<process, startVars, fetched, retained, mingled, crashes>>

(* Faulty: a swap that failed is over.                                     *)
FaultyRestoreOld ==
    /\ process = "up" /\ op.at = "restore"
    /\ CallWorks /\ NextStep("drop")
    /\ UNCHANGED <<process, folder, staging, startVars, fetched, owned, retained, mingled,
                   crashes>>

RestoreOld ==
    /\ process = "up" /\ op.at = "restore"
    /\ \/ /\ CallWorks
          /\ folder' = [folder EXCEPT ![op.previous] = Mine.backup]
          /\ staging' = [staging EXCEPT ![op.slot].backup = Absent]
          /\ UNCHANGED retained
       \/ CallFails /\ retained' = TRUE /\ UNCHANGED <<folder, staging>>
    /\ NextStep("drop")
    /\ UNCHANGED <<process, startVars, fetched, owned, mingled, crashes>>

(* Faulty: the staging folder goes.                                        *)
FaultyDropStaging ==
    /\ process = "up" /\ op.at = "drop"
    /\ Discard(op.slot)
    /\ op' = NoOp
    /\ UNCHANGED <<process, folder, startVars, fetched, owned, retained, mingled, crashes>>

(* The staging folder goes, unless it holds the one copy left.             *)
DropStaging ==
    /\ process = "up" /\ op.at = "drop"
    /\ IF op.kind = "install" \/ op.committed \/ Mine.backup = Absent
       THEN Discard(op.slot)
       ELSE CallWorks /\ UNCHANGED staging
    /\ op' = NoOp
    /\ UNCHANGED <<process, folder, startVars, fetched, owned, retained, mingled, crashes>>

-----------------------------------------------------------------------------
(* A hard kill, and the next start.                                        *)

Crash ==
    /\ process # "down" /\ crashes < MaxCrashes
    /\ process' = "down" /\ crashes' = crashes + 1
    /\ op' = NoOp /\ seen' = {} /\ doomed' = {} /\ retained' = FALSE
    /\ UNCHANGED <<folder, staging, fetched, owned, mingled, failures>>

Start ==
    /\ process = "down"
    /\ process' = "starting"
    /\ UNCHANGED <<folder, staging, op, startVars, fetched, owned, retained, mingled,
                   limitVars>>

(* Faulty: recovery does not ask whether the update had come through.      *)
FaultyRecover(s) ==
    LET f == staging[s].previous IN
    /\ CallWorks /\ ~Exists(f)
    /\ folder' = [folder EXCEPT ![f] = staging[s].backup]
    /\ staging' = [staging EXCEPT ![s].backup = Absent]
    /\ doomed' = doomed \cup {s}
    /\ UNCHANGED retained

(* recover_replacement: a backup whose target never came goes back to its  *)
(* place.  What cannot be put back is kept.                                *)
NeedsRestore(s) == staging[s].backup # Absent
Recover(s) ==
    LET f == staging[s].previous IN
    \/ /\ CallWorks
       /\ ~Exists(staging[s].target) /\ ~Exists(f)
       /\ folder' = [folder EXCEPT ![f] = staging[s].backup]
       /\ staging' = [staging EXCEPT ![s].backup = Absent]
       /\ doomed' = doomed \cup {s}
       /\ UNCHANGED retained
    \/ /\ CallWorks
       /\ Exists(staging[s].target)
       /\ doomed' = doomed \cup {s}
       /\ UNCHANGED <<folder, staging, retained>>
    \/ /\ ~Exists(staging[s].target)
       /\ IF Exists(f) THEN CallWorks ELSE CallFails
       /\ retained' = TRUE
       /\ UNCHANGED <<folder, staging, doomed>>

Collect(s) ==
    /\ process = "starting"
    /\ staging[s].here /\ s \notin seen
    /\ seen' = seen \cup {s}
    /\ IF NeedsRestore(s)
       THEN Recover(s)
       ELSE CallWorks /\ doomed' = doomed \cup {s} /\ UNCHANGED <<folder, staging, retained>>
    /\ UNCHANGED <<process, op, fetched, owned, mingled, crashes>>

Recovered ==
    /\ process = "starting"
    /\ \A s \in Slots : staging[s].here => s \in seen
    /\ process' = "up"
    /\ UNCHANGED <<folder, staging, op, startVars, fetched, owned, retained, mingled,
                   limitVars>>

(* InterruptedCleanup::finish, beside whatever the client does by then.    *)
Sweep(s) ==
    /\ process = "up" /\ s \in doomed
    /\ doomed' = doomed \ {s}
    /\ Discard(s)
    /\ UNCHANGED <<process, folder, op, seen, fetched, owned, retained, mingled, crashes>>

-----------------------------------------------------------------------------

SwapNext ==
    \/ \E f \in Folders : Install(f) \/ Remove(f)
    \/ RemovePart \/ RemoveRest
    \/ \E f, g \in Folders : Replace(f, g)
    \/ Place \/ Record \/ MoveAside \/ Swap \/ RestoreOld \/ DropStaging
    \/ Crash \/ Start \/ Recovered
    \/ \E s \in Slots : Collect(s) \/ Sweep(s)

SwapSpec == SwapInit /\ [][SwapNext]_swapVars

-----------------------------------------------------------------------------

(* What an operation does beside the backup of an earlier one (mingled) is *)
(* left out of the properties: recovery may then bring that backup back.   *)

(* What the player has of the mod: what lies whole in a folder, and what   *)
(* was moved aside for a version that has not come.                        *)
InFolders == {folder[f] : f \in Folders} \cap Versions
Undecided == {s \in Slots : staging[s].previous # NoName /\ ~Exists(staging[s].target)}
Held == InFolders \cup ({staging[s].backup : s \in Undecided} \cap Versions)

(* A version the player has is never lost: whichever call fails and        *)
(* wherever the process dies, it is whole in a folder, or aside with the   *)
(* record of where it belongs.                                             *)
CopyKept == ~mingled => owned \subseteq Held

(* ... and once the client is up it is in its folder, unless a rename back *)
(* failed since the client was started.                                    *)
InPlaceWhenUp == Idle /\ ~mingled /\ ~retained => owned \subseteq InFolders

(* The game reads every folder it finds.  A version that an update has     *)
(* replaced, or a removal has touched, is in none of them again: no        *)
(* update, failing call, crash or recovery leaves the old version beside   *)
(* the new one.                                                            *)
NothingComesBack == ~mingled => InFolders \subseteq owned

(* The archive the operation under way may still put in place, and the     *)
(* version that goes when it succeeds.                                     *)
Coming == op.at \in {"place", "record", "aside", "swap"}
Incoming == IF Coming THEN Mine.incoming ELSE Absent
Outgoing ==
    (CASE op.at \in {"record", "aside"} -> {folder[op.previous]}
       [] op.at = "swap" -> {Mine.backup}
       [] op.at = "remove" -> {folder[op.target]}
       [] OTHER -> {}) \cap Versions

Update == INSTANCE AtomicUpdate
              WITH have <- Held, pending <- Incoming, over <- Outgoing, sure <- ~mingled

(* An update is atomic through failing calls, crashes and recoveries: the  *)
(* versions the player has change in one step, by the archive of the       *)
(* operation under way taking the place of the one it replaces, or by the  *)
(* removal the player asked for; nothing else comes or goes.               *)
UpdatesAreAtomic == Update!Spec

=============================================================================
