---------------------------- MODULE PleDiskTable ----------------------------
(***************************************************************************)
(* The n-gram table of PLE disk offload: a file <table>.bin that the first *)
(* boot writes through a shared mapping while it loads the checkpoint, and *)
(* a marker <table>.done.json that lets later boots map the file as it is. *)
(*                                                                         *)
(* A boot may be killed at any step, power may fail, an operator follows   *)
(* the advice of the error message, and the assembly script publishes a    *)
(* table of its own.  The page cache (dir, data) is what processes see; a  *)
(* power failure leaves the stable image (sdir, sdata), to which the file  *)
(* system writes names, in order, and pages, in any order, when it likes.  *)
(***************************************************************************)
EXTENDS Naturals, FiniteSets

CONSTANTS Shards,        \* the pieces of the table, loaded one after another
          Tiers,         \* storage types of the table: shape, dtype and size
          Offers,        \* the sets of shards a checkpoint directory may hold
          AssembledTier, \* what the assembly script publishes
          MayPublish, PowerMayFail, FlushMayFail

ASSUME TableAssumption ==
  /\ Offers \subseteq SUBSET Shards
  /\ AssembledTier \in Tiers
  /\ {MayPublish, PowerMayFail, FlushMayFail} \subseteq BOOLEAN
  /\ {"none", "torn"} \cap Tiers = {}

VARIABLES
  dir,          \* bin: the tier whose size the file has; done: what it says
  data,         \* shard -> the bytes of the file, as processes see them
  sdir, sdata,  \* the same, as a power failure leaves them
  fresh,        \* has the file of dir not reached sdir yet?
  boot,         \* "off", a step of the worker's start, "serving", "aborted"
  tier,         \* the tier this boot expects
  offer,        \* the shards of its checkpoint it has not read yet
  loaded,       \* has it read any?
  writes,       \* does its mapping write to the file of that name?
  script,       \* "idle", "checked", "renamed", "opened" or "over"
  owed          \* history: "nothing"; "rows", when something marked done was
                \* never flushed; "lost", when power has failed since

files == <<dir, data, sdir, sdata, fresh>>
vars  == <<files, boot, tier, offer, loaded, writes, script, owed>>

Zeros == [s \in Shards |-> "zero"]
NoName == "none"

Init ==
  /\ dir = [bin |-> NoName, done |-> NoName] /\ data = Zeros
  /\ sdir = dir /\ sdata = Zeros /\ fresh = FALSE
  /\ boot = "off" /\ tier \in Tiers /\ offer = {} /\ loaded = FALSE
  /\ writes = FALSE /\ script = "idle" /\ owed = "nothing"

-----------------------------------------------------------------------------
(* _ple_disk_attach.  A marker that is there beside a file of the expected  *)
(* size is parsed before it is compared; only then is the size looked at    *)
(* on its own.                                                              *)

Start(t, shards) ==
  /\ boot \in {"off", "aborted"}
  /\ boot' = "attach" /\ tier' = t /\ offer' = shards
  /\ loaded' = FALSE /\ writes' = FALSE
  /\ UNCHANGED <<files, script, owed>>

Complete(d, t) == d.bin = t /\ d.done = t
Unreadable(d, t) == d.bin = t /\ d.done = "torn"

Foreign_Nothing(d, t) == FALSE          \* mutant: the guard is dropped

Foreign(d, t) == d.bin \notin {NoName, t}

Reuse ==
  /\ boot = "attach" /\ Complete(dir, tier)
  /\ boot' = "serving"                   \* the shards of its table are skipped
  /\ UNCHANGED <<files, tier, offer, loaded, writes, script, owed>>

Refuse ==
  /\ boot = "attach"
  /\ Unreadable(dir, tier) \/ Foreign(dir, tier)
  /\ boot' = "aborted"
  /\ UNCHANGED <<files, tier, offer, loaded, writes, script, owed>>

Unmarked_Kept == dir                    \* mutant: the old marker stays

Unmarked == [dir EXCEPT !.done = NoName]

Proceed ==
  /\ boot = "attach"
  /\ ~Complete(dir, tier) /\ ~Unreadable(dir, tier) /\ ~Foreign(dir, tier)
  /\ boot' = "unlink"
  /\ UNCHANGED <<files, tier, offer, loaded, writes, script, owed>>

(* What the script has open is written to a file without a name then.       *)
Unlink ==
  /\ boot = "unlink"
  /\ dir' = Unmarked
  /\ boot' = "truncate"
  /\ script' = IF script = "opened" THEN "over" ELSE script
  /\ UNCHANGED <<data, sdir, sdata, fresh, tier, offer, loaded, writes, owed>>

(* A file of the expected size keeps its bytes, a new one is all zeros; one *)
(* that came in between with another size is cut or extended.               *)
Truncate ==
  /\ boot = "truncate"
  /\ dir' = [dir EXCEPT !.bin = tier]
  /\ data' = IF dir.bin = NoName THEN Zeros
             ELSE IF dir.bin = tier THEN data ELSE [s \in Shards |-> "resized"]
  /\ fresh' = (fresh \/ dir.bin = NoName)
  /\ boot' = "load" /\ writes' = TRUE
  /\ UNCHANGED <<sdir, sdata, tier, offer, loaded, script, owed>>

(* load_weights: each shard of the checkpoint is copied into the mapping.   *)
LoadShard(s) ==
  /\ boot = "load" /\ s \in offer
  /\ offer' = offer \ {s} /\ loaded' = TRUE
  /\ data' = IF writes THEN [data EXCEPT ![s] = "checkpoint"] ELSE data
  /\ UNCHANGED <<dir, sdir, sdata, fresh, boot, tier, writes, script, owed>>

AllRead == offer = {}

(* One shard counts as the parameter: load_weights reports its name.        *)
EndLoad ==
  /\ boot = "load" /\ AllRead
  /\ boot' = IF loaded THEN "flush" ELSE "aborted"
  /\ UNCHANGED <<files, tier, offer, loaded, writes, script, owed>>

(* _ple_disk_finalize: flush, whose failure is suppressed, then the marker, *)
(* which is empty from open() until its text is written.                    *)
(* The names of dir reach the disk; the marker's text may still be missing. *)
NamesOnDisk == {[dir EXCEPT !.done = d] :
                  d \in {dir.done} \cup (IF dir.done = NoName THEN {} ELSE {"torn"})}

Flushed_Nothing == sdata                \* mutant: the mapping is not flushed

Flushed == data

OwesRows == IF owed = "nothing" THEN "rows" ELSE owed

Flush ==
  /\ boot = "flush"
  /\ \/ /\ writes /\ sdir' \in NamesOnDisk
        /\ sdata' = Flushed /\ fresh' = FALSE /\ UNCHANGED owed
     \/ /\ ~writes \/ FlushMayFail
        /\ owed' = OwesRows
        /\ UNCHANGED <<sdir, sdata, fresh>>
  /\ boot' = "mark"
  /\ UNCHANGED <<dir, data, tier, offer, loaded, writes, script>>

OpenMarker ==
  /\ boot = "mark"
  /\ dir' = [dir EXCEPT !.done = "torn"]
  /\ boot' = "dump"
  /\ UNCHANGED <<data, sdir, sdata, fresh, tier, offer, loaded, writes, script, owed>>

MarkerText == tier

DumpMarker ==
  /\ boot = "dump"
  /\ dir' = [dir EXCEPT !.done = MarkerText]
  /\ boot' = "serving" /\ writes' = FALSE          \* remapped copy-on-write
  /\ UNCHANGED <<data, sdir, sdata, fresh, tier, offer, loaded, script, owed>>

Boot ==
  \/ \E t \in Tiers, shards \in Offers : Start(t, shards)
  \/ Reuse \/ Refuse \/ Proceed \/ Unlink \/ Truncate
  \/ \E s \in Shards : LoadShard(s)
  \/ EndLoad \/ Flush \/ OpenMarker \/ DumpMarker

-----------------------------------------------------------------------------
(* The assembly script, once the table is whole in a file of another name.  *)
(* A rename over the file a boot has mapped leaves that boot an orphan.     *)

CheckAbsent ==
  /\ MayPublish /\ script = "idle" /\ dir.bin = NoName
  /\ script' = "checked"
  /\ UNCHANGED <<files, boot, tier, offer, loaded, writes, owed>>

Rename ==
  /\ script = "checked"
  /\ dir' = [dir EXCEPT !.bin = AssembledTier]
  /\ data' = [s \in Shards |-> "assembled"] /\ fresh' = TRUE
  /\ writes' = FALSE /\ script' = "renamed" /\ owed' = OwesRows
  /\ UNCHANGED <<sdir, sdata, boot, tier, offer, loaded>>

OpenManifest ==
  /\ script = "renamed"
  /\ dir' = [dir EXCEPT !.done = "torn"]
  /\ script' = "opened"
  /\ UNCHANGED <<data, sdir, sdata, fresh, boot, tier, offer, loaded, writes, owed>>

DumpManifest ==
  /\ script = "opened"
  /\ dir' = [dir EXCEPT !.done = AssembledTier]
  /\ script' = "over"
  /\ UNCHANGED <<data, sdir, sdata, fresh, boot, tier, offer, loaded, writes, owed>>

Script == CheckAbsent \/ Rename \/ OpenManifest \/ DumpManifest

-----------------------------------------------------------------------------
(* What happens to them: the kernel writes back, the process is killed or   *)
(* stopped, power fails, and the operator removes the file in the way.      *)

SyncNames ==
  /\ PowerMayFail
  /\ sdir' \in NamesOnDisk
  /\ sdata' = IF fresh THEN Zeros ELSE sdata
  /\ fresh' = FALSE
  /\ UNCHANGED <<dir, data, boot, tier, offer, loaded, writes, script, owed>>

SyncShard(s) ==
  /\ PowerMayFail /\ ~fresh
  /\ sdata' = [sdata EXCEPT ![s] = data[s]]
  /\ UNCHANGED <<dir, data, sdir, fresh, boot, tier, offer, loaded, writes, script, owed>>

Kill ==
  /\ boot # "off"
  /\ boot' = "off" /\ writes' = FALSE
  /\ UNCHANGED <<files, tier, offer, loaded, script, owed>>

KillScript ==
  /\ script # "idle"
  /\ script' = "idle"
  /\ UNCHANGED <<files, boot, tier, offer, loaded, writes, owed>>

PowerFail ==
  /\ PowerMayFail
  /\ dir' = sdir /\ data' = sdata /\ fresh' = FALSE
  /\ boot' = "off" /\ writes' = FALSE /\ script' = "idle"
  /\ owed' = IF owed = "nothing" THEN owed ELSE "lost"
  /\ UNCHANGED <<sdir, sdata, tier, offer, loaded>>

RemoveForeign ==
  /\ boot = "aborted" /\ Foreign(dir, tier) /\ script \in {"idle", "over"}
  /\ dir' = [dir EXCEPT !.bin = NoName]
  /\ UNCHANGED <<data, sdir, sdata, fresh, boot, tier, offer, loaded, writes, script, owed>>

Environment ==
  \/ SyncNames \/ (\E s \in Shards : SyncShard(s))
  \/ Kill \/ KillScript \/ PowerFail \/ RemoveForeign

Next == Boot \/ Script \/ Environment

Spec == Init /\ [][Next]_vars

-----------------------------------------------------------------------------
Bytes   == {"zero", "checkpoint", "assembled", "resized"}
Entries == [bin : Tiers \cup {NoName}, done : Tiers \cup {NoName, "torn"}]

TypeOK ==
  /\ dir \in Entries /\ sdir \in Entries
  /\ data \in [Shards -> Bytes] /\ sdata \in [Shards -> Bytes]
  /\ boot \in {"off", "attach", "unlink", "truncate", "load", "flush", "mark", "dump",
               "serving", "aborted"}
  /\ tier \in Tiers /\ offer \subseteq Shards
  /\ {fresh, loaded, writes} \subseteq BOOLEAN
  /\ script \in {"idle", "checked", "renamed", "opened", "over"}
  /\ owed \in {"nothing", "rows", "lost"}

(* A marker that makes a boot reuse the file stands beside a file with all  *)
(* its rows, now and after a power failure: no boot serves rows of zeros.   *)
(* Only what the assembly script published, and what a flush that failed    *)
(* without a word left behind, may not survive a power failure.  Code: the  *)
(* order of flush, marker and remap in _ple_disk_finalize, and of unlink    *)
(* and truncate in _ple_disk_attach.                                        *)
Whole(bytes) == \A s \in Shards : bytes[s] \in {"checkpoint", "assembled"}

DoneMeansWhole ==
  /\ owed # "lost" => \A t \in Tiers : Complete(dir, t) => Whole(data)
  /\ owed = "nothing" => \A t \in Tiers : Complete(sdir, t) => Whole(sdata)

(* Why: the inductive invariant.  It speaks of checkpoint directories that   *)
(* hold every shard.                                                        *)
Loading == {"load", "flush", "mark", "dump"}

(* What a boot has left to read is all that may be missing from its table,  *)
(* and a boot whose file was replaced maps one over which nobody writes.    *)
BootInv ==
  /\ boot \in {"attach", "unlink", "truncate"} => offer = Shards
  /\ boot = "load" /\ writes => \A s \in Shards \ offer : data[s] = "checkpoint"
  /\ boot \in Loading /\ ~writes => Whole(data)
  /\ boot \in {"flush", "mark", "dump"} => Whole(data)

(* A file the script has renamed and not yet marked is whole or of another  *)
(* size, and in the windows before the marker is removed and before the     *)
(* file is truncated nothing else can have come in.                         *)
ScriptInv ==
  /\ script \in {"renamed", "opened"} =>
       dir.bin # NoName /\ (dir.bin = AssembledTier => Whole(data))
  /\ boot = "unlink" => dir.bin \in {NoName, tier, AssembledTier}
  /\ boot = "truncate" =>
       /\ dir.bin \in {NoName, tier, AssembledTier}
       /\ dir.done \in {NoName, "torn", AssembledTier}
       /\ dir.done = tier => dir.bin = tier

(* As long as everything marked has been flushed: a boot at work has no     *)
(* marker, and a marked file has reached the disk.                          *)
StableInv ==
  owed = "nothing" =>
    /\ script \in {"idle", "checked"}
    /\ boot \in Loading => writes
    /\ boot \in {"truncate", "load", "flush", "mark"} => dir.done = NoName
    /\ boot \in {"unlink", "truncate"} => dir.bin \in {NoName, tier}
    /\ boot = "unlink" => ~Complete(dir, tier)
    /\ boot = "dump" => dir.done = "torn"
    /\ boot \in {"mark", "dump"} => ~fresh /\ Whole(sdata)
    /\ \A t \in Tiers : /\ Complete(dir, t) => ~fresh /\ Whole(sdata)
                        /\ Complete(sdir, t) /\ ~fresh => Whole(data)

IInv == TypeOK /\ DoneMeansWhole /\ BootInv /\ ScriptInv /\ StableInv

(* A finished table, its own or another tier's, is never written by a boot, *)
(* however often boots of both tiers start and stop: only a power failure,  *)
(* the operator and the script's rename change it.  (After the script has   *)
(* published, see NeverClobbers.)                                           *)
FinishedIsFinal ==
  [][\A t \in Tiers : owed = "nothing" /\ Complete(dir, t) =>
       \/ Complete(dir', t) /\ data' = data
       \/ PowerFail \/ RemoveForeign \/ Rename]_vars

(* A boot never writes to a table the assembly script has published.        *)
NeverClobbers ==
  [][\A s \in Shards : data[s] = "assembled" =>
       data'[s] = "assembled" \/ PowerFail]_vars

(* A boot aborts before loading only in front of a file of another size: an *)
(* unfinished file of its own is written through again.                     *)
AbortsOnlyForeign ==
  [][Refuse => Foreign(dir, tier)]_vars
=============================================================================
