------------------------- MODULE PleDiskTableProofs -------------------------
(***************************************************************************)
(* Proofs about the n-gram table on disk, for any tiers and any division   *)
(* into shards, and with every failure allowed: what is marked done is     *)
(* whole, and only a failure or the operator takes a finished table away.  *)
(* A checkpoint directory is assumed to hold every shard; the code takes a *)
(* table for loaded as soon as it has seen one.                            *)
(***************************************************************************)
EXTENDS PleDiskTable, TLAPS

WholeCheckpoints == Offers \subseteq {Shards}

USE TableAssumption

-----------------------------------------------------------------------------
LEMMA InitType == Init => TypeOK
<1> SUFFICES ASSUME Init PROVE TypeOK
  OBVIOUS
<1>1. dir \in Entries /\ sdir \in Entries
  BY DEF Init, Entries, NoName
<1>2. data \in [Shards -> Bytes] /\ sdata \in [Shards -> Bytes]
  BY DEF Init, Zeros, Bytes
<1> QED BY <1>1, <1>2 DEF Init, TypeOK

(* What reaches the disk of the names is of their kind.                    *)
LEMMA NamesType ==
  ASSUME TypeOK
  PROVE  /\ NamesOnDisk \subseteq Entries
         /\ \A d \in NamesOnDisk : d.bin = dir.bin /\ d.done \in {dir.done, "torn"}
<1>1. dir \in Entries
  BY DEF TypeOK
<1> QED BY <1>1 DEF NamesOnDisk, Entries, NoName

LEMMA StepType == TypeOK /\ [Next]_vars => TypeOK'
<1> SUFFICES ASSUME TypeOK, [Next]_vars PROVE TypeOK'
  OBVIOUS
<1>1. CASE UNCHANGED vars
  BY <1>1 DEF TypeOK, vars, files
<1>2. CASE Boot
  <2>1. ASSUME NEW t \in Tiers, NEW shards \in Offers, Start(t, shards)
        PROVE  TypeOK'
    BY <2>1 DEF TypeOK, Start, files
  <2>2. CASE Reuse \/ Refuse \/ Proceed
    BY <2>2 DEF TypeOK, Reuse, Refuse, Proceed, files
  <2>3. CASE Unlink
    BY <2>3 DEF TypeOK, Unlink, Unmarked, Entries, NoName
  <2>4. CASE Truncate
    <3>1. dir' \in Entries
      BY <2>4 DEF TypeOK, Truncate, Entries
    <3>2. data' \in [Shards -> Bytes]
      BY <2>4 DEF TypeOK, Truncate, Zeros, Bytes
    <3> QED BY <2>4, <3>1, <3>2 DEF TypeOK, Truncate
  <2>5. ASSUME NEW s \in Shards, LoadShard(s)
        PROVE  TypeOK'
    <3>1. data' \in [Shards -> Bytes]
      BY <2>5 DEF TypeOK, LoadShard, Bytes
    <3> QED BY <2>5, <3>1 DEF TypeOK, LoadShard
  <2>6. CASE EndLoad
    BY <2>6 DEF TypeOK, EndLoad, files
  <2>7. CASE Flush
    BY <2>7, NamesType DEF TypeOK, Flush, Flushed, OwesRows
  <2>8. CASE OpenMarker
    BY <2>8 DEF TypeOK, OpenMarker, Entries
  <2>9. CASE DumpMarker
    BY <2>9 DEF TypeOK, DumpMarker, MarkerText, Entries
  <2> QED BY <1>2, <2>1, <2>2, <2>3, <2>4, <2>5, <2>6, <2>7, <2>8, <2>9 DEF Boot
<1>3. CASE Script
  <2>1. CASE CheckAbsent
    BY <2>1 DEF TypeOK, CheckAbsent, files
  <2>2. CASE Rename
    BY <2>2 DEF TypeOK, Rename, Entries, Bytes, OwesRows
  <2>3. CASE OpenManifest
    BY <2>3 DEF TypeOK, OpenManifest, Entries
  <2>4. CASE DumpManifest
    BY <2>4 DEF TypeOK, DumpManifest, Entries
  <2> QED BY <1>3, <2>1, <2>2, <2>3, <2>4 DEF Script
<1>4. CASE Environment
  <2>1. CASE SyncNames
    <3>1. sdata' \in [Shards -> Bytes]
      BY <2>1 DEF TypeOK, SyncNames, Zeros, Bytes
    <3> QED BY <2>1, <3>1, NamesType DEF TypeOK, SyncNames
  <2>2. ASSUME NEW s \in Shards, SyncShard(s)
        PROVE  TypeOK'
    <3>1. sdata' \in [Shards -> Bytes]
      BY <2>2 DEF TypeOK, SyncShard
    <3> QED BY <2>2, <3>1 DEF TypeOK, SyncShard
  <2>3. CASE Kill \/ KillScript
    BY <2>3 DEF TypeOK, Kill, KillScript, files
  <2>4. CASE PowerFail
    BY <2>4 DEF TypeOK, PowerFail
  <2>5. CASE RemoveForeign
    BY <2>5 DEF TypeOK, RemoveForeign, Entries
  <2> QED BY <1>4, <2>1, <2>2, <2>3, <2>4, <2>5 DEF Environment
<1> QED BY <1>1, <1>2, <1>3, <1>4 DEF Next

(* The files and the steps of boots, script and environment stay in their  *)
(* types.                                                                  *)
THEOREM DiskTypeCorrect == Spec => []TypeOK
  BY InitType, StepType, PTL DEF Spec

-----------------------------------------------------------------------------
(* The inductive invariant without its types.                              *)
Inv == DoneMeansWhole /\ BootInv /\ ScriptInv /\ StableInv

LEMMA InitInv == Init => Inv
<1> SUFFICES ASSUME Init PROVE Inv
  OBVIOUS
<1>1. dir.bin = NoName /\ sdir.bin = NoName /\ NoName \notin Tiers
  BY DEF Init, NoName
<1>2. \A t \in Tiers : ~Complete(dir, t) /\ ~Complete(sdir, t)
  BY <1>1 DEF Complete
<1> QED BY <1>1, <1>2
        DEF Init, Inv, DoneMeansWhole, BootInv, ScriptInv, StableInv, Loading

(* What is not done by a boot that loads leaves its step and its mapping   *)
(* alone, and Whole is about data only.                                    *)
LEMMA StartKeepsInv ==
  ASSUME IInv, WholeCheckpoints, NEW t \in Tiers, NEW shards \in Offers,
         Start(t, shards)
  PROVE  Inv'
<1>1. /\ boot' = "attach" /\ offer' = Shards
      /\ UNCHANGED <<dir, data, sdir, sdata, fresh, script, owed>>
  BY DEF Start, files, WholeCheckpoints
<1> QED BY <1>1 DEF IInv, Inv, DoneMeansWhole, BootInv, ScriptInv, StableInv,
                    Loading, Whole, Complete

LEMMA ReuseOrRefuseKeepsInv ==
  ASSUME IInv, Reuse \/ Refuse
  PROVE  Inv'
<1>1. /\ boot' \in {"serving", "aborted"}
      /\ UNCHANGED <<dir, data, sdir, sdata, fresh, writes, offer, script, owed>>
  BY DEF Reuse, Refuse, files
<1> QED BY <1>1 DEF IInv, Inv, DoneMeansWhole, BootInv, ScriptInv, StableInv,
                    Loading, Whole, Complete

LEMMA ProceedKeepsInv ==
  ASSUME IInv, Proceed
  PROVE  Inv'
<1>1. /\ boot = "attach" /\ boot' = "unlink"
      /\ dir.bin \in {NoName, tier} /\ ~Complete(dir, tier)
      /\ UNCHANGED <<dir, data, sdir, sdata, fresh, tier, offer, loaded, writes,
                     script, owed>>
  BY DEF Proceed, files, IInv, TypeOK, Entries, Foreign, Complete
<1> QED BY <1>1 DEF IInv, Inv, DoneMeansWhole, BootInv, ScriptInv, StableInv,
                    Loading, Whole, Complete

LEMMA UnlinkKeepsInv ==
  ASSUME IInv, Unlink
  PROVE  Inv'
<1>1. /\ boot = "unlink" /\ boot' = "truncate"
      /\ dir'.bin = dir.bin /\ dir'.done = NoName
      /\ script' = IF script = "opened" THEN "over" ELSE script
      /\ UNCHANGED <<data, sdir, sdata, fresh, tier, offer, loaded, writes, owed>>
  BY DEF Unlink, Unmarked, IInv, TypeOK, Entries
<1>2. NoName \notin Tiers /\ tier \in Tiers
  BY DEF NoName, IInv, TypeOK
<1>3. \A t \in Tiers : ~Complete(dir', t)
  BY <1>1, <1>2 DEF Complete
<1> QED BY <1>1, <1>2, <1>3
        DEF IInv, Inv, DoneMeansWhole, BootInv, ScriptInv, StableInv, Loading,
            Whole, Complete

LEMMA TruncateKeepsInv ==
  ASSUME IInv, Truncate
  PROVE  Inv'
<1>1. /\ boot = "truncate" /\ boot' = "load" /\ writes'
      /\ dir'.bin = tier /\ dir'.done = dir.done
      /\ fresh' = (fresh \/ dir.bin = NoName)
      /\ dir.bin = tier => data' = data
      /\ UNCHANGED <<sdir, sdata, tier, offer, script, owed>>
      /\ offer = Shards
  BY DEF Truncate, IInv, TypeOK, Entries, BootInv, NoName
<1>2. NoName \notin Tiers /\ tier \in Tiers
  BY DEF NoName, IInv, TypeOK
<1>3. \A t \in Tiers : Complete(dir', t) => Complete(dir, t) /\ data' = data
  BY <1>1, <1>2 DEF Complete, IInv, ScriptInv
<1>4. script \in {"renamed", "opened"} /\ tier = AssembledTier => dir.bin = tier
  BY <1>1 DEF IInv, ScriptInv
<1>5. DoneMeansWhole'
  BY <1>1, <1>3 DEF IInv, DoneMeansWhole, Whole
<1>6. BootInv'
  BY <1>1 DEF BootInv, Loading
<1>7. ScriptInv'
  BY <1>1, <1>2, <1>4 DEF IInv, ScriptInv, Whole
<1>8. StableInv'
  BY <1>1, <1>2, <1>3 DEF IInv, StableInv, Loading, Whole, Complete
<1> QED BY <1>5, <1>6, <1>7, <1>8 DEF Inv

LEMMA LoadShardKeepsInv ==
  ASSUME IInv, NEW s \in Shards, LoadShard(s)
  PROVE  Inv'
<1>1. /\ boot = "load" /\ boot' = "load" /\ offer' = offer \ {s}
      /\ UNCHANGED <<dir, sdir, sdata, fresh, tier, writes, script, owed>>
      /\ data' = IF writes THEN [data EXCEPT ![s] = "checkpoint"] ELSE data
      /\ data \in [Shards -> Bytes]
  BY DEF LoadShard, IInv, TypeOK
<1>2. Whole(data) => Whole(data')
  BY <1>1 DEF Whole
<1>3. BootInv'
  BY <1>1, <1>2 DEF IInv, BootInv, Loading, Whole
<1> QED BY <1>1, <1>2, <1>3
        DEF IInv, Inv, DoneMeansWhole, ScriptInv, StableInv, Loading, Whole, Complete

LEMMA EndLoadKeepsInv ==
  ASSUME IInv, EndLoad
  PROVE  Inv'
<1>1. /\ boot = "load" /\ offer = {} /\ boot' \in {"flush", "aborted"}
      /\ UNCHANGED <<dir, data, sdir, sdata, fresh, tier, offer, writes, script, owed>>
  BY DEF EndLoad, AllRead, files
<1>2. Whole(data)
  BY <1>1 DEF IInv, BootInv, Loading, Whole
<1> QED BY <1>1, <1>2 DEF IInv, Inv, DoneMeansWhole, BootInv, ScriptInv, StableInv,
                          Loading, Whole, Complete

LEMMA FlushKeepsInv ==
  ASSUME IInv, Flush
  PROVE  Inv'
<1>1. /\ boot = "flush" /\ boot' = "mark"
      /\ UNCHANGED <<dir, data, tier, offer, writes, script>>
  BY DEF Flush
<1>2. CASE writes /\ sdir' \in NamesOnDisk /\ sdata' = data /\ fresh' = FALSE
           /\ owed' = owed
  <2>1. \A t \in Tiers : Complete(sdir', t) => Complete(dir, t)
    BY <1>2, NamesType DEF IInv, Complete
  <2> QED BY <1>1, <1>2, <2>1 DEF IInv, Inv, DoneMeansWhole, BootInv, ScriptInv,
             StableInv, Loading, Whole, Complete
<1>3. CASE owed' = OwesRows /\ UNCHANGED <<sdir, sdata, fresh>>
  BY <1>1, <1>3 DEF IInv, Inv, DoneMeansWhole, BootInv, ScriptInv, StableInv,
     Loading, Whole, Complete, OwesRows
<1> QED BY <1>2, <1>3 DEF Flush, Flushed

LEMMA OpenMarkerKeepsInv ==
  ASSUME IInv, OpenMarker
  PROVE  Inv'
<1>1. /\ boot = "mark" /\ boot' = "dump"
      /\ dir'.bin = dir.bin /\ dir'.done = "torn" /\ "torn" \notin Tiers
      /\ UNCHANGED <<data, sdir, sdata, fresh, tier, offer, writes, script, owed>>
  BY DEF OpenMarker, IInv, TypeOK, Entries
<1>2. \A t \in Tiers : ~Complete(dir', t)
  BY <1>1 DEF Complete
<1> QED BY <1>1, <1>2 DEF IInv, Inv, DoneMeansWhole, BootInv, ScriptInv, StableInv,
                          Loading, Whole, Complete

LEMMA DumpMarkerKeepsInv ==
  ASSUME IInv, DumpMarker
  PROVE  Inv'
<1>1. /\ boot = "dump" /\ boot' = "serving"
      /\ dir'.bin = dir.bin /\ dir'.done = tier
      /\ UNCHANGED <<data, sdir, sdata, fresh, tier, offer, script, owed>>
  BY DEF DumpMarker, MarkerText, IInv, TypeOK, Entries
<1>2. Whole(data)
  BY <1>1 DEF IInv, BootInv
<1> QED BY <1>1, <1>2 DEF IInv, Inv, DoneMeansWhole, BootInv, ScriptInv, StableInv,
                          Loading, Whole, Complete

-----------------------------------------------------------------------------
LEMMA ScriptKeepsInv ==
  ASSUME IInv, Script
  PROVE  Inv'
<1>1. CASE CheckAbsent
  BY <1>1 DEF CheckAbsent, files, IInv, Inv, DoneMeansWhole, BootInv, ScriptInv,
     StableInv, Loading, Whole, Complete
<1>2. CASE Rename
  <2>1. /\ dir'.bin = AssembledTier /\ dir'.done = dir.done
        /\ Whole(data') /\ ~writes' /\ script' = "renamed"
        /\ owed' # "nothing" /\ UNCHANGED <<sdir, sdata, boot, tier, offer>>
    BY <1>2 DEF Rename, IInv, TypeOK, Entries, Whole, OwesRows
  <2>2. NoName \notin Tiers /\ "torn" \notin Tiers /\ tier \in Tiers
    BY DEF NoName, IInv, TypeOK
  <2>3. DoneMeansWhole' /\ StableInv'
    BY <2>1 DEF DoneMeansWhole, StableInv, Whole
  <2>4. BootInv'
    BY <2>1 DEF IInv, BootInv, Loading, Whole
  <2>5. ScriptInv'
    BY <2>1, <2>2 DEF IInv, ScriptInv, Whole
  <2> QED BY <2>3, <2>4, <2>5 DEF Inv
<1>3. CASE OpenManifest
  <2>1. /\ script = "renamed" /\ script' = "opened"
        /\ dir'.bin = dir.bin /\ dir'.done = "torn" /\ "torn" \notin Tiers
        /\ tier \in Tiers
        /\ UNCHANGED <<data, sdir, sdata, fresh, boot, tier, offer, writes, owed>>
    BY <1>3 DEF OpenManifest, IInv, TypeOK, Entries
  <2> QED BY <2>1 DEF IInv, Inv, DoneMeansWhole, BootInv, ScriptInv, StableInv,
             Loading, Whole, Complete
<1>4. CASE DumpManifest
  <2>1. /\ script = "opened" /\ script' = "over"
        /\ dir'.bin = dir.bin /\ dir'.done = AssembledTier
        /\ UNCHANGED <<data, sdir, sdata, fresh, boot, tier, offer, writes, owed>>
    BY <1>4 DEF DumpManifest, IInv, TypeOK, Entries
  <2> QED BY <2>1 DEF IInv, Inv, DoneMeansWhole, BootInv, ScriptInv, StableInv,
             Loading, Whole, Complete
<1> QED BY <1>1, <1>2, <1>3, <1>4 DEF Script

LEMMA EnvironmentKeepsInv ==
  ASSUME IInv, Environment
  PROVE  Inv'
<1>1. CASE SyncNames
  <2>1. /\ fresh' = FALSE /\ sdir' \in NamesOnDisk
        /\ sdata' = IF fresh THEN Zeros ELSE sdata
        /\ UNCHANGED <<dir, data, boot, tier, offer, writes, script, owed>>
    BY <1>1 DEF SyncNames
  <2>2. \A t \in Tiers : Complete(sdir', t) => Complete(dir, t)
    BY <2>1, NamesType DEF IInv, Complete
  <2>3. DoneMeansWhole'
    BY <2>1, <2>2 DEF IInv, DoneMeansWhole, StableInv, Complete, Whole
  <2>4. StableInv'
    BY <2>1, <2>2 DEF IInv, DoneMeansWhole, StableInv, Complete, Whole, Loading
  <2>5. BootInv' /\ ScriptInv'
    BY <2>1 DEF IInv, BootInv, ScriptInv, Whole, Loading
  <2> QED BY <2>3, <2>4, <2>5 DEF Inv
<1>2. ASSUME NEW s \in Shards, SyncShard(s)
      PROVE  Inv'
  <2>1. /\ ~fresh /\ sdata' = [sdata EXCEPT ![s] = data[s]]
        /\ sdata \in [Shards -> Bytes]
        /\ UNCHANGED <<dir, data, sdir, fresh, boot, tier, offer, writes, script, owed>>
    BY <1>2 DEF SyncShard, IInv, TypeOK
  <2>2. Whole(data) /\ Whole(sdata) => Whole(sdata')
    BY <2>1 DEF Whole
  <2>3. DoneMeansWhole'
    BY <2>1, <2>2 DEF IInv, DoneMeansWhole, StableInv, Complete, Whole
  <2>4. StableInv'
    BY <2>1, <2>2 DEF IInv, DoneMeansWhole, BootInv, StableInv, Complete, Whole, Loading
  <2>5. BootInv' /\ ScriptInv'
    BY <2>1 DEF IInv, BootInv, ScriptInv, Whole, Loading
  <2> QED BY <2>3, <2>4, <2>5 DEF Inv
<1>3. CASE Kill
  BY <1>3 DEF Kill, files, IInv, Inv, DoneMeansWhole, BootInv, ScriptInv, StableInv,
     Loading, Whole, Complete
<1>4. CASE KillScript
  BY <1>4 DEF KillScript, files, IInv, Inv, DoneMeansWhole, BootInv, ScriptInv,
     StableInv, Loading, Whole, Complete
<1>5. CASE PowerFail
  BY <1>5 DEF PowerFail, IInv, Inv, DoneMeansWhole, BootInv, ScriptInv, StableInv,
     Loading, Whole, Complete
<1>6. CASE RemoveForeign
  <2>1. /\ boot = "aborted" /\ script \in {"idle", "over"}
        /\ dir'.bin = NoName /\ NoName \notin Tiers
        /\ UNCHANGED <<data, sdir, sdata, fresh, boot, tier, offer, writes, script, owed>>
    BY <1>6 DEF RemoveForeign, IInv, TypeOK, Entries, NoName
  <2> QED BY <2>1 DEF IInv, Inv, DoneMeansWhole, BootInv, ScriptInv, StableInv,
             Loading, Whole, Complete
<1> QED BY <1>1, <1>2, <1>3, <1>4, <1>5, <1>6 DEF Environment

LEMMA StepInv ==
  ASSUME IInv, WholeCheckpoints, [Next]_vars
  PROVE  IInv'
<1>1. TypeOK'
  BY StepType DEF IInv
<1>2. Inv'
  <2>1. CASE UNCHANGED vars
    BY <2>1 DEF vars, files, IInv, Inv, DoneMeansWhole, BootInv, ScriptInv, StableInv,
       Loading, Whole, Complete
  <2>2. CASE Boot
    BY <2>2, StartKeepsInv, ReuseOrRefuseKeepsInv, ProceedKeepsInv, UnlinkKeepsInv, TruncateKeepsInv,
       LoadShardKeepsInv, EndLoadKeepsInv, FlushKeepsInv, OpenMarkerKeepsInv,
       DumpMarkerKeepsInv DEF Boot
  <2> QED BY <2>1, <2>2, ScriptKeepsInv, EnvironmentKeepsInv DEF Next
<1> QED BY <1>1, <1>2 DEF IInv, Inv

(* With complete checkpoint directories the invariant holds in every state *)
(* boots, the script, kills and power failures can produce.                *)
THEOREM MarkerIsCoherent ==
  ASSUME WholeCheckpoints
  PROVE  Spec => []IInv
<1>1. Init => IInv
  BY InitType, InitInv DEF IInv, Inv
<1>2. IInv /\ [Next]_vars => IInv'
  BY StepInv
<1> QED BY <1>1, <1>2, PTL DEF Spec

(* What a boot would take for a finished table has all its rows, now and   *)
(* after a power failure.                                                  *)
THEOREM MarkedIsWhole ==
  ASSUME WholeCheckpoints
  PROVE  Spec => []DoneMeansWhole
<1>1. IInv => DoneMeansWhole
  BY DEF IInv
<1> QED BY <1>1, MarkerIsCoherent, PTL

(* No boot touches a finished table, whatever tier it expects and whenever *)
(* it stops: it reuses it, refuses it, or finds it gone.                   *)
THEOREM FinishedStays ==
  ASSUME WholeCheckpoints
  PROVE  Spec => FinishedIsFinal
<1> DEFINE Stays(t) == Complete(dir', t) /\ data' = data
           Allowed == PowerFail \/ RemoveForeign \/ Rename
<1>1. ASSUME IInv, Next, NEW t \in Tiers, owed = "nothing", Complete(dir, t)
      PROVE  Stays(t) \/ Allowed
  <2>1. /\ t # NoName /\ dir.bin = t /\ dir.done = t /\ dir \in Entries
        /\ t # "torn" /\ script \in {"idle", "checked"}
    BY <1>1 DEF NoName, Complete, IInv, TypeOK, StableInv
  <2>2. boot \notin {"truncate", "load", "flush", "mark", "dump"}
    BY <1>1, <2>1 DEF IInv, StableInv
  <2>3. CASE Boot
    <3>1. ~Unlink
      BY <1>1, <2>1 DEF Unlink, IInv, StableInv, Complete
    <3>2. ~Truncate /\ (\A s \in Shards : ~LoadShard(s)) /\ ~EndLoad /\ ~Flush
          /\ ~OpenMarker /\ ~DumpMarker
      BY <2>2 DEF Truncate, LoadShard, EndLoad, Flush, OpenMarker, DumpMarker
    <3> QED BY <1>1, <2>3, <3>1, <3>2 DEF Boot, Start, Reuse, Refuse, Proceed, files, Complete
  <2>4. CASE Script
    <3>1. CASE CheckAbsent
      BY <1>1, <3>1 DEF CheckAbsent, files, Complete
    <3>2. ~OpenManifest /\ ~DumpManifest
      BY <2>1 DEF OpenManifest, DumpManifest
    <3> QED BY <2>4, <3>1, <3>2 DEF Script
  <2>5. CASE Environment
    BY <1>1, <2>5 DEF Environment, SyncNames, SyncShard, Kill, KillScript, files, Complete
  <2> QED BY <1>1, <2>3, <2>4, <2>5 DEF Next
<1>2. IInv /\ [Next]_vars =>
        [\A t \in Tiers : owed = "nothing" /\ Complete(dir, t) =>
           \/ Complete(dir', t) /\ data' = data
           \/ PowerFail \/ RemoveForeign \/ Rename]_vars
  BY <1>1
<1> QED BY <1>2, MarkerIsCoherent, PTL DEF Spec, FinishedIsFinal
=============================================================================
