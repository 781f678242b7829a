------------------------ MODULE MappingReadersProofs ------------------------
(***************************************************************************)
(* Proofs about the mapping files and their two readers, for any number of *)
(* saves and of saves cut short, and for maps of any size.                 *)
(***************************************************************************)
EXTENDS MappingReaders, TLAPS, SequenceTheorems

USE DataEntriesAssumption, IndexEntriesAssumption, AbsentAssumption,
    NoPageAssumption, NoRootAssumption

(* The slots are written in turn: the one written before `slot`, and the   *)
(* one written before that, which is the next.                             *)
PrevSlot == IF slot = 1 THEN 3 ELSE slot - 1
OldSlot  == IF slot = 3 THEN 1 ELSE slot + 1

StoreTypeOK ==
  /\ xp \in BOOLEAN
  /\ dir \in [Slots -> Seq(Nat \ {0}) \union {ABSENT}]
  /\ version \in Seq(Nat \ {0})
  /\ writer \in {"idle", "saving", "stopped"}
  /\ last \in 0 .. Len(version)
  /\ slot \in Slots
  /\ at \in 0 .. FileLength

(* A piece is of some save that was begun.                                 *)
Pieces ==
  \A s \in Slots : dir[s] # ABSENT =>
    /\ Len(dir[s]) <= FileLength
    /\ \A k \in 1 .. Len(dir[s]) : dir[s][k] \in 1 .. Len(version)

Untouched ==
  version = <<>> =>
    /\ last = 0 /\ slot = 3 /\ at = 0 /\ writer # "saving"
    /\ \A s \in Slots : dir[s] = ABSENT

(* The save begun last is in its slot up to where it got.                  *)
Written ==
  version # <<>> =>
    /\ dir[slot] # ABSENT
    /\ at <= Len(dir[slot])
    /\ \A k \in 1 .. at : dir[slot][k] = Len(version)

(* Only the slot of the save begun last may be torn; the files are there   *)
(* from the first on; and the others are in the order of their saves.      *)
OthersWhole == \A s \in Slots : s # slot => dir[s] = ABSENT \/ WrittenInFull(s)

FromTheFirst == (dir[2] # ABSENT => dir[1] # ABSENT) /\ (dir[3] # ABSENT => dir[2] # ABSENT)

InTurn ==
  dir[OldSlot] # ABSENT =>
    dir[PrevSlot] # ABSENT /\ VersionOf(OldSlot) <= VersionOf(PrevSlot)

(* A header in the slot of the save begun last is of a save begun since    *)
(* the one in the slot before it, or the whole file is the oldest.         *)
HeaderOfSlot ==
  HasHeader(slot) =>
    \/ dir[PrevSlot] # ABSENT => VersionOf(PrevSlot) <= VersionOf(slot)
    \/ /\ WrittenInFull(slot) /\ dir[OldSlot] # ABSENT
       /\ VersionOf(slot) <= VersionOf(OldSlot)

Grows ==
  version # <<>> /\ dir[PrevSlot] # ABSENT => VersionOf(PrevSlot) <= version[Len(version)]

(* The save completed last is the one in the slot, or in the one before.   *)
Ended == version # <<>> /\ at = FileLength /\ writer # "saving"
LastDone ==
  IF Ended THEN last = Len(version)
  ELSE /\ version # <<>> => last < Len(version)
       /\ dir[PrevSlot] = ABSENT => last = 0
       /\ dir[PrevSlot] # ABSENT => last = dir[PrevSlot][DataHead]

StoreInv ==
  /\ StoreTypeOK /\ Pieces /\ Untouched /\ Written
  /\ OthersWhole /\ FromTheFirst /\ InTurn /\ HeaderOfSlot /\ Grows /\ LastDone
-----------------------------------------------------------------------------
(* What either scan has seen before slot n: version v of the file i, the   *)
(* first of those with the newest header, or 0 and 0 where none has one.   *)
Seen(n, v, i) ==
  /\ \A r \in Slots : r < n /\ HasHeader(r) => VersionOf(r) <= v
  /\ i = 0 => v = 0 /\ \A r \in Slots : r < n => ~ HasHeader(r)
  /\ i # 0 =>
       /\ i \in Slots /\ i < n /\ HasHeader(i) /\ v = VersionOf(i)
       /\ \A r \in Slots : r < i /\ HasHeader(r) => VersionOf(r) < v

(* WMIParser.                                                              *)
CppOpening ==
  /\ ci \in 1 .. 4 /\ cmax = 0 /\ cindex = 0
  /\ \A r \in Slots : r < ci => dir[r] # ABSENT

CppScanning ==
  /\ ccount \in 0 .. 3 /\ ci \in 1 .. ccount + 1
  /\ \A r \in Slots : r > ccount => dir[r] = ABSENT
  /\ Seen(ci, cmax, cindex)

(* The file picked is newer than those before it, and than those after it  *)
(* unless one of them repeats its version.                                 *)
CppPicked ==
  /\ cindex \in Slots /\ HasHeader(cindex)
  /\ \A r \in Slots : r < cindex /\ HasHeader(r) => VersionOf(r) < VersionOf(cindex)
  /\ Newest(cindex) \/ RepeatsAfter(cindex)

DataMap  == CppEntries(dir[cindex], DataHead, DataEntries)
IndexMap == CppEntries(dir[cindex], IndexHead, IndexEntries)

CppLoaded ==
  /\ calloc.data = DataMap /\ calloc.index = IndexMap
  /\ ~ xp /\ CppOwn(dir[cindex], IndexHead, 1) =>
       croot = <<dir[cindex][IndexHead + 1], "index">>

CppFailed ==
  \/ \A r \in Slots : ~ HasHeader(r)
  \/ CppPicked /\ Len(dir[cindex]) <= IndexTail

CppMaps ==
  /\ calloc = [data |-> calloc.data, index |-> calloc.index]
  /\ calloc.data = <<>> \/ calloc.data = DataMap
  /\ calloc.index = <<>> \/ calloc.index = IndexMap
  /\ cpc \in {"open", "scan"} => calloc.data = <<>>
  /\ cpc \in {"open", "scan", "data", "index"} => calloc.index = <<>>

CppInv ==
  /\ cpc \in {"open", "scan", "data", "index", "loaded", "failed"}
  /\ cpc = "open" => CppOpening
  /\ cpc = "scan" => CppScanning
  /\ cpc \in {"data", "index", "loaded"} => CppPicked
  /\ cpc = "index" => calloc.data = DataMap
  /\ cpc = "loaded" => CppLoaded
  /\ cpc = "failed" => CppFailed
  /\ CppMaps

(* python-cim.                                                             *)
SomeTorn == dir[1] = ABSENT \/ \E s \in Slots : dir[s] # ABSENT /\ ~ WrittenInFull(s)

PyLoaded ==
  /\ Len(dir[pindex]) >= IndexTail
  /\ pmaps = [data  |-> SubSeq(dir[pindex], DataHead + 1, DataHead + DataEntries),
              index |-> SubSeq(dir[pindex], IndexHead + 1, IndexHead + IndexEntries)]

PyInv ==
  /\ ppc \in {"guess", "scan", "parse", "loaded", "raised"}
  /\ ppc = "guess" => pi = 1 /\ pmax = 0 /\ pindex = 0
  /\ ppc = "scan" => pi \in 1 .. 4 /\ Seen(pi, pmax, pindex)
  /\ ppc \in {"parse", "loaded"} => pindex \in Slots /\ Newest(pindex)
  /\ ppc = "loaded" => PyLoaded
  /\ ppc = "raised" => SomeTorn

Begun == writer = "stopped" \/ (cpc = "open" /\ ci = 1 /\ ppc = "guess")

MapInv == StoreInv /\ CppInv /\ PyInv /\ Begun
-----------------------------------------------------------------------------
(* Where the pieces of a file lie.                                         *)
LEMMA Places ==
  /\ DataHead = 1 /\ FileLength \in Nat /\ FileLength > IndexTail
  /\ IndexTail \in Nat /\ IndexTail = IndexHead + IndexEntries + 1
  /\ IndexHead \in Nat /\ IndexHead > DataTail
  /\ DataTail \in Nat /\ DataTail = DataHead + DataEntries + 1
  /\ DataEntries >= 1 /\ IndexEntries >= 1
  BY DEF DataHead, DataTail, IndexHead, IndexTail, FileLength

(* The three slots, seen from the one of the save begun last.              *)
LEMMA Turn ==
  ASSUME slot \in Slots
  PROVE  /\ PrevSlot \in Slots /\ OldSlot \in Slots
         /\ PrevSlot # slot /\ OldSlot # slot /\ PrevSlot # OldSlot
         /\ \A s \in Slots : s \in {slot, PrevSlot, OldSlot}
         /\ OldSlot = (slot % 3) + 1
  BY DEF Slots, PrevSlot, OldSlot

(* A file that has a header is of some save, and its version is positive.  *)
LEMMA VersionIsPositive ==
  ASSUME StoreTypeOK, Pieces, NEW s \in Slots, HasHeader(s)
  PROVE  /\ dir[s] \in Seq(Nat \ {0}) /\ dir[s][DataHead] \in 1 .. Len(version)
         /\ VersionOf(s) \in Nat \ {0}
  BY DEF StoreTypeOK, Pieces, HasHeader, VersionOf, DataHead

(* A save begun changes no version, and a file it does not touch keeps all *)
(* that is said of it.                                                     *)
LEMMA FileKept ==
  ASSUME StoreTypeOK, Pieces, NEW s \in Slots, dir'[s] = dir[s],
         NEW v \in Nat \ {0}, version' = version \/ version' = Append(version, v)
  PROVE  /\ HasHeader(s)' <=> HasHeader(s)
         /\ WrittenInFull(s)' <=> WrittenInFull(s)
         /\ HasHeader(s) => VersionOf(s)' = VersionOf(s)
<1>1. (HasHeader(s)' <=> HasHeader(s)) /\ (WrittenInFull(s)' <=> WrittenInFull(s))
  BY DEF HasHeader, WrittenInFull
<1>2. ASSUME HasHeader(s) PROVE VersionOf(s)' = VersionOf(s)
  <2>1. PICK p : p = dir[s][DataHead]  OBVIOUS
  <2>2. p \in 1 .. Len(version)
    BY <1>2, <2>1, VersionIsPositive
  <2>3. version'[p] = version[p]
    BY <2>2, AppendProperties DEF StoreTypeOK
  <2> QED BY <2>1, <2>3 DEF VersionOf
<1> QED BY <1>1, <1>2

LEMMA FullHasHeader ==
  ASSUME NEW s \in Slots, WrittenInFull(s)
  PROVE  HasHeader(s)
  BY DEF WrittenInFull
-----------------------------------------------------------------------------
LEMMA StoreInvInit == StoreInit => StoreInv
<1> SUFFICES ASSUME StoreInit PROVE StoreInv  OBVIOUS
<1> USE DEF StoreInit
<1>1. StoreTypeOK
  BY Places DEF StoreTypeOK, Slots
<1>2. PrevSlot = 2 /\ OldSlot = 1 /\ FileLength # 0
  BY Places DEF PrevSlot, OldSlot
<1>3. \A s \in Slots : dir[s] = ABSENT /\ ~ HasHeader(s)
  BY DEF HasHeader
<1>4. Pieces /\ Untouched /\ Written /\ OthersWhole /\ FromTheFirst
  BY <1>3 DEF Pieces, Untouched, Written, OthersWhole, FromTheFirst, Slots
<1>5. InTurn /\ HeaderOfSlot /\ Grows /\ LastDone
  BY <1>2, <1>3 DEF InTurn, HeaderOfSlot, Grows, LastDone, Ended, Slots
<1> QED BY <1>1, <1>4, <1>5 DEF StoreInv

(* The piece written next leaves the rest of the file alone.               *)
LEMMA PieceWritten ==
  ASSUME StoreInv, WritePiece
  PROVE  /\ version # <<>> /\ Len(version) \in Nat \ {0}
         /\ dir'[slot] \in Seq(Nat \ {0})
         /\ Len(dir'[slot]) <= FileLength /\ at + 1 <= Len(dir'[slot])
         /\ \A k \in 1 .. Len(dir'[slot]) :
              dir'[slot][k] = IF k = at + 1 THEN Len(version) ELSE dir[slot][k]
         /\ \A k \in 1 .. Len(dir'[slot]) : k # at + 1 => k \in 1 .. Len(dir[slot])
         /\ \A s \in Slots : s # slot => dir'[s] = dir[s]
         /\ DOMAIN dir' = Slots
<1> USE DEF StoreInv
<1>1. version # <<>>
  BY DEF Untouched, WritePiece
<1>2. Len(version) \in Nat \ {0}
  BY <1>1, EmptySeq DEF StoreTypeOK
<1>3. PICK n \in Nat \ {0} : n = Len(version)
  BY <1>2
<1>4. PICK f : f = dir[slot]
  OBVIOUS
<1>5. f \in Seq(Nat \ {0}) /\ at <= Len(f) /\ Len(f) <= FileLength
  BY <1>1, <1>4 DEF Written, Pieces, StoreTypeOK
<1>6. PICK g : g = IF at < Len(f) THEN [f EXCEPT ![at + 1] = n] ELSE Append(f, n)
  OBVIOUS
<1>7. dir' = [dir EXCEPT ![slot] = g]
  BY <1>3, <1>4, <1>6 DEF WritePiece
<1>8. dir'[slot] = g /\ (\A s \in Slots : s # slot => dir'[s] = dir[s]) /\ DOMAIN dir' = Slots
  BY <1>7 DEF StoreTypeOK
<1>9. at \in Nat /\ at < FileLength /\ FileLength \in Nat
  BY Places DEF WritePiece, StoreTypeOK
<1>10. /\ g \in Seq(Nat \ {0}) /\ Len(g) <= FileLength /\ at + 1 <= Len(g)
       /\ \A k \in 1 .. Len(g) : g[k] = IF k = at + 1 THEN n ELSE f[k]
       /\ \A k \in 1 .. Len(g) : k # at + 1 => k \in 1 .. Len(f)
  <2>1. CASE at < Len(f)
    <3>1. g = [f EXCEPT ![at + 1] = n] /\ at + 1 \in 1 .. Len(f)
      BY <2>1, <1>5, <1>6, <1>9
    <3>2. /\ g \in Seq(Nat \ {0}) /\ Len(g) = Len(f)
          /\ \A k \in 1 .. Len(f) : g[k] = IF k = at + 1 THEN n ELSE f[k]
      BY <3>1, <1>3, <1>5, ExceptSeq
    <3> QED BY <3>1, <3>2, <1>5
  <2>2. CASE ~ at < Len(f)
    <3>1. g = Append(f, n) /\ at = Len(f)
      BY <2>2, <1>5, <1>6, <1>9
    <3>2. /\ g \in Seq(Nat \ {0}) /\ Len(g) = Len(f) + 1
          /\ \A k \in 1 .. Len(f) : g[k] = f[k]
          /\ g[Len(f) + 1] = n
      BY <3>1, <1>3, <1>5, AppendProperties
    <3> QED BY <3>1, <3>2, <1>9
  <2> QED BY <2>1, <2>2
<1> QED BY <1>1, <1>2, <1>3, <1>4, <1>8, <1>10
LEMMA WritePieceKeeps ==
  ASSUME StoreInv, WritePiece
  PROVE  StoreInv'
<1> USE DEF StoreInv
<1>1. /\ slot \in Slots /\ slot' = slot /\ version' = version /\ last' = last
      /\ PrevSlot' = PrevSlot /\ OldSlot' = OldSlot
      /\ writer = "saving" /\ writer' = "saving" /\ xp' = xp
      /\ at' = at + 1 /\ at \in Nat /\ at < FileLength /\ FileLength \in Nat
  BY Places DEF WritePiece, StoreTypeOK, PrevSlot, OldSlot
<1>2. PICK n \in Nat \ {0} : n = Len(version)
  BY PieceWritten
<1>3. /\ version # <<>> /\ dir'[slot] # ABSENT
      /\ dir'[slot] \in Seq(Nat \ {0}) /\ Len(dir'[slot]) >= 1
      /\ dir[slot] # ABSENT /\ dir[slot] \in Seq(Nat \ {0})
  <2>1. version # <<>> /\ dir'[slot] \in Seq(Nat \ {0}) /\ at + 1 <= Len(dir'[slot])
    BY PieceWritten
  <2>2. dir[slot] # ABSENT /\ dir[slot] \in Seq(Nat \ {0})
    BY <2>1 DEF StoreTypeOK, Written
  <2>3. dir'[slot] # ABSENT
    BY ONLY <2>1, AbsentAssumption
  <2>4. Len(dir'[slot]) \in Nat
    BY ONLY <2>1
  <2> QED BY ONLY <1>1, <2>1, <2>2, <2>3, <2>4
<1>4. \A s \in Slots : s # slot =>
        /\ dir'[s] = dir[s]
        /\ HasHeader(s)' <=> HasHeader(s)
        /\ WrittenInFull(s)' <=> WrittenInFull(s)
        /\ HasHeader(s) => VersionOf(s)' = VersionOf(s)
  <2> SUFFICES ASSUME NEW s \in Slots, s # slot
               PROVE  /\ dir'[s] = dir[s]
                      /\ HasHeader(s)' <=> HasHeader(s)
                      /\ WrittenInFull(s)' <=> WrittenInFull(s)
                      /\ HasHeader(s) => VersionOf(s)' = VersionOf(s)
    OBVIOUS
  <2>1. dir'[s] = dir[s]
    BY PieceWritten
  <2> QED BY <2>1, <1>1, FileKept
<1>5. StoreTypeOK'
  <2>1. dir' \in [Slots -> Seq(Nat \ {0}) \union {ABSENT}]
    <3>1. \A s \in Slots : dir'[s] \in Seq(Nat \ {0}) \union {ABSENT}
      BY <1>3, <1>4 DEF StoreTypeOK
    <3>2. dir' = [s \in Slots |-> dir'[s]]
      BY DEF StoreTypeOK, WritePiece
    <3> QED BY <3>1, <3>2
  <2>2. at' \in 0 .. FileLength
    BY <1>1
  <2> QED BY <2>1, <2>2, <1>1 DEF StoreTypeOK
<1>6. Pieces'
  <2> SUFFICES ASSUME NEW s \in Slots, dir'[s] # ABSENT
               PROVE  /\ Len(dir'[s]) <= FileLength
                      /\ \A k \in 1 .. Len(dir'[s]) : dir'[s][k] \in 1 .. Len(version)
    BY <1>1 DEF Pieces
  <2>1. CASE s = slot
    <3>1. Len(dir'[s]) <= FileLength
      BY <2>1, PieceWritten
    <3>2. ASSUME NEW k \in 1 .. Len(dir'[s]) PROVE dir'[s][k] \in 1 .. Len(version)
      <4>1. dir'[s][k] = n \/ (dir'[s][k] = dir[s][k] /\ k \in 1 .. Len(dir[s]))
        BY <2>1, <1>2, <3>2, PieceWritten
      <4>2. n \in 1 .. Len(version)
        BY <1>2
      <4> QED BY <4>1, <4>2, <2>1, <1>1, <1>2, <1>3 DEF Pieces
    <3> QED BY <3>1, <3>2
  <2>2. CASE s # slot
    BY <2>2, <1>4 DEF Pieces
  <2> QED BY <2>1, <2>2
<1>7. Untouched'
  BY <1>1, <1>3 DEF Untouched
<1>8. Written'
  <2>1. at + 1 <= Len(dir'[slot])
    BY PieceWritten
  <2>2. \A k \in 1 .. at + 1 : dir'[slot][k] = n
    <3> SUFFICES ASSUME NEW k \in 1 .. at + 1 PROVE dir'[slot][k] = n
      OBVIOUS
    <3>1. k \in 1 .. Len(dir'[slot])
      BY <2>1, <1>1, <1>3, LenProperties
    <3>2. k = at + 1 \/ dir[slot][k] = n
      BY <1>1, <1>2, <1>3 DEF Written
    <3> QED BY <3>1, <3>2, <1>2, PieceWritten
  <2> QED BY <2>1, <2>2, <1>1, <1>2, <1>3 DEF Written
<1>9. OthersWhole' /\ FromTheFirst'
  BY <1>1, <1>3, <1>4 DEF OthersWhole, FromTheFirst, Slots
<1>10. /\ PrevSlot \in Slots /\ OldSlot \in Slots /\ PrevSlot # slot /\ OldSlot # slot
       /\ dir[PrevSlot] # ABSENT => HasHeader(PrevSlot)
       /\ dir[OldSlot] # ABSENT => HasHeader(OldSlot)
  BY <1>1, Turn, FullHasHeader DEF OthersWhole
<1>11. \A s \in {PrevSlot, OldSlot} :
         /\ dir'[s] = dir[s]
         /\ dir[s] # ABSENT => VersionOf(s)' = VersionOf(s)
  BY <1>4, <1>10
<1>12. InTurn'
  <2>1. PICK p1, o1 : p1 = PrevSlot /\ o1 = OldSlot
    OBVIOUS
  <2>2. dir'[o1] # ABSENT => dir'[p1] # ABSENT /\ VersionOf(o1)' <= VersionOf(p1)'
    BY <2>1, <1>11 DEF InTurn
  <2>3. p1 = PrevSlot' /\ o1 = OldSlot'
    BY <2>1, <1>1
  <2> QED BY <2>2, <2>3 DEF InTurn, VersionOf
<1>13. Grows' /\ HeaderOfSlot'
  <2>1. PICK p : p = PrevSlot
    OBVIOUS
  <2>2. p = PrevSlot' /\ slot = slot'
    BY <2>1, <1>1
  <2>3. dir'[p] # ABSENT => VersionOf(p)' <= version'[n]
    BY <2>1, <1>1, <1>2, <1>3, <1>11 DEF Grows
  <2>4. Grows'
    BY <2>2, <2>3, <1>1, <1>2 DEF Grows, VersionOf
  <2>5. dir'[slot][DataHead] = n
    <3>1. 1 \in 1 .. at + 1
      BY <1>1
    <3> QED BY <3>1, <1>1, <1>2, <1>3, <1>8, Places DEF Written
  <2>6. HeaderOfSlot'
    BY <2>2, <2>3, <2>5, <1>1 DEF HeaderOfSlot, VersionOf
  <2> QED BY <2>4, <2>6
<1>14. LastDone'
  BY <1>1, <1>2, <1>3, <1>11 DEF LastDone, Ended
<1> QED BY <1>5, <1>6, <1>7, <1>8, <1>9, <1>12, <1>13, <1>14
(* The other steps of the writer, and those of the readers, leave the      *)
(* files and their versions alone.                                         *)
FilesKept == UNCHANGED <<xp, dir, version, slot, at>>

LEMMA FilesKeptKeeps ==
  ASSUME StoreInv, FilesKept
  PROVE  /\ Pieces' /\ Written' /\ OthersWhole' /\ FromTheFirst'
         /\ InTurn' /\ HeaderOfSlot' /\ Grows'
         /\ PrevSlot' = PrevSlot
<1> USE DEF StoreInv, FilesKept
<1>1. Pieces' /\ Written' /\ FromTheFirst'
  BY DEF Pieces, Written, FromTheFirst
<1>2. OthersWhole'
  BY DEF OthersWhole, WrittenInFull, HasHeader
<1>3. InTurn' /\ Grows'
  BY DEF InTurn, Grows, PrevSlot, OldSlot, VersionOf
<1>4. HeaderOfSlot'
  BY DEF HeaderOfSlot, PrevSlot, OldSlot, VersionOf, WrittenInFull, HasHeader
<1> QED BY <1>1, <1>2, <1>3, <1>4 DEF PrevSlot

LEMMA EndSaveKeeps ==
  ASSUME StoreInv, EndSave
  PROVE  StoreInv'
<1>1. FilesKept /\ version # <<>> /\ Len(version) \in Nat \ {0} /\ StoreTypeOK /\ Untouched
  BY EmptySeq DEF EndSave, FilesKept, StoreInv, Untouched, StoreTypeOK
<1>2. StoreTypeOK'
  BY <1>1 DEF StoreTypeOK, EndSave
<1>3. Untouched'
  BY <1>1 DEF Untouched, EndSave
<1>4. LastDone'
  BY <1>1 DEF LastDone, Ended, EndSave
<1> QED BY <1>1, <1>2, <1>3, <1>4, FilesKeptKeeps DEF StoreInv

LEMMA CrashKeeps ==
  ASSUME StoreInv, Crash
  PROVE  StoreInv'
<1>1. FilesKept /\ version # <<>> /\ StoreTypeOK /\ Untouched /\ LastDone
  BY DEF Crash, FilesKept, StoreInv, Untouched
<1>2. StoreTypeOK'
  BY <1>1 DEF StoreTypeOK, Crash
<1>3. Untouched'
  BY <1>1 DEF Untouched, Crash
<1>4. LastDone'
  <2>1. at # FileLength
    BY <1>1, Places DEF Crash, StoreTypeOK
  <2> QED BY <2>1, <1>1, FilesKeptKeeps DEF LastDone, Ended, Crash
<1> QED BY <1>1, <1>2, <1>3, <1>4, FilesKeptKeeps DEF StoreInv

LEMMA StopKeeps ==
  ASSUME StoreInv, Stop
  PROVE  StoreInv'
<1>1. FilesKept /\ StoreTypeOK /\ Untouched /\ LastDone
  BY DEF Stop, FilesKept, StoreInv
<1>2. StoreTypeOK'
  BY <1>1 DEF StoreTypeOK, Stop
<1>3. Untouched'
  BY <1>1 DEF Untouched, Stop
<1>4. LastDone'
  BY <1>1, FilesKeptKeeps DEF LastDone, Ended, Stop
<1> QED BY <1>1, <1>2, <1>3, <1>4, FilesKeptKeeps DEF StoreInv

LEMMA StoreKeptKeeps ==
  ASSUME StoreInv, UNCHANGED storeVars
  PROVE  StoreInv'
<1>1. FilesKept /\ StoreTypeOK /\ Untouched /\ LastDone /\ last' = last /\ writer' = writer
  BY DEF storeVars, FilesKept, StoreInv
<1>2. StoreTypeOK'
  BY <1>1 DEF StoreTypeOK, FilesKept
<1>3. Untouched'
  BY <1>1 DEF Untouched, FilesKept
<1>4. LastDone'
  BY <1>1, FilesKeptKeeps DEF LastDone, Ended, FilesKept
<1> QED BY <1>1, <1>2, <1>3, <1>4, FilesKeptKeeps DEF StoreInv
-----------------------------------------------------------------------------
(* A save begun: its version is no smaller than that of the save completed *)
(* last, its file is kept or emptied, and the others are kept.             *)
LEMMA SaveBegun ==
  ASSUME StoreInv, BeginSave
  PROVE  /\ slot' = NextSlot /\ NextSlot \in Slots /\ at' = 0 /\ last' = last /\ xp' = xp
         /\ writer = "idle" /\ writer' = "saving"
         /\ \E v \in Nat \ {0} :
              /\ version' = Append(version, v) /\ version' \in Seq(Nat \ {0})
              /\ version' # <<>> /\ Len(version') = Len(version) + 1
              /\ version'[Len(version) + 1] = v
              /\ last # 0 => version[last] <= v
         /\ dir' \in [Slots -> Seq(Nat \ {0}) \union {ABSENT}]
         /\ dir'[NextSlot] \in {<<>>, dir[NextSlot]} /\ dir'[NextSlot] # ABSENT
         /\ \A s \in Slots : s # NextSlot => dir'[s] = dir[s]
<1> USE DEF StoreInv
<1>1. NextSlot \in Slots
  BY Turn DEF NextSlot, StoreTypeOK
<1>2. PICK t : t = NextSlot
  OBVIOUS
<1>3. PICK change \in {0, 1} :
        version' = Append(version, (IF last = 0 THEN 1 ELSE version[last]) + change)
  BY DEF BeginSave
<1>4. PICK v : v = (IF last = 0 THEN 1 ELSE version[last]) + change
  OBVIOUS
<1>5. v \in Nat \ {0} /\ (last # 0 => version[last] <= v)
  <2>1. CASE last = 0
    BY <2>1, <1>4
  <2>2. CASE last # 0
    <3>1. PICK w \in Nat \ {0} : w = version[last]
      BY <2>2 DEF StoreTypeOK
    <3> QED BY <2>2, <3>1, <1>4
  <2> QED BY <2>1, <2>2
<1>6. /\ version' = Append(version, v) /\ version' \in Seq(Nat \ {0})
      /\ version' # <<>> /\ Len(version') = Len(version) + 1
      /\ version'[Len(version) + 1] = v
  BY <1>3, <1>4, <1>5, AppendProperties DEF StoreTypeOK
<1>7. PICK kept \in {dir[t], <<>>} :
        dir' = [dir EXCEPT ![t] = IF kept = ABSENT THEN <<>> ELSE kept]
  BY <1>2 DEF BeginSave
<1>8. PICK g : g = IF kept = ABSENT THEN <<>> ELSE kept
  OBVIOUS
<1>9. ABSENT \notin Seq(Nat) /\ <<>> \in Seq(Nat) /\ <<>> \in Seq(Nat \ {0})
  OBVIOUS
<1>10. g \in {<<>>, dir[t]} /\ g # ABSENT /\ g \in Seq(Nat \ {0})
  BY <1>1, <1>2, <1>7, <1>8, <1>9 DEF StoreTypeOK
<1>11. /\ dir' = [dir EXCEPT ![t] = g]
       /\ dir' \in [Slots -> Seq(Nat \ {0}) \union {ABSENT}]
       /\ dir'[t] = g /\ \A s \in Slots : s # t => dir'[s] = dir[s]
  BY <1>1, <1>2, <1>7, <1>8, <1>10 DEF StoreTypeOK
<1> QED BY <1>1, <1>2, <1>5, <1>6, <1>10, <1>11 DEF BeginSave

(* What every save begun keeps, wherever it goes.                          *)
LEMMA BeginSaveTypes ==
  ASSUME StoreInv, BeginSave
  PROVE  /\ StoreTypeOK' /\ Pieces' /\ Untouched' /\ Written' /\ ~ Ended'
         /\ \A s \in Slots : s # NextSlot =>
              /\ dir'[s] = dir[s]
              /\ HasHeader(s)' <=> HasHeader(s)
              /\ WrittenInFull(s)' <=> WrittenInFull(s)
              /\ HasHeader(s) => VersionOf(s)' = VersionOf(s)
         /\ \A s \in Slots : s = NextSlot /\ HasHeader(s)' =>
              dir'[s] = dir[s] /\ dir[s] # ABSENT
<1> USE DEF StoreInv
<1>1. PICK n \in Nat : n = Len(version)
  BY DEF StoreTypeOK
<1>2. Len(version') = n + 1
  BY <1>1, SaveBegun
<1>3. StoreTypeOK'
  <2>1. last' \in 0 .. Len(version') /\ at' \in 0 .. FileLength
    BY <1>1, <1>2, SaveBegun, Places DEF StoreTypeOK
  <2>2. xp' \in BOOLEAN /\ writer' = "saving" /\ slot' \in Slots
    BY SaveBegun DEF StoreTypeOK
  <2>3. /\ version' \in Seq(Nat \ {0})
        /\ dir' \in [Slots -> Seq(Nat \ {0}) \union {ABSENT}]
    BY SaveBegun
  <2> QED BY <2>1, <2>2, <2>3 DEF StoreTypeOK
<1>4. Pieces'
  <2> SUFFICES ASSUME NEW s \in Slots, dir'[s] # ABSENT
               PROVE  /\ Len(dir'[s]) <= FileLength
                      /\ \A k \in 1 .. Len(dir'[s]) : dir'[s][k] \in 1 .. n + 1
    BY <1>2 DEF Pieces
  <2>1. CASE dir'[s] = dir[s]
    BY <2>1, <1>1 DEF Pieces
  <2>2. CASE dir'[s] = <<>>
    BY <2>2, Places
  <2> QED BY <2>1, <2>2, SaveBegun
<1>5. Untouched' /\ ~ Ended'
  BY SaveBegun, Places DEF Untouched, Ended
<1>6. Written'
  BY SaveBegun, <1>3 DEF Written, StoreTypeOK
<1>7. ASSUME NEW s \in Slots, s # NextSlot
      PROVE  /\ dir'[s] = dir[s]
             /\ HasHeader(s)' <=> HasHeader(s)
             /\ WrittenInFull(s)' <=> WrittenInFull(s)
             /\ HasHeader(s) => VersionOf(s)' = VersionOf(s)
  <2>1. dir'[s] = dir[s]
    BY <1>7, SaveBegun
  <2> QED BY <2>1, SaveBegun, FileKept
<1>8. PICK t : t = NextSlot
  OBVIOUS
<1>9. HasHeader(t)' => dir'[t] = dir[t] /\ dir[t] # ABSENT
  <2>1. dir'[t] # <<>> => dir'[t] = dir[t] /\ dir[t] # ABSENT
    BY <1>8, SaveBegun
  <2>2. HasHeader(t)' => dir'[t] # <<>>
    BY Places DEF HasHeader
  <2> QED BY <2>1, <2>2
<1> QED BY <1>3, <1>4, <1>5, <1>6, <1>7, <1>8, <1>9
(* A save begun where one was cut short: the version last completed is     *)
(* that of the file before.                                                *)
LEMMA BeginAgainKeeps ==
  ASSUME StoreInv, BeginSave, version # <<>>, at # FileLength
  PROVE  StoreInv'
<1> USE DEF StoreInv
<1>1. /\ slot \in Slots /\ NextSlot = slot /\ slot' = slot
      /\ PrevSlot' = PrevSlot /\ OldSlot' = OldSlot
      /\ dir[slot] # ABSENT /\ dir'[slot] # ABSENT /\ version' # <<>>
  BY SaveBegun DEF NextSlot, StoreTypeOK, PrevSlot, OldSlot, Written
<1>2. PICK n \in Nat \ {0} : n = Len(version)
  BY EmptySeq DEF StoreTypeOK
<1>3. PICK v \in Nat \ {0} :
        /\ version' = Append(version, v) /\ Len(version') = n + 1 /\ version'[n + 1] = v
        /\ last # 0 => version[last] <= v
  BY <1>2, SaveBegun
<1>4. PICK p, o : p = PrevSlot /\ o = OldSlot
  OBVIOUS
<1>5. /\ p \in Slots /\ o \in Slots /\ p # slot /\ o # slot
      /\ p = PrevSlot' /\ o = OldSlot'
      /\ dir'[p] = dir[p] /\ dir'[o] = dir[o]
      /\ dir[p] # ABSENT => HasHeader(p) /\ VersionOf(p)' = VersionOf(p)
      /\ dir[o] # ABSENT => HasHeader(o) /\ VersionOf(o)' = VersionOf(o)
  BY <1>1, <1>4, Turn, BeginSaveTypes, FullHasHeader DEF OthersWhole
<1>6. OthersWhole' /\ FromTheFirst'
  BY <1>1, BeginSaveTypes DEF OthersWhole, FromTheFirst, Slots
<1>7. InTurn'
  <2>1. dir'[o] # ABSENT => dir'[p] # ABSENT /\ VersionOf(o)' <= VersionOf(p)'
    BY <1>4, <1>5 DEF InTurn
  <2> QED BY <2>1, <1>5 DEF InTurn, VersionOf
<1>8. Grows'
  <2>1. ~ Ended
    BY DEF Ended
  <2>2. dir[p] # ABSENT => last = dir[p][DataHead] /\ dir[p][DataHead] \in 1 .. n
    BY <2>1, <1>2, <1>4, <1>5, VersionIsPositive DEF LastDone
  <2>3. dir'[p] # ABSENT => VersionOf(p)' <= version'[n + 1]
    BY <2>2, <1>3, <1>5 DEF VersionOf
  <2> QED BY <2>3, <1>3, <1>5 DEF Grows, VersionOf
<1>9. HeaderOfSlot'
  <2> SUFFICES ASSUME HasHeader(slot)' PROVE HeaderOfSlot'
    BY <1>1 DEF HeaderOfSlot, HasHeader
  <2>1. dir'[slot] = dir[slot] /\ HasHeader(slot)
    BY <1>1, BeginSaveTypes DEF HasHeader
  <2>2. PICK s \in Slots : s = slot
    BY <1>1
  <2>3. /\ VersionOf(s)' = VersionOf(s)
        /\ WrittenInFull(s)' <=> WrittenInFull(s)
    BY <2>1, <2>2, <1>3, FileKept
  <2>4. \/ dir'[p] # ABSENT => VersionOf(p)' <= VersionOf(s)'
        \/ WrittenInFull(s)' /\ dir'[o] # ABSENT /\ VersionOf(s)' <= VersionOf(o)'
    BY <2>1, <2>2, <2>3, <1>4, <1>5 DEF HeaderOfSlot
  <2> QED BY <2>2, <2>4, <1>1, <1>5 DEF HeaderOfSlot, VersionOf, WrittenInFull, HasHeader
<1>10. LastDone'
  <2>1. last <= n /\ (dir[p] = ABSENT => last = 0) /\ (dir[p] # ABSENT => last = dir[p][DataHead])
    BY <1>2, <1>4 DEF LastDone, Ended, StoreTypeOK
  <2>2. last' = last /\ last < Len(version') /\ ~ Ended'
    BY <2>1, <1>2, <1>3, SaveBegun, BeginSaveTypes DEF StoreTypeOK
  <2> QED BY <2>1, <2>2, <1>5 DEF LastDone
<1> QED BY <1>6, <1>7, <1>8, <1>9, <1>10, BeginSaveTypes
(* A save begun in the next slot, where the oldest file lies.              *)
LEMMA BeginNextKeeps ==
  ASSUME StoreInv, BeginSave, version = <<>> \/ at = FileLength
  PROVE  StoreInv'
<1> USE DEF StoreInv
<1>1. PICK c, p, o : c = slot /\ p = PrevSlot /\ o = OldSlot
  OBVIOUS
<1>2. /\ c \in Slots /\ p \in Slots /\ o \in Slots /\ c # p /\ c # o /\ p # o
      /\ \A s \in Slots : s \in {c, p, o}
      /\ NextSlot = o /\ slot' = o /\ PrevSlot' = c /\ OldSlot' = p
  BY <1>1, Turn, SaveBegun DEF NextSlot, StoreTypeOK, PrevSlot, OldSlot, Slots
<1>3. PICK n \in Nat : n = Len(version) /\ (version # <<>> => n # 0)
  BY EmptySeq DEF StoreTypeOK
<1>4. PICK v \in Nat \ {0} :
        /\ version' = Append(version, v) /\ version' # <<>>
        /\ Len(version') = n + 1 /\ version'[n + 1] = v
        /\ last # 0 => version[last] <= v
  BY <1>3, SaveBegun
<1>5. \A s \in {c, p} :
        /\ dir'[s] = dir[s]
        /\ HasHeader(s)' <=> HasHeader(s)
        /\ WrittenInFull(s)' <=> WrittenInFull(s)
        /\ HasHeader(s) => VersionOf(s)' = VersionOf(s)
  BY <1>2, BeginSaveTypes
<1>6. dir[c] = ABSENT <=> version = <<>>
  BY <1>1, <1>2 DEF Untouched, Written
<1>7. dir[c] # ABSENT =>
        /\ WrittenInFull(c) /\ HasHeader(c)
        /\ dir[c][DataHead] = n /\ last = n
  <2> SUFFICES ASSUME dir[c] # ABSENT
               PROVE  WrittenInFull(c) /\ HasHeader(c) /\ dir[c][DataHead] = n /\ last = n
    OBVIOUS
  <2>1. version # <<>> /\ at = FileLength /\ writer # "saving"
    BY <1>6, SaveBegun
  <2>2. last = n
    BY <2>1, <1>3 DEF LastDone, Ended
  <2>3. dir[c] \in Seq(Nat \ {0}) /\ Len(dir[c]) = FileLength
    BY <2>1, <1>1, <1>2, Places DEF StoreTypeOK, Pieces, Written
  <2>4. \A k \in 1 .. FileLength : dir[c][k] = n
    BY <2>1, <1>1, <1>3 DEF Written
  <2>5. DataHead \in 1 .. FileLength
    BY Places
  <2>6. HasHeader(c)
    BY <2>3, <2>5 DEF HasHeader
  <2> QED BY <2>2, <2>3, <2>4, <2>5, <2>6 DEF WrittenInFull
<1>8. \A s \in {p, o} : dir[s] # ABSENT => WrittenInFull(s) /\ HasHeader(s)
  BY <1>1, <1>2, FullHasHeader DEF OthersWhole
<1>9. OthersWhole'
  BY <1>2, <1>5, <1>7, <1>8 DEF OthersWhole
<1>10. FromTheFirst'
  <2>1. CASE version = <<>>
    <3>1. \A s \in {c, p} : dir'[s] = ABSENT
      BY <2>1, <1>2, <1>5 DEF Untouched
    <3>2. o = 1
      BY <2>1, <1>1 DEF Untouched, OldSlot
    <3> QED BY <3>1, <3>2, <1>2 DEF FromTheFirst, Slots
  <2>2. CASE version # <<>>
    <3>1. dir[c] # ABSENT /\ dir'[c] # ABSENT /\ dir'[p] = dir[p]
      BY <2>2, <1>5, <1>6
    <3>2. dir'[o] # ABSENT
      BY <1>2, SaveBegun
    <3>3. c = 1 => o = 2 /\ p = 3
      BY <1>1 DEF PrevSlot, OldSlot
    <3>4. c = 2 => o = 3 /\ p = 1
      BY <1>1 DEF PrevSlot, OldSlot
    <3>5. c = 3 => o = 1 /\ p = 2
      BY <1>1 DEF PrevSlot, OldSlot
    <3> QED BY <3>1, <3>2, <3>3, <3>4, <3>5, <1>2 DEF FromTheFirst, Slots
  <2> QED BY <2>1, <2>2
<1>11. InTurn'
  <2>1. dir[p] # ABSENT => dir[c] # ABSENT
    BY <1>2, <1>6 DEF Untouched
  <2>2. dir[p] # ABSENT => VersionOf(p) <= VersionOf(c)
    BY <2>1, <1>1, <1>3, <1>6, <1>7 DEF Grows, VersionOf
  <2>3. dir'[p] # ABSENT => dir'[c] # ABSENT /\ VersionOf(p)' <= VersionOf(c)'
    BY <2>1, <2>2, <1>5, <1>7, <1>8
  <2> QED BY <2>3, <1>2 DEF InTurn, VersionOf
<1>12. Grows'
  <2>1. dir[c] # ABSENT => VersionOf(c) <= v
    BY <1>3, <1>4, <1>6, <1>7 DEF VersionOf
  <2>2. dir'[c] # ABSENT => VersionOf(c)' <= version'[n + 1]
    BY <2>1, <1>4, <1>5, <1>7
  <2> QED BY <2>2, <1>2, <1>4 DEF Grows, VersionOf
<1>13. HeaderOfSlot'
  <2> SUFFICES ASSUME HasHeader(o)'
               PROVE  WrittenInFull(o)' /\ dir'[p] # ABSENT /\ VersionOf(o)' <= VersionOf(p)'
    BY <1>2 DEF HeaderOfSlot, HasHeader, WrittenInFull, VersionOf
  <2>1. dir'[o] = dir[o] /\ dir[o] # ABSENT
    BY <1>2, BeginSaveTypes
  <2>2. /\ VersionOf(o)' = VersionOf(o)
        /\ WrittenInFull(o)' <=> WrittenInFull(o)
    BY <2>1, <1>2, <1>4, <1>8, FileKept
  <2>3. dir[p] # ABSENT /\ VersionOf(o) <= VersionOf(p)
    BY <2>1, <1>1 DEF InTurn
  <2> QED BY <2>1, <2>2, <2>3, <1>5, <1>8
<1>14. LastDone'
  <2>1. last' = last /\ last' < Len(version') /\ ~ Ended'
    BY <1>3, <1>4, SaveBegun, BeginSaveTypes DEF StoreTypeOK
  <2>2. dir[c] = ABSENT => last = 0
    BY <1>6 DEF Untouched
  <2> QED BY <2>1, <2>2, <1>2, <1>5, <1>7 DEF LastDone
<1> QED BY <1>9, <1>10, <1>11, <1>12, <1>13, <1>14, BeginSaveTypes

LEMMA BeginSaveKeeps ==
  ASSUME StoreInv, BeginSave
  PROVE  StoreInv'
  BY BeginAgainKeeps, BeginNextKeeps
-----------------------------------------------------------------------------
LEMMA NoPage == NOPAGE \notin Nat
  BY NoPageAssumption

(* What is said of the files alone stays true while only a reader moves.   *)
LEMMA FilesSeenAlike ==
  ASSUME UNCHANGED storeVars
  PROVE  /\ \A s \in Slots : /\ HasHeader(s)' <=> HasHeader(s)
                             /\ VersionOf(s)' = VersionOf(s)
                             /\ Newest(s)' <=> Newest(s)
                             /\ RepeatsAfter(s)' <=> RepeatsAfter(s)
         /\ \A n, v, i : Seen(n, v, i)' <=> Seen(n, v, i)
         /\ SomeTorn' <=> SomeTorn
<1>1. \A s \in Slots : (HasHeader(s)' <=> HasHeader(s)) /\ VersionOf(s)' = VersionOf(s)
  BY DEF storeVars, HasHeader, VersionOf
<1>2. \A s \in Slots : (Newest(s)' <=> Newest(s)) /\ (RepeatsAfter(s)' <=> RepeatsAfter(s))
  BY DEF storeVars, HasHeader, VersionOf, Newest, RepeatsAfter
<1>3. \A n, v, i : Seen(n, v, i)' <=> Seen(n, v, i)
  BY DEF storeVars, HasHeader, VersionOf, Seen
<1>4. SomeTorn' <=> SomeTorn
  BY DEF storeVars, SomeTorn, WrittenInFull, HasHeader
<1> QED BY <1>1, <1>2, <1>3, <1>4

(* The turns of the scan.                                                  *)
LEMMA SeenNumbers ==
  ASSUME StoreInv, NEW n, NEW v, NEW i, Seen(n, v, i)
  PROVE  v \in Nat /\ (i = 0 <=> v = 0)
  BY VersionIsPositive DEF StoreInv, Seen, Slots

LEMMA SeenNone ==
  ASSUME NEW n \in Slots, NEW v, NEW i, Seen(n, v, i), ~ HasHeader(n)
  PROVE  Seen(n + 1, v, i)
  BY DEF Seen, Slots

LEMMA SeenNewer ==
  ASSUME StoreInv, NEW n \in Slots, NEW v, NEW i, Seen(n, v, i),
         HasHeader(n), VersionOf(n) > v
  PROVE  Seen(n + 1, VersionOf(n), n)
<1>1. PICK w \in Nat \ {0} : w = VersionOf(n)
  BY VersionIsPositive DEF StoreInv
<1>2. v \in Nat
  BY SeenNumbers
<1>3. ASSUME NEW r \in Slots, r < n, HasHeader(r) PROVE VersionOf(r) < w
  <2>1. PICK x \in Nat : x = VersionOf(r)
    BY <1>3, VersionIsPositive DEF StoreInv
  <2>2. x <= v
    BY <1>3, <2>1 DEF Seen
  <2> QED BY <2>1, <2>2, <1>1, <1>2
<1>4. ASSUME NEW r \in Slots, r < n + 1, HasHeader(r) PROVE VersionOf(r) <= w
  <2>1. r = n \/ r < n
    BY <1>4 DEF Slots
  <2>2. CASE r = n
    BY <2>2, <1>1
  <2>3. CASE r < n
    <3>1. PICK x \in Nat : x = VersionOf(r)
      BY <1>4, VersionIsPositive DEF StoreInv
    <3> QED BY <2>3, <3>1, <1>1, <1>3, <1>4
  <2> QED BY <2>1, <2>2, <2>3
<1>5. n # 0 /\ n < n + 1
  BY DEF Slots
<1> QED BY <1>1, <1>3, <1>4, <1>5 DEF Seen

LEMMA SeenOlder ==
  ASSUME StoreInv, NEW n \in Slots, NEW v, NEW i, Seen(n, v, i),
         HasHeader(n), VersionOf(n) <= v
  PROVE  Seen(n + 1, v, i)
<1>1. i # 0
  <2>1. PICK w \in Nat \ {0} : w = VersionOf(n)
    BY VersionIsPositive DEF StoreInv
  <2> QED BY <2>1 DEF Seen
<1>2. \A r \in Slots : r < n + 1 <=> r = n \/ r < n
  BY DEF Slots
<1>3. i < n + 1
  BY <1>1 DEF Seen, Slots
<1> QED BY <1>1, <1>2, <1>3 DEF Seen

LEMMA SeenAll ==
  ASSUME NEW n \in Nat, NEW v, NEW i, Seen(n, v, i),
         \A r \in Slots : r < n \/ ~ HasHeader(r)
  PROVE  /\ i = 0 => \A r \in Slots : ~ HasHeader(r)
         /\ i # 0 => i \in Slots /\ Newest(i)
  BY DEF Seen, Newest
(* A third file is never newer than the first when the second is older:    *)
(* that is what lets the scan of WMIParser stop at the second.             *)
LEMMA ThirdNotNewer ==
  ASSUME StoreInv, HasHeader(1), HasHeader(2), HasHeader(3),
         VersionOf(2) < VersionOf(1)
  PROVE  VersionOf(3) <= VersionOf(1)
<1>1. PICK x, y, z \in Nat : x = VersionOf(1) /\ y = VersionOf(2) /\ z = VersionOf(3)
  BY VersionIsPositive DEF StoreInv, Slots
<1>2. dir[1] # ABSENT /\ dir[2] # ABSENT /\ dir[3] # ABSENT
  BY DEF HasHeader
<1>3. slot \in {1, 2, 3}
  BY DEF StoreInv, StoreTypeOK, Slots
<1>4. CASE slot = 1
  <2>1. PrevSlot = 3 /\ OldSlot = 2
    BY <1>4 DEF PrevSlot, OldSlot
  <2>2. z <= x \/ x <= y
    BY <2>1, <1>1, <1>2, <1>4 DEF StoreInv, HeaderOfSlot
  <2> QED BY <2>2, <1>1
<1>5. CASE slot = 2
  <2>1. PrevSlot = 1 /\ OldSlot = 3
    BY <1>5 DEF PrevSlot, OldSlot
  <2> QED BY <2>1, <1>2 DEF StoreInv, InTurn
<1>6. CASE slot = 3
  <2>1. PrevSlot = 2 /\ OldSlot = 1
    BY <1>6 DEF PrevSlot, OldSlot
  <2>2. x <= y
    BY <2>1, <1>1, <1>2 DEF StoreInv, InTurn
  <2> QED BY <2>2, <1>1
<1> QED BY <1>3, <1>4, <1>5, <1>6

(* A header in a torn file, and the last save when it was completed, is    *)
(* the newest.                                                             *)
LEMMA SlotIsNewest ==
  ASSUME StoreInv, HasHeader(slot),
         dir[PrevSlot] # ABSENT => VersionOf(PrevSlot) <= VersionOf(slot)
  PROVE  Newest(slot)
<1>1. PICK c, p, o \in Slots : c = slot /\ p = PrevSlot /\ o = OldSlot
  BY Turn DEF StoreInv, StoreTypeOK
<1>2. \A s \in Slots : s \in {c, p, o}
  BY <1>1, Turn DEF StoreInv, StoreTypeOK
<1>3. HasHeader(p) => VersionOf(p) <= VersionOf(c)
  BY <1>1 DEF HasHeader
<1>4. HasHeader(o) => HasHeader(p) /\ VersionOf(o) <= VersionOf(p)
  BY <1>1, Turn, FullHasHeader DEF StoreInv, StoreTypeOK, InTurn, OthersWhole, HasHeader
<1>5. HasHeader(o) => VersionOf(o) <= VersionOf(c)
  <2> SUFFICES ASSUME HasHeader(o) PROVE VersionOf(o) <= VersionOf(c)
    OBVIOUS
  <2>1. PICK x, y, z \in Nat : x = VersionOf(o) /\ y = VersionOf(p) /\ z = VersionOf(c)
    BY <1>1, <1>4, VersionIsPositive DEF StoreInv
  <2> QED BY <2>1, <1>3, <1>4
<1>6. VersionOf(c) <= VersionOf(c)
  <2>1. PICK z \in Nat : z = VersionOf(c)
    BY <1>1, VersionIsPositive DEF StoreInv
  <2> QED BY <2>1
<1>7. \A s \in Slots : HasHeader(s) => VersionOf(s) <= VersionOf(c)
  BY <1>2, <1>3, <1>5, <1>6
<1> QED BY <1>1, <1>7 DEF Newest

LEMMA TornIsNewest ==
  ASSUME StoreInv, NEW s \in Slots, HasHeader(s), ~ WrittenInFull(s)
  PROVE  Newest(s)
<1>1. s = slot
  BY DEF StoreInv, OthersWhole, HasHeader
<1>2. dir[PrevSlot] # ABSENT => VersionOf(PrevSlot) <= VersionOf(slot)
  BY <1>1 DEF StoreInv, HeaderOfSlot
<1> QED BY <1>1, <1>2, SlotIsNewest

LEMMA EndedIsNewest ==
  ASSUME StoreInv, last = Len(version), last # 0
  PROVE  Newest(slot) /\ VersionOf(slot) = version[last]
<1>1. PICK n \in Nat \ {0} : n = Len(version)
  BY DEF StoreInv, StoreTypeOK
<1>2. version # <<>>
  BY <1>1
<1>3. Ended
  BY <1>1, <1>2 DEF StoreInv, LastDone
<1>4. slot \in Slots /\ dir[slot] \in Seq(Nat \ {0}) /\ dir[slot] # ABSENT
  BY <1>2 DEF StoreInv, StoreTypeOK, Written
<1>5. HasHeader(slot) /\ dir[slot][DataHead] = n
  BY <1>1, <1>2, <1>3, <1>4, Places DEF StoreInv, Written, Ended, HasHeader
<1>6. VersionOf(slot) = version[n]
  BY <1>5 DEF VersionOf
<1>7. dir[PrevSlot] # ABSENT => VersionOf(PrevSlot) <= VersionOf(slot)
  BY <1>1, <1>2, <1>6 DEF StoreInv, Grows
<1> QED BY <1>1, <1>5, <1>6, <1>7, SlotIsNewest

(* The scan of WMIParser ends at a file that is not newer.                 *)
LEMMA StoppedScan ==
  ASSUME StoreInv, NEW n \in Slots, NEW v, NEW i, Seen(n, v, i),
         HasHeader(n), VersionOf(n) <= v
  PROVE  i \in Slots /\ HasHeader(i) /\ (Newest(i) \/ RepeatsAfter(i))
<1>1. i \in Slots /\ HasHeader(i) /\ v = VersionOf(i) /\ i < n
  <2>1. v # 0
    BY VersionIsPositive DEF StoreInv
  <2> QED BY <2>1 DEF Seen
<1>2. Seen(n + 1, v, i)
  BY SeenOlder
<1>3. CASE n = 3
  <2>1. \A r \in Slots : r < n + 1
    BY <1>3 DEF Slots
  <2>2. i # 0 /\ n + 1 \in Nat
    BY <1>1 DEF Slots
  <2> QED BY <2>1, <2>2, <1>1, <1>2, SeenAll
<1>4. CASE n # 3
  <2>1. n = 2 /\ i = 1
    BY <1>1, <1>4 DEF Slots
  <2>2. PICK x, y \in Nat : x = VersionOf(1) /\ y = VersionOf(2)
    BY <2>1, <1>1, VersionIsPositive DEF StoreInv
  <2>3. CASE x = y
    <3>1. 2 \in Slots /\ 2 > 1
      BY DEF Slots
    <3> QED BY <3>1, <2>1, <2>2, <2>3, <1>1 DEF RepeatsAfter
  <2>4. CASE x # y
    <3>1. VersionOf(2) < VersionOf(1)
      BY <2>1, <2>2, <2>4, <1>1
    <3>2. HasHeader(3) => VersionOf(3) <= VersionOf(1)
      BY <3>1, <2>1, <1>1, ThirdNotNewer
    <3>3. Newest(1)
      BY <3>2, <2>1, <2>2, <1>1 DEF Newest, Slots
    <3> QED BY <3>3, <2>1, <1>1
  <2> QED BY <2>3, <2>4
<1> QED BY <1>3, <1>4
-----------------------------------------------------------------------------
(* WMIParser.  A positive version makes every header a readable one.       *)
LEMMA ReadableIsHeader ==
  ASSUME StoreInv, NEW s \in Slots
  PROVE  CppReadable(s) <=> HasHeader(s)
  BY VersionIsPositive DEF StoreInv, CppReadable

LEMMA CppInvInit == CppInit => CppInv
  BY DEF CppInit, CppInv, CppOpening, CppMaps, Slots

(* The maps and the file picked depend on nothing else.                    *)
LEMMA PickedAlike ==
  ASSUME UNCHANGED storeVars, cindex' = cindex
  PROVE  /\ CppPicked' <=> CppPicked
         /\ DataMap' = DataMap /\ IndexMap' = IndexMap
         /\ \A f, k : CppOwn(f, IndexHead, k)' <=> CppOwn(f, IndexHead, k)
  BY DEF storeVars, CppPicked, DataMap, IndexMap, CppEntries, CppOwn, HasHeader,
         VersionOf, Newest, RepeatsAfter

LEMMA CppOpenKeeps ==
  ASSUME StoreInv, CppInv, CppOpen, UNCHANGED storeVars
  PROVE  CppInv'
<1>1. /\ cpc = "open" /\ CppOpening /\ CppMaps
      /\ UNCHANGED <<cmax, cindex, calloc, croot, dir>>
  BY DEF CppInv, CppOpen, storeVars
<1>2. CppMaps' /\ (calloc.data = <<>> /\ calloc.index = <<>>)
  BY <1>1 DEF CppMaps
<1>3. CASE ci \in Slots /\ dir[ci] # ABSENT
  <2>1. cpc' = "open" /\ ci' = ci + 1
    BY <1>1, <1>3 DEF CppOpen
  <2>2. CppOpening'
    BY <2>1, <1>1, <1>3 DEF CppOpening, Slots
  <2> QED BY <2>1, <2>2, <1>2 DEF CppInv
<1>4. CASE ~ (ci \in Slots /\ dir[ci] # ABSENT)
  <2>1. cpc' = "scan" /\ ccount' = ci - 1 /\ ci' = 1
    BY <1>1, <1>4 DEF CppOpen
  <2>2. ccount' \in 0 .. 3 /\ ci' \in 1 .. ccount' + 1
    BY <2>1, <1>1 DEF CppOpening
  <2>3. \A r \in Slots : r > ccount' => dir'[r] = ABSENT
    BY <2>1, <1>1, <1>4 DEF CppOpening, StoreInv, FromTheFirst, Slots
  <2>4. Seen(1, 0, 0)
    BY DEF Seen, Slots
  <2>5. PICK n, v, i : n = ci' /\ v = cmax' /\ i = cindex'
    OBVIOUS
  <2>6. Seen(n, v, i)'
    BY <2>1, <2>4, <2>5, <1>1, FilesSeenAlike DEF CppOpening
  <2>7. CppScanning'
    BY <2>2, <2>3, <2>5, <2>6 DEF CppScanning, Seen, HasHeader, VersionOf
  <2> QED BY <2>1, <2>7, <1>2 DEF CppInv
<1> QED BY <1>3, <1>4

LEMMA CppUnreadableKeeps ==
  ASSUME StoreInv, CppInv, CppUnreadable, UNCHANGED storeVars
  PROVE  CppInv'
<1>1. /\ cpc = "scan" /\ cpc' = "scan" /\ CppScanning /\ CppMaps
      /\ UNCHANGED <<ccount, cmax, cindex, calloc, croot, dir>>
      /\ ci' = ci + 1 /\ ci <= ccount /\ ~ CppReadable(ci)
  BY DEF CppInv, CppUnreadable, storeVars
<1>2. PICK n, v, i : n = ci /\ v = cmax /\ i = cindex
  OBVIOUS
<1>3. n \in Slots /\ Seen(n, v, i) /\ ~ HasHeader(n)
  BY <1>1, <1>2, ReadableIsHeader DEF CppScanning, Slots
<1>4. Seen(n + 1, v, i)'
  BY <1>3, SeenNone, FilesSeenAlike
<1>5. CppScanning'
  BY <1>1, <1>2, <1>4 DEF CppScanning, Seen, HasHeader, VersionOf
<1>6. CppMaps'
  BY <1>1 DEF CppMaps
<1> QED BY <1>1, <1>5, <1>6 DEF CppInv

LEMMA CppNewerKeeps ==
  ASSUME StoreInv, CppInv, CppNewer, UNCHANGED storeVars
  PROVE  CppInv'
<1>1. /\ cpc = "scan" /\ cpc' = "scan" /\ CppScanning /\ CppMaps
      /\ UNCHANGED <<ccount, calloc, croot, dir>>
      /\ ci' = ci + 1 /\ ci <= ccount /\ CppReadable(ci) /\ VersionOf(ci) > cmax
      /\ cmax' = VersionOf(ci) /\ cindex' = ci
  BY DEF CppInv, CppNewer, storeVars
<1>2. PICK n, v, i : n = ci /\ v = cmax /\ i = cindex
  OBVIOUS
<1>3. n \in Slots /\ Seen(n, v, i) /\ HasHeader(n) /\ VersionOf(n) > v
  BY <1>1, <1>2, ReadableIsHeader DEF CppScanning, Slots
<1>4. PICK w : w = VersionOf(n)
  OBVIOUS
<1>5. Seen(n + 1, w, n)'
  BY <1>3, <1>4, SeenNewer, FilesSeenAlike
<1>6. CppScanning'
  BY <1>1, <1>2, <1>4, <1>5 DEF CppScanning, Seen, HasHeader, VersionOf
<1>7. CppMaps'
  BY <1>1 DEF CppMaps
<1> QED BY <1>1, <1>6, <1>7 DEF CppInv

LEMMA CppChosenKeeps ==
  ASSUME StoreInv, CppInv, CppChosen, UNCHANGED storeVars
  PROVE  CppInv'
<1>1. /\ cpc = "scan" /\ cpc' = (IF cindex = 0 THEN "failed" ELSE "data")
      /\ CppScanning /\ CppMaps
      /\ UNCHANGED <<ci, ccount, cmax, cindex, calloc, croot, dir>>
      /\ ci <= ccount => CppReadable(ci) /\ VersionOf(ci) <= cmax
  BY DEF CppInv, CppChosen, storeVars
<1>2. PICK n, v, i : n = ci /\ v = cmax /\ i = cindex
  OBVIOUS
<1>3. Seen(n, v, i) /\ n \in Nat
  BY <1>1, <1>2 DEF CppScanning
<1>4. /\ i = 0 => \A r \in Slots : ~ HasHeader(r)
      /\ i # 0 => i \in Slots /\ HasHeader(i) /\ (Newest(i) \/ RepeatsAfter(i))
  <2>1. CASE ci <= ccount
    <3>1. n \in Slots /\ HasHeader(n) /\ VersionOf(n) <= v
      BY <2>1, <1>1, <1>2, ReadableIsHeader DEF CppScanning, Slots
    <3> QED BY <3>1, <1>3, StoppedScan DEF Slots
  <2>2. CASE ~ ci <= ccount
    <3>1. \A r \in Slots : r < n \/ ~ HasHeader(r)
      BY <2>2, <1>1, <1>2 DEF CppScanning, HasHeader, Slots
    <3> QED BY <3>1, <1>3, SeenAll DEF Newest
  <2> QED BY <2>1, <2>2
<1>5. cindex = 0 => CppFailed'
  BY <1>2, <1>4, FilesSeenAlike DEF CppFailed
<1>6. cindex # 0 => CppPicked'
  <2>1. cindex # 0 => CppPicked
    BY <1>2, <1>3, <1>4 DEF CppPicked, Seen
  <2> QED BY <2>1, <1>1, PickedAlike
<1>7. CppMaps'
  BY <1>1 DEF CppMaps
<1> QED BY <1>1, <1>5, <1>6, <1>7 DEF CppInv
(* The map of objects.data is complete when the tail after it is there,    *)
(* and so is that of index.btr.                                            *)
LEMMA CppDataKeeps ==
  ASSUME StoreInv, CppInv, CppData, UNCHANGED storeVars
  PROVE  CppInv'
<1>1. /\ cpc = "data" /\ CppPicked /\ CppMaps
      /\ UNCHANGED <<ci, ccount, cmax, cindex, dir>>
      /\ cpc' = IF CppComplete(dir[cindex], DataTail) THEN "index" ELSE "failed"
  BY DEF CppInv, CppData, storeVars
<1>2. PICK f : f = dir[cindex]
  OBVIOUS
<1>3. PICK n : n = Len(f)
  OBVIOUS
<1>4. n \in Nat
  BY <1>1, <1>2, <1>3, VersionIsPositive DEF CppPicked, StoreInv
<1>5. CASE CppHasEntries(f, DataHead, DataEntries)
  <2>1. calloc' = [calloc EXCEPT !.data = DataMap]
    BY <1>1, <1>2, <1>5 DEF CppData, DataMap
  <2>2. calloc'.data = DataMap /\ calloc'.index = calloc.index
        /\ calloc' = [data |-> calloc'.data, index |-> calloc'.index]
    BY <2>1, <1>1 DEF CppMaps
  <2> QED BY <2>2, <1>1, <1>2, <1>3, <1>4, PickedAlike, Places
          DEF CppInv, CppMaps, CppFailed, CppComplete, storeVars
<1>6. CASE ~ CppHasEntries(f, DataHead, DataEntries)
  <2>1. calloc' = calloc /\ croot' = croot
    BY <1>1, <1>2, <1>6 DEF CppData
  <2>2. ~ CppComplete(f, DataTail)
    BY <1>3, <1>4, <1>6, Places DEF CppHasEntries, CppComplete
  <2>3. cpc' = "failed" /\ CppMaps'
    BY <2>1, <2>2, <1>1, <1>2, PickedAlike DEF CppMaps
  <2>4. Len(dir[cindex]) <= IndexTail
    BY <2>2, <1>2, <1>3, <1>4, Places DEF CppComplete
  <2>5. CppFailed'
    <3>1. CppPicked' /\ Len(dir'[cindex']) <= IndexTail'
      BY <2>4, <1>1, PickedAlike DEF IndexTail, IndexHead, DataTail, DataHead
    <3> QED BY <3>1 DEF CppFailed
  <2> QED BY <2>3, <2>5 DEF CppInv
<1> QED BY <1>5, <1>6

LEMMA CppIndexKeeps ==
  ASSUME StoreInv, CppInv, CppIndex, UNCHANGED storeVars
  PROVE  CppInv'
<1>1. /\ cpc = "index" /\ CppPicked /\ CppMaps /\ calloc.data = DataMap
      /\ UNCHANGED <<ci, ccount, cmax, cindex, dir, xp>>
      /\ cpc' = IF CppComplete(dir[cindex], IndexTail) THEN "loaded" ELSE "failed"
  BY DEF CppInv, CppIndex, storeVars
<1>2. PICK f : f = dir[cindex]
  OBVIOUS
<1>3. PICK n : n = Len(f)
  OBVIOUS
<1>4. n \in Nat
  BY <1>1, <1>2, <1>3, VersionIsPositive DEF CppPicked, StoreInv
<1>5. cpc' = "failed" => CppFailed'
  <2> SUFFICES ASSUME cpc' = "failed" PROVE CppFailed'
    OBVIOUS
  <2>1. n <= IndexTail
    BY <1>1, <1>2, <1>3, <1>4, Places DEF CppComplete
  <2>2. CppPicked' /\ Len(dir'[cindex']) <= IndexTail'
    BY <2>1, <1>1, <1>2, <1>3, PickedAlike DEF IndexTail, IndexHead, DataTail, DataHead
  <2> QED BY <2>2 DEF CppFailed
<1>6. CASE CppHasEntries(f, IndexHead, IndexEntries)
  <2>1. calloc' = [calloc EXCEPT !.index = IndexMap]
    BY <1>1, <1>2, <1>6 DEF CppIndex, IndexMap
  <2>2. /\ calloc'.index = IndexMap /\ calloc'.data = DataMap
        /\ calloc' = [data |-> calloc'.data, index |-> calloc'.index]
    BY <2>1, <1>1 DEF CppMaps
  <2>3. ~ xp /\ CppOwn(f, IndexHead, 1) => croot' = <<f[IndexHead + 1], "index">>
    BY <1>1, <1>2, <1>6 DEF CppIndex, CppRoot
  <2>4. CppLoaded'
    BY <2>2, <2>3, <1>1, <1>2, PickedAlike
       DEF CppLoaded, CppOwn, IndexHead, DataTail, DataHead
  <2>5. CppMaps'
    BY <2>2, <1>1, PickedAlike DEF CppMaps
  <2> QED BY <2>4, <2>5, <1>1, <1>5, PickedAlike DEF CppInv
<1>7. CASE ~ CppHasEntries(f, IndexHead, IndexEntries)
  <2>1. calloc' = calloc /\ croot' = croot
    BY <1>1, <1>2, <1>7 DEF CppIndex
  <2>2. ~ CppComplete(f, IndexTail)
    BY <1>3, <1>4, <1>7, Places DEF CppHasEntries, CppComplete
  <2>3. cpc' = "failed" /\ CppMaps'
    BY <2>1, <2>2, <1>1, <1>2, PickedAlike DEF CppMaps
  <2> QED BY <2>3, <1>5 DEF CppInv
<1> QED BY <1>6, <1>7

LEMMA CppNextKeeps ==
  ASSUME StoreInv, CppInv, CppNext, UNCHANGED storeVars
  PROVE  CppInv'
  BY CppOpenKeeps, CppUnreadableKeeps, CppNewerKeeps, CppChosenKeeps,
     CppDataKeeps, CppIndexKeeps DEF CppNext

LEMMA CppKeptKeeps ==
  ASSUME CppInv, UNCHANGED cppVars,
         UNCHANGED storeVars \/ (cpc = "open" /\ ci = 1)
  PROVE  CppInv'
<1>1. UNCHANGED <<cpc, ci, ccount, cmax, cindex, calloc, croot>>
  BY DEF cppVars
<1>2. CASE UNCHANGED storeVars
  <2>1. (CppPicked' <=> CppPicked) /\ DataMap' = DataMap /\ IndexMap' = IndexMap
    BY <1>1, <1>2, PickedAlike
  <2>2. CppOpening => CppOpening'
    BY <1>1, <1>2 DEF CppOpening, storeVars
  <2>3. CppScanning => CppScanning'
    BY <1>1, <1>2 DEF CppScanning, Seen, HasHeader, VersionOf, storeVars
  <2>4. CppLoaded => CppLoaded'
    BY <2>1, <1>1, <1>2 DEF CppLoaded, CppOwn, storeVars, IndexHead, DataTail, DataHead
  <2>5. CppFailed => CppFailed'
    <3>1. Len(dir[cindex]) <= IndexTail => Len(dir'[cindex']) <= IndexTail'
      BY <1>1, <1>2 DEF storeVars, IndexTail, IndexHead, DataTail, DataHead
    <3> QED BY <3>1, <2>1, <1>2, FilesSeenAlike DEF CppFailed
  <2>6. CppMaps'
    BY <2>1, <1>1 DEF CppMaps, CppInv
  <2> QED BY <2>1, <2>2, <2>3, <2>4, <2>5, <2>6, <1>1 DEF CppInv
<1>3. CASE cpc = "open" /\ ci = 1
  <2>1. CppOpening'
    BY <1>1, <1>3 DEF CppInv, CppOpening, Slots
  <2>2. CppMaps'
    BY <1>1, <1>3 DEF CppInv, CppMaps
  <2> QED BY <2>1, <2>2, <1>1, <1>3 DEF CppInv
<1> QED BY <1>2, <1>3
-----------------------------------------------------------------------------
(* python-cim.                                                             *)
LEMMA PyInvInit == PyInit => PyInv
  BY DEF PyInit, PyInv

LEMMA ShortIsTorn ==
  ASSUME StoreInv, NEW s \in Slots, dir[s] # ABSENT, Len(dir[s]) < FileLength
  PROVE  SomeTorn
<1>1. Len(dir[s]) # FileLength
  BY Places DEF StoreInv, StoreTypeOK
<1> QED BY <1>1 DEF SomeTorn, WrittenInFull

LEMMA NoHeaderIsTorn ==
  ASSUME StoreInv, NEW s \in Slots, dir[s] # ABSENT, ~ HasHeader(s)
  PROVE  SomeTorn
  BY FullHasHeader DEF SomeTorn

LEMMA PyGuessKeeps ==
  ASSUME StoreInv, PyInv, PyGuess, UNCHANGED storeVars
  PROVE  PyInv'
<1>1. pi' = 1 /\ pmax' = 0 /\ pindex' = 0 /\ ppc = "guess"
  BY DEF PyInv, PyGuess
<1>2. CASE dir[1] # ABSENT /\ Len(dir[1]) >= GuessPieces
  <2>1. ppc' = "scan"
    BY <1>2 DEF PyGuess
  <2>2. Seen(1, 0, 0)
    BY DEF Seen, Slots
  <2>3. Seen(1, 0, 0)'
    BY <2>2, FilesSeenAlike
  <2>4. Seen(pi, pmax, pindex)'
    BY <2>3, <1>1 DEF Seen, HasHeader, VersionOf
  <2> QED BY <2>1, <2>4, <1>1 DEF PyInv
<1>3. CASE ~ (dir[1] # ABSENT /\ Len(dir[1]) >= GuessPieces)
  <2>1. ppc' = "raised"
    BY <1>3 DEF PyGuess
  <2>2. SomeTorn
    <3>1. CASE dir[1] = ABSENT
      BY <3>1 DEF SomeTorn
    <3>2. CASE dir[1] # ABSENT
      <4>1. GuessPieces <= 3 /\ FileLength > 3 /\ GuessPieces \in Nat /\ FileLength \in Nat
        BY Places DEF GuessPieces
      <4>2. PICK l \in Nat : l = Len(dir[1])
        BY <3>2 DEF StoreInv, StoreTypeOK, Slots
      <4>3. Len(dir[1]) < FileLength
        BY <4>1, <4>2, <3>2, <1>3
      <4> QED BY <4>3, <3>2, ShortIsTorn DEF Slots
    <3> QED BY <3>1, <3>2
  <2> QED BY <2>1, <2>2, FilesSeenAlike DEF PyInv
<1> QED BY <1>2, <1>3

LEMMA PyMissingKeeps ==
  ASSUME StoreInv, PyInv, PyMissing, UNCHANGED storeVars
  PROVE  PyInv'
<1>1. /\ ppc = "scan" /\ ppc' = "scan" /\ pi \in Slots /\ dir[pi] = ABSENT
      /\ pi' = pi + 1 /\ pmax' = pmax /\ pindex' = pindex
  BY DEF PyMissing
<1>2. PICK n, v, i : n = pi /\ v = pmax /\ i = pindex
  OBVIOUS
<1>3. n \in Slots /\ Seen(n, v, i) /\ ~ HasHeader(n)
  BY <1>1, <1>2 DEF PyInv, HasHeader
<1>4. Seen(n + 1, v, i)'
  BY <1>3, SeenNone, FilesSeenAlike
<1>5. Seen(pi, pmax, pindex)' /\ pi' \in 1 .. 4
  BY <1>1, <1>2, <1>4 DEF Seen, HasHeader, VersionOf, Slots
<1> QED BY <1>1, <1>5 DEF PyInv

LEMMA PyShortKeeps ==
  ASSUME StoreInv, PyInv, PyShort, UNCHANGED storeVars
  PROVE  PyInv'
<1>1. ppc' = "raised" /\ SomeTorn
  BY NoHeaderIsTorn DEF PyShort
<1> QED BY <1>1, FilesSeenAlike DEF PyInv

LEMMA PyHeaderKeeps ==
  ASSUME StoreInv, PyInv, PyHeader, UNCHANGED storeVars
  PROVE  PyInv'
<1>1. ppc = "scan" /\ ppc' = "scan" /\ pi \in Slots /\ HasHeader(pi) /\ pi' = pi + 1
  BY DEF PyHeader
<1>2. PICK n, v, i : n = pi /\ v = pmax /\ i = pindex
  OBVIOUS
<1>3. n \in Slots /\ Seen(n, v, i) /\ HasHeader(n)
  BY <1>1, <1>2 DEF PyInv
<1>4. PICK w : w = VersionOf(n)
  OBVIOUS
<1>5. w \in Nat /\ v \in Nat
  BY <1>3, <1>4, VersionIsPositive, SeenNumbers DEF StoreInv
<1>6. Seen(pi, pmax, pindex)'
  <2>1. CASE w > v
    <3>1. pmax' = w /\ pindex' = n
      BY <2>1, <1>2, <1>4 DEF PyHeader, PyTakes
    <3>2. Seen(n + 1, w, n)'
      BY <2>1, <1>3, <1>4, SeenNewer, FilesSeenAlike
    <3> QED BY <3>1, <3>2, <1>1, <1>2 DEF Seen, HasHeader, VersionOf
  <2>2. CASE ~ w > v
    <3>1. pmax' = v /\ pindex' = i
      BY <2>2, <1>2, <1>4 DEF PyHeader, PyTakes
    <3>2. w <= v
      BY <2>2, <1>5
    <3>3. Seen(n + 1, v, i)'
      BY <3>2, <1>3, <1>4, SeenOlder, FilesSeenAlike
    <3> QED BY <3>1, <3>3, <1>1, <1>2 DEF Seen, HasHeader, VersionOf
  <2> QED BY <2>1, <2>2
<1>7. pi' \in 1 .. 4
  BY <1>1 DEF Slots
<1> QED BY <1>1, <1>6, <1>7 DEF PyInv

LEMMA PyChosenKeeps ==
  ASSUME StoreInv, PyInv, PyChosen, UNCHANGED storeVars
  PROVE  PyInv'
<1>1. /\ ppc = "scan" /\ pi \notin Slots /\ pindex' = pindex
      /\ ppc' = IF pindex = 0 THEN "raised" ELSE "parse"
  BY DEF PyChosen
<1>2. PICK n, v, i : n = pi /\ v = pmax /\ i = pindex
  OBVIOUS
<1>3. n = 4 /\ Seen(n, v, i)
  BY <1>1, <1>2 DEF PyInv, Slots
<1>4. /\ i = 0 => \A r \in Slots : ~ HasHeader(r)
      /\ i # 0 => i \in Slots /\ Newest(i)
  BY <1>3, SeenAll DEF Slots
<1>5. i = 0 => SomeTorn
  BY <1>4, NoHeaderIsTorn DEF SomeTorn, Slots
<1> QED BY <1>1, <1>2, <1>4, <1>5, FilesSeenAlike DEF PyInv

LEMMA PyParseKeeps ==
  ASSUME StoreInv, PyInv, PyParse, UNCHANGED storeVars
  PROVE  PyInv'
<1>1. ppc = "parse" /\ pindex' = pindex /\ pindex \in Slots /\ Newest(pindex)
  BY DEF PyInv, PyParse
<1>2. PICK i : i = pindex
  OBVIOUS
<1>3. i \in Slots /\ Newest(i)' /\ HasHeader(i)
  BY <1>1, <1>2, FilesSeenAlike DEF Newest
<1>4. pindex' \in Slots /\ Newest(pindex)'
  BY <1>1, <1>2, <1>3 DEF Newest, HasHeader, VersionOf
<1>5. CASE Len(dir[i]) >= IndexTail
  <2>1. ppc' = "loaded" /\ PyLoaded'
    BY <1>2, <1>5 DEF PyParse, PyLoaded, storeVars, IndexTail, IndexHead, DataTail, DataHead
  <2> QED BY <2>1, <1>4 DEF PyInv
<1>6. CASE ~ Len(dir[i]) >= IndexTail
  <2>1. ppc' = "raised"
    BY <1>2, <1>6 DEF PyParse
  <2>2. PICK n \in Nat : n = Len(dir[i])
    BY <1>3, VersionIsPositive DEF StoreInv
  <2>3. Len(dir[i]) < FileLength
    BY <2>2, <1>6, Places
  <2>4. SomeTorn
    BY <2>3, <1>3, ShortIsTorn DEF HasHeader
  <2> QED BY <2>1, <2>4, FilesSeenAlike DEF PyInv
<1> QED BY <1>5, <1>6

LEMMA PyNextKeeps ==
  ASSUME StoreInv, PyInv, PyNext, UNCHANGED storeVars
  PROVE  PyInv'
  BY PyGuessKeeps, PyMissingKeeps, PyShortKeeps, PyHeaderKeeps, PyChosenKeeps,
     PyParseKeeps DEF PyNext

LEMMA PyKeptKeeps ==
  ASSUME PyInv, UNCHANGED pyVars, UNCHANGED storeVars \/ ppc = "guess"
  PROVE  PyInv'
<1>1. UNCHANGED <<ppc, pi, pmax, pindex, pmaps>>
  BY DEF pyVars
<1>2. CASE UNCHANGED storeVars
  <2>1. SomeTorn' <=> SomeTorn
    BY <1>2, FilesSeenAlike
  <2>2. Seen(pi, pmax, pindex) => Seen(pi, pmax, pindex)'
    BY <1>1, <1>2 DEF storeVars, Seen, HasHeader, VersionOf
  <2>3. Newest(pindex) => Newest(pindex)'
    BY <1>1, <1>2 DEF storeVars, Newest, HasHeader, VersionOf
  <2>4. PyLoaded => PyLoaded'
    BY <1>1, <1>2 DEF storeVars, PyLoaded, IndexTail, IndexHead, DataTail, DataHead
  <2> QED BY <2>1, <2>2, <2>3, <2>4, <1>1 DEF PyInv
<1>3. CASE ppc = "guess"
  BY <1>1, <1>3 DEF PyInv
<1> QED BY <1>2, <1>3
-----------------------------------------------------------------------------
LEMMA MapInvInit == Init => MapInv
<1> SUFFICES ASSUME Init PROVE MapInv  OBVIOUS
<1>1. Begun
  BY DEF Init, CppInit, PyInit, Begun
<1> QED BY <1>1, StoreInvInit, CppInvInit, PyInvInit DEF Init, MapInv

LEMMA MapInvNext == MapInv /\ [Next]_vars => MapInv'
<1> SUFFICES ASSUME MapInv, [Next]_vars PROVE MapInv'
  OBVIOUS
<1> USE DEF MapInv
<1>1. CASE Write
  <2>1. writer # "stopped" /\ UNCHANGED <<cppVars, pyVars>>
    BY <1>1 DEF Write, BeginSave, WritePiece, EndSave, Crash, Stop
  <2>2. cpc = "open" /\ ci = 1 /\ ppc = "guess"
    BY <2>1 DEF Begun
  <2>3. StoreInv'
    BY <1>1, BeginSaveKeeps, WritePieceKeeps, EndSaveKeeps, CrashKeeps, StopKeeps DEF Write
  <2>4. CppInv' /\ PyInv'
    BY <2>1, <2>2, CppKeptKeeps, PyKeptKeeps
  <2>5. Begun'
    BY <2>1, <2>2 DEF Begun, cppVars, pyVars
  <2> QED BY <2>3, <2>4, <2>5
<1>2. CASE Cpp
  <2>1. writer' = "stopped" /\ UNCHANGED storeVars /\ UNCHANGED pyVars
    BY <1>2 DEF Cpp, storeVars
  <2>2. CppInv' /\ PyInv' /\ StoreInv'
    BY <1>2, <2>1, CppNextKeeps, PyKeptKeeps, StoreKeptKeeps DEF Cpp
  <2> QED BY <2>1, <2>2 DEF Begun
<1>3. CASE Py
  <2>1. writer' = "stopped" /\ UNCHANGED storeVars /\ UNCHANGED cppVars
    BY <1>3 DEF Py, storeVars
  <2>2. CppInv' /\ PyInv' /\ StoreInv'
    BY <1>3, <2>1, PyNextKeeps, CppKeptKeeps, StoreKeptKeeps DEF Py
  <2> QED BY <2>1, <2>2 DEF Begun
<1>4. CASE UNCHANGED vars
  <2>1. UNCHANGED storeVars /\ UNCHANGED cppVars /\ UNCHANGED pyVars
    BY <1>4 DEF vars
  <2>2. Begun'
    BY <2>1 DEF Begun, storeVars, cppVars, pyVars
  <2> QED BY <2>1, <2>2, StoreKeptKeeps, CppKeptKeeps, PyKeptKeeps
<1> QED BY <1>1, <1>2, <1>3, <1>4 DEF Next

(* Whatever saves were cut short, the directory is as the readers rely on  *)
(* it being: at most the file of the save begun last is torn, the others   *)
(* are of the saves before it in turn (MAX_MAPPING_FILES slots).           *)
THEOREM MapInvariance == Spec => []MapInv
<1>1. Init => MapInv
  BY MapInvInit
<1>2. MapInv /\ [Next]_vars => MapInv'
  BY MapInvNext
<1> QED BY <1>1, <1>2, PTL DEF Spec

(* FindCurrentMappingFile and _current_mapping_file pick a file with the   *)
(* newest header, WMIParser's scan but for a version repeated after it.    *)
THEOREM NewestIsPicked == Spec => []PicksNewest
<1>1. MapInv => PicksNewest
  <2> SUFFICES ASSUME MapInv PROVE PicksNewest
    OBVIOUS
  <2>1. cpc \in {"data", "index", "loaded"} => Newest(cindex) \/ RepeatsAfter(cindex)
    BY DEF MapInv, CppInv, CppPicked
  <2>2. ppc \in {"parse", "loaded"} => Newest(pindex)
    BY DEF MapInv, PyInv
  <2> QED BY <2>1, <2>2 DEF PicksNewest
<1> QED BY <1>1, MapInvariance, PTL

(* The entries CppEntries makes of one map are of the save of its header   *)
(* or unavailable, outside XP.                                             *)
LEMMA EntriesOfOneSave ==
  ASSUME ~ xp, NEW f, NEW h, NEW n \in Nat, NEW j \in 1 .. n
  PROVE  CppEntries(f, h, n)[j] \in {f[h], NOPAGE}
  BY DEF CppEntries, CppOwn

(* ParseMappingRecords loads no map with the pages of two saves, and the   *)
(* root page of the index is that of the index map.                        *)
THEOREM NoMixedMap == Spec => []MapsOfOneSave
<1>1. MapInv => MapsOfOneSave
  <2> SUFFICES ASSUME MapInv, ~ xp PROVE MapsOfOneSave
    BY DEF MapsOfOneSave
  <2>1. PICK f : f = dir[cindex]
    OBVIOUS
  <2>2. /\ calloc.data = <<>> \/ calloc.data = CppEntries(f, DataHead, DataEntries)
        /\ calloc.index = <<>> \/ calloc.index = CppEntries(f, IndexHead, IndexEntries)
    BY <2>1 DEF MapInv, CppInv, CppMaps, DataMap, IndexMap
  <2>3. ASSUME NEW map \in {"data", "index"}, NEW j \in DOMAIN calloc[map],
               NEW k \in DOMAIN calloc[map]
        PROVE  \/ NOPAGE \in {calloc[map][j], calloc[map][k]}
               \/ calloc[map][j] = calloc[map][k]
    <3>1. PICK h, n : /\ n \in Nat
                      /\ calloc[map] = <<>> \/ calloc[map] = CppEntries(f, h, n)
      <4>1. DataEntries \in Nat /\ IndexEntries \in Nat
        OBVIOUS
      <4>2. CASE map = "data"
        BY <4>1, <4>2, <2>2
      <4>3. CASE map = "index"
        BY <4>1, <4>3, <2>2
      <4> QED BY <4>2, <4>3
    <3>2. calloc[map] # <<>>
      BY <2>3
    <3>3. calloc[map] = CppEntries(f, h, n) /\ DOMAIN calloc[map] = 1 .. n
      BY <3>1, <3>2 DEF CppEntries
    <3>4. calloc[map][j] \in {f[h], NOPAGE} /\ calloc[map][k] \in {f[h], NOPAGE}
      BY <3>1, <3>3, EntriesOfOneSave
    <3> QED BY <3>4
  <2>4. ASSUME cpc = "loaded"
        PROVE  croot = <<dir[cindex][IndexHead], "index">> \/ calloc.index[1] = NOPAGE
    <3>1. CppLoaded
      BY <2>4 DEF MapInv, CppInv
    <3>2. CASE CppOwn(f, IndexHead, 1)
      <4>1. f[IndexHead + 1] = f[IndexHead]
        BY <3>2 DEF CppOwn
      <4> QED BY <4>1, <3>1, <3>2, <2>1 DEF CppLoaded
    <3>3. CASE ~ CppOwn(f, IndexHead, 1)
      BY <3>1, <3>3, <2>1, Places DEF CppLoaded, IndexMap, CppEntries
    <3> QED BY <3>2, <3>3
  <2> QED BY <2>3, <2>4 DEF MapsOfOneSave
<1> QED BY <1>1, MapInvariance, PTL
(* The pieces of a file written in full are all those of its header, and   *)
(* both readers read a whole map out of it.                                *)
LEMMA WholePieces ==
  ASSUME StoreInv, NEW s \in Slots, WrittenInFull(s)
  PROVE  /\ dir[s][DataHead] \in Nat
         /\ \A k \in 1 .. FileLength : dir[s][k] = dir[s][DataHead]
  BY FullHasHeader, VersionIsPositive DEF StoreInv, WrittenInFull

LEMMA WholeEntries ==
  ASSUME StoreInv, NEW s \in Slots, WrittenInFull(s),
         NEW h \in Nat \ {0}, NEW n \in Nat, h + n < FileLength
  PROVE  CppEntries(dir[s], h, n) = [k \in 1 .. n |-> dir[s][DataHead]]
<1>1. PICK f, v : f = dir[s] /\ v = dir[s][DataHead]
  OBVIOUS
<1>2. f[h] = v /\ \A k \in 1 .. n : f[h + k] = v
  BY <1>1, Places, WholePieces
<1> QED BY <1>1, <1>2 DEF CppEntries, CppOwn

LEMMA NaturalSlice ==
  ASSUME NEW f, NEW a \in Int, NEW b \in Int, a <= b + 1,
         \A k \in a .. b : f[k] \in Nat
  PROVE  /\ SubSeq(f, a, b) \in Seq(Nat)
         /\ Len(SubSeq(f, a, b)) = b - a + 1
         /\ \A k \in 1 .. b - a + 1 : SubSeq(f, a, b)[k] = f[a + k - 1]
<1>1. /\ SubSeq(f, a, b) \in Seq(Nat)
      /\ Len(SubSeq(f, a, b)) = IF a <= b THEN b - a + 1 ELSE 0
      /\ \A k \in 1 .. b - a + 1 : SubSeq(f, a, b)[k] = f[a + k - 1]
  BY ONLY SubSeqProperties, a \in Int, b \in Int, \A k \in a .. b : f[k] \in Nat, SMTT(30)
<1>2. PICK l : l = Len(SubSeq(f, a, b))
  OBVIOUS
<1>3. l = b - a + 1
  <2>1. l = IF a <= b THEN b - a + 1 ELSE 0
    BY ONLY <1>1, <1>2
  <2> QED BY ONLY <2>1, a \in Int, b \in Int, a <= b + 1
<1> QED BY ONLY <1>1, <1>2, <1>3

LEMMA WholeSlice ==
  ASSUME StoreInv, NEW s \in Slots, WrittenInFull(s),
         NEW h \in Nat \ {0}, NEW n \in Nat, h + n < FileLength
  PROVE  SubSeq(dir[s], h + 1, h + n) = [k \in 1 .. n |-> dir[s][DataHead]]
<1>1. PICK f, v : f = dir[s] /\ v = dir[s][DataHead]
  OBVIOUS
<1>2. \A k \in h + 1 .. h + n : f[k] = v /\ f[k] \in Nat
  BY <1>1, Places, WholePieces
<1>3. PICK a, b, g : a = h + 1 /\ b = h + n /\ g = SubSeq(f, a, b)
  OBVIOUS
<1>4. /\ g \in Seq(Nat)
      /\ Len(g) = b - a + 1
      /\ \A k \in 1 .. b - a + 1 : g[k] = f[a + k - 1]
  <2>1. a \in Int /\ b \in Int /\ a <= b + 1
    BY <1>3
  <2>2. \A k \in a .. b : f[k] \in Nat
    BY ONLY <1>2, <1>3
  <2> QED BY ONLY <2>1, <2>2, <1>3, NaturalSlice
<1>5. b - a + 1 = n /\ Len(g) = n
  BY <1>3, <1>4
<1>6. \A k \in 1 .. n : g[k] = v
  <2>1. \A k \in 1 .. n : a + k - 1 \in h + 1 .. h + n
    BY <1>3
  <2> QED BY ONLY <2>1, <1>2, <1>4, <1>5
<1>7. g \in [1 .. n -> Nat]
  BY <1>4, <1>5, LenProperties
<1>8. g = [k \in 1 .. n |-> v]
  BY <1>6, <1>7
<1> QED BY <1>1, <1>3, <1>8

(* After a save that was completed, with no torn file left, neither reader *)
(* fails, and every page either of them maps is of the newest version.     *)
THEOREM LastSaveIsLoaded == Spec => []LastSaveLoaded
<1>1. MapInv => LastSaveLoaded
  <2> SUFFICES ASSUME MapInv, CppDone, PyDone, last = Len(version), last # 0,
                      \A s \in Slots : dir[s] # ABSENT => WrittenInFull(s)
               PROVE  /\ cpc = "loaded" /\ ppc = "loaded"
                      /\ \A map \in {"data", "index"} :
                           /\ \A k \in DOMAIN calloc[map] :
                                /\ calloc[map][k] # NOPAGE
                                /\ \/ version[calloc[map][k]] = version[last]
                                   \/ RepeatsAfter(cindex)
                           /\ \A k \in DOMAIN pmaps[map] :
                                version[pmaps[map][k]] = version[last]
    BY DEF LastSaveLoaded
  <2> USE DEF MapInv
  <2>1. slot \in Slots /\ Newest(slot) /\ VersionOf(slot) = version[last]
    BY EndedIsNewest DEF StoreInv, StoreTypeOK
  <2>2. HasHeader(slot) /\ dir[1] # ABSENT
    BY <2>1 DEF Newest, HasHeader, StoreInv, FromTheFirst, Slots
  <2>3. ppc = "loaded"
    BY <2>2 DEF PyDone, PyInv, SomeTorn
  <2>4. ASSUME CppPicked PROVE WrittenInFull(cindex) /\ Len(dir[cindex]) = FileLength
    BY <2>4 DEF CppPicked, HasHeader, WrittenInFull
  <2>5. cpc = "loaded"
    <3>1. cpc # "failed"
      BY <2>1, <2>2, <2>4, Places DEF CppInv, CppFailed
    <3> QED BY <3>1 DEF CppDone
  <2>6. ASSUME NEW s \in Slots, Newest(s) PROVE VersionOf(s) = version[last]
    <3>1. PICK x, y \in Nat : x = VersionOf(s) /\ y = VersionOf(slot)
      BY <2>1, <2>2, <2>6, VersionIsPositive DEF Newest, StoreInv
    <3>2. x <= y /\ y <= x
      BY <3>1, <2>1, <2>6 DEF Newest
    <3> QED BY <3>1, <3>2, <2>1
  <2>7. /\ DataHead \in Nat \ {0} /\ DataEntries \in Nat
        /\ IndexHead \in Nat \ {0} /\ IndexEntries \in Nat
        /\ DataHead + DataEntries < FileLength /\ IndexHead + IndexEntries < FileLength
    BY Places
  <2>8. ASSUME NEW map \in {"data", "index"}, NEW k \in DOMAIN calloc[map]
        PROVE  /\ calloc[map][k] # NOPAGE
               /\ version[calloc[map][k]] = version[last] \/ RepeatsAfter(cindex)
    <3>1. /\ CppPicked /\ cindex \in Slots /\ HasHeader(cindex)
          /\ calloc.data = DataMap /\ calloc.index = IndexMap
      BY <2>5 DEF CppInv, CppLoaded, CppPicked
    <3>2. PICK v : v = dir[cindex][DataHead]
      OBVIOUS
    <3>3. /\ DataMap = [l \in 1 .. DataEntries |-> v]
          /\ IndexMap = [l \in 1 .. IndexEntries |-> v]
      <4>1. PICK s \in Slots : s = cindex /\ WrittenInFull(s)
        BY <3>1, <2>4
      <4>2. CppEntries(dir[s], DataHead, DataEntries) = [l \in 1 .. DataEntries |-> dir[s][DataHead]]
        BY <4>1, <2>7, WholeEntries
      <4>3. CppEntries(dir[s], IndexHead, IndexEntries) = [l \in 1 .. IndexEntries |-> dir[s][DataHead]]
        BY <4>1, <2>7, WholeEntries
      <4> QED BY <4>1, <4>2, <4>3, <3>2 DEF DataMap, IndexMap
    <3>4. calloc[map][k] = v
      BY <3>1, <3>3
    <3>5. v \in Nat
      BY <3>1, <3>2, VersionIsPositive DEF StoreInv
    <3>6. version[v] = version[last] \/ RepeatsAfter(cindex)
      BY <3>1, <3>2, <2>6 DEF CppPicked, VersionOf
    <3> QED BY <3>4, <3>5, <3>6, NoPage
  <2>9. ASSUME NEW map \in {"data", "index"}, NEW k \in DOMAIN pmaps[map]
        PROVE  version[pmaps[map][k]] = version[last]
    <3>1. PyLoaded /\ pindex \in Slots /\ Newest(pindex)
      BY <2>3 DEF PyInv
    <3>2. WrittenInFull(pindex) /\ VersionOf(pindex) = version[last]
      BY <3>1, <2>6 DEF Newest, HasHeader
    <3>3. PICK f, v : f = dir[pindex] /\ v = dir[pindex][DataHead]
      OBVIOUS
    <3>4. PICK h, n : /\ h \in Nat \ {0} /\ n \in Nat /\ h + n < FileLength
                      /\ pmaps[map] = SubSeq(f, h + 1, h + n)
      <4>1. CASE map = "data"
        BY <4>1, <3>1, <3>3, <2>7 DEF PyLoaded
      <4>2. CASE map = "index"
        BY <4>2, <3>1, <3>3, <2>7 DEF PyLoaded
      <4> QED BY <4>1, <4>2
    <3>5. pmaps[map][k] = v
      <4>1. PICK s \in Slots : s = pindex /\ WrittenInFull(s)
        BY <3>1, <3>2
      <4>2. SubSeq(dir[s], h + 1, h + n) = [l \in 1 .. n |-> dir[s][DataHead]]
        <5>1. StoreInv /\ s \in Slots /\ WrittenInFull(s)
          BY <4>1
        <5> QED BY ONLY <5>1, <3>4, WholeSlice
      <4>3. pmaps[map] = [l \in 1 .. n |-> v]
        BY <4>1, <4>2, <3>3, <3>4
      <4> QED BY <4>3
    <3> QED BY <3>2, <3>3, <3>5 DEF VersionOf
  <2> QED BY <2>3, <2>5, <2>8, <2>9
<1> QED BY <1>1, MapInvariance, PTL

(* FindCurrentMappingFile and Parse fail on a directory whose newest file  *)
(* was written in full only when a file before it has a header as new.     *)
THEOREM FailureMeansTorn == Spec => []FailsOnlyIfTorn
<1>1. MapInv => FailsOnlyIfTorn
  <2> SUFFICES ASSUME MapInv, cpc = "failed", NEW s \in Slots, Newest(s), WrittenInFull(s)
               PROVE  \E r \in Slots : r < s /\ (dir[r] = ABSENT \/ Newest(r))
    BY DEF FailsOnlyIfTorn
  <2> USE DEF MapInv
  <2>1. HasHeader(s)
    BY DEF Newest
  <2>2. CppPicked /\ Len(dir[cindex]) <= IndexTail
    BY <2>1 DEF CppInv, CppFailed
  <2>3. cindex \in Slots /\ HasHeader(cindex)
    BY <2>2 DEF CppPicked
  <2>4. PICK n \in Nat : n = Len(dir[cindex])
    BY <2>3, VersionIsPositive DEF StoreInv
  <2>5. ~ WrittenInFull(cindex)
    BY <2>2, <2>4, Places DEF WrittenInFull
  <2>6. Newest(cindex)
    BY <2>3, <2>5, TornIsNewest
  <2>7. cindex # s /\ ~ s < cindex
    <3>1. PICK x, y \in Nat : x = VersionOf(s) /\ y = VersionOf(cindex)
      BY <2>1, <2>3, VersionIsPositive DEF StoreInv
    <3>2. y <= x
      BY <3>1, <2>3 DEF Newest
    <3>3. s < cindex => x < y
      BY <3>1, <2>1, <2>2 DEF CppPicked
    <3> QED BY <3>1, <3>2, <3>3, <2>5
  <2>8. cindex < s
    BY <2>3, <2>7 DEF Slots
  <2> QED BY <2>3, <2>6, <2>8
<1> QED BY <1>1, MapInvariance, PTL
=============================================================================
