----------------------------- MODULE VhdReading -----------------------------
(* getVHDInfo() and getReadStream() (upload/vhdTools.js) on a chain of VHDs, *)
(* and the streams that merge a VHD with its parent (streamMerger.js): what  *)
(* the upload reads of one block, or a part of it.  Which blocks it reads is *)
(* not part of the module.                                                   *)
(*                                                                           *)
(* The VHD to be uploaded is level 1, its parent 2, and so on; the root is   *)
(* fixed or dynamic, all others are difference VHDs with blocks of the same  *)
(* size.  A sector is delivered in pieces (Halves), its data is the level    *)
(* that wrote it, or 0; what was not written of an allocated block is 0.     *)
EXTENDS Integers, Sequences, FiniteSets

CONSTANTS Depth,            \* VHDs in the chain
          MaxTableEntries,  \* blocks of each of them, at most
          NumSectors        \* sectors of a block

ASSUME ChainAssumption ==
  Depth \in Nat \ {0} /\ MaxTableEntries \in Nat \ {0} /\ NumSectors \in Nat \ {0}

Levels == 1 .. Depth
Entries == 0 .. MaxTableEntries - 1
Sectors == 0 .. NumSectors - 1
Halves == 2

Parent == 1  \* baseStream
Own == 2     \* stream

VARIABLES fixedRoot,     \* the disk type of the root
          bats,          \* per level, the blocks its table has
          mask,          \* per level, the sectors written of the block that is read
          block, first, last,  \* the range: sectors first..last of block
          unread,        \* per level, what its file has yet to deliver
          buffs, bit,    \* per level, of the stream that merges it with its parent
          ended,         \* <<level, source>>: the 'end' events it has heard
          out,           \* what the upload has got
          over           \* "no", "end" or "error": what the upload has heard

range == <<fixedRoot, bats, mask, block, first, last>>
readingVars == <<range, unread, buffs, bit, ended, out, over>>

IsDiff(l) == l < Depth

(* buildFullIndices(): the blocks that l or a parent has; with a fixed root  *)
(* nothing is built.                                                         *)
FullIndices(l) == UNION {bats[k] : k \in l .. Depth}

IsInParent(l) == IsDiff(l) /\ (fixedRoot \/ block \in FullIndices(l + 1))

(* How createNextStream() reads the block: from the file itself, from the    *)
(* parent, from both by the bitmap, or as zeros.                             *)
Mode(l) ==
  IF ~IsDiff(l) /\ fixedRoot THEN "own"
  ELSE IF block \notin bats[l] THEN IF IsInParent(l) THEN "parent" ELSE "zeros"
  ELSE IF ~IsInParent(l) \/ mask[l] = Sectors THEN "own"
  ELSE IF mask[l] = {} THEN "parent"
  ELSE "merge"

(* Is the stream of l listened to?                                           *)
Active(l) == \A k \in 1 .. l - 1 : Mode(k) \in {"parent", "merge"}

Piece(tag, s, h) == [tag |-> tag, at |-> s * Halves + h]

(* The range, with the data that data gives to each sector.                  *)
Pieces(data) ==
  [k \in 1 .. (last - first + 1) * Halves |->
     LET s == first + (k - 1) \div Halves
     IN  Piece(data[s], s, (k - 1) % Halves)]

FileContent(l) ==
  Pieces([s \in Sectors |-> IF Mode(l) # "zeros" /\ s \in mask[l] THEN l ELSE 0])

(* Mutant: the bitmap is read from its first bit on.                         *)
StartBitNone == 0

(* startPosWithinBlock / SECTOR_SIZE                                         *)
StartBit == first

ReadingInit ==
  /\ fixedRoot \in BOOLEAN
  /\ bats \in [Levels -> SUBSET Entries]
  /\ fixedRoot => bats[Depth] = Entries
  /\ block \in Entries
  /\ mask \in [Levels -> SUBSET Sectors]
  /\ \A l \in Levels : block \notin bats[l] => mask[l] = {}
  /\ first \in Sectors /\ last \in first .. NumSectors - 1
  /\ unread = [l \in Levels |-> FileContent(l)]
  /\ buffs = [l \in Levels |-> [source \in {Parent, Own} |-> << >>]]
  /\ bit = [l \in Levels |-> StartBit]
  /\ ended = {} /\ out = << >> /\ over = "no"
-----------------------------------------------------------------------------
(* The events of the file of level l reach level k by ...                    *)
Source(l, k) == IF k = l THEN Own ELSE Parent

Smaller(m, n) == IF m < n THEN m ELSE n
From(seq, n) == SubSeq(seq, n + 1, Len(seq))

(* The buffers of level k, with the data that it gets.                       *)
Held(k, source, data) == [buffs[k] EXCEPT ![source] = @ \o data]

(* processBuffers() merges as many sectors as both buffers hold entirely.    *)
Whole(held) ==
  Smaller(Len(held[Parent]) \div Halves, Len(held[Own]) \div Halves) * Halves

(* Each sector comes from the file or from the parent, as its bit says.      *)
Merged(k, held) ==
  [i \in 1 .. Whole(held) |->
     held[IF bit[k] + (i - 1) \div Halves \in mask[k] THEN Own ELSE Parent][i]]

Passed(k, source, data) ==
  IF Mode(k) = "merge" THEN Merged(k, Held(k, source, data)) ELSE data

(* What reaches level k of the data that the file of level l delivers; what  *)
(* reaches level 0 goes to the upload.  A level whose buffers do not hold a  *)
(* sector passes nothing on, and the levels above it see nothing.            *)
Reaching(l, data) ==
  LET got[k \in 0 .. l] ==
        IF k = l THEN data ELSE Passed(k + 1, Source(l, k + 1), got[k + 1])
  IN  got

(* onData(), up the chain of streams.                                        *)
OnData(l, data) ==
  LET got == Reaching(l, data)
      held(k) == Held(k, Source(l, k), got[k])
      Merges(k) == k <= l /\ Mode(k) = "merge"
  IN  /\ buffs' = [k \in Levels |->
                     IF Merges(k) THEN [i \in {Parent, Own} |-> From(held(k)[i], Whole(held(k)))]
                     ELSE buffs[k]]
      /\ bit' = [k \in Levels |->
                   IF Merges(k) THEN bit[k] + Whole(held(k)) \div Halves ELSE bit[k]]
      /\ out' = out \o got[0]

(* The 'end' events level k has heard with this one.                         *)
EndCount(l, k) ==
  Cardinality({source \in {Parent, Own} : <<k, source>> \in ended \/ source = Source(l, k)})

(* Mutant: endCount++ === 2.                                                 *)
AwaitsThird(l, k) == Mode(k) = "merge" /\ EndCount(l, k) <= 2

(* Unless ++endCount === 2.                                                  *)
AwaitsOther(l, k) == Mode(k) = "merge" /\ EndCount(l, k) < 2

(* One of the two had more to say.                                           *)
HasLeftOver(k) == Mode(k) = "merge" /\ \E source \in {Parent, Own} : buffs'[k][source] # << >>

(* The levels that hear of the end of the file of level l; 0 is the upload.  *)
Hears(l) ==
  {k \in 0 .. l : \A j \in k + 1 .. l : ~AwaitsOther(l, j) /\ ~HasLeftOver(j)}

(* onEnd(): a merged stream ends when both have ended, and fails when one of *)
(* them had more to say; the others end with their source.                   *)
OnEnd(l) ==
  /\ ended' = ended \cup {<<k, Source(l, k)>> : k \in Hears(l) \ {0}}
  /\ over' = IF 0 \in Hears(l) THEN "end"
             ELSE IF \E k \in Hears(l) \ {0} : ~AwaitsOther(l, k) /\ HasLeftOver(k)
               THEN "error" ELSE over

Reads(l) ==
  /\ over = "no" /\ Active(l) /\ Mode(l) \in {"own", "merge"}
  /\ <<l, Own>> \notin ended

(* The file of level l delivers a buffer of any size.                        *)
FileData(l) ==
  /\ Reads(l)
  /\ \E n \in 1 .. Len(unread[l]) :
       /\ OnData(l, SubSeq(unread[l], 1, n))
       /\ unread' = [unread EXCEPT ![l] = From(@, n)]
  /\ UNCHANGED <<range, ended, over>>

FileEnd(l) ==
  /\ Reads(l)
  /\ unread[l] = << >>
  /\ UNCHANGED <<range, unread, buffs, bit, out>>
  /\ OnEnd(l)

FileError(l) ==
  /\ Reads(l)
  /\ over' = "error"
  /\ UNCHANGED <<range, unread, buffs, bit, ended, out>>

(* A block that is nowhere is filled with zeros up to the end of the range.  *)
FillToPos(l) ==
  /\ over = "no" /\ Active(l) /\ Mode(l) = "zeros"
  /\ <<l, Own>> \notin ended
  /\ OnData(l, unread[l])
  /\ unread' = [unread EXCEPT ![l] = << >>]
  /\ OnEnd(l)
  /\ UNCHANGED range

Delivers == \E l \in Levels : FileData(l) \/ FileEnd(l) \/ FillToPos(l)

ReadingNext == Delivers \/ \E l \in Levels : FileError(l)

(* Every file that has not failed delivers what it has and ends.             *)
ReadingSpec == ReadingInit /\ [][ReadingNext]_readingVars /\ WF_readingVars(Delivers)
-----------------------------------------------------------------------------
(* The youngest level from l on that has written the sector, 0 if none has.  *)
YoungestFrom(l, s) ==
  LET writers == {k \in l .. Depth : s \in mask[k]}
  IN  IF writers = {} THEN 0 ELSE CHOOSE k \in writers : \A j \in writers : k <= j

Youngest(s) == YoungestFrom(1, s)

(* What is delivered, in buffers of any size, in any order of the files and  *)
(* through any number of merging streams, is the data of the youngest VHD of *)
(* the chain that has the sector, in order; and all of it when the stream    *)
(* ends without an error.                                                    *)
SectorsAreTheYoungest ==
  LET disk == Pieces([s \in Sectors |-> Youngest(s)])
  IN  /\ Len(out) <= Len(disk)
      /\ out = SubSeq(disk, 1, Len(out))
      /\ over = "end" => out = disk

(* A stream that nobody listens to, or one that has ended before the other,  *)
(* does not keep the upload waiting.                                         *)
StreamEnds == <>(over # "no")
=============================================================================
