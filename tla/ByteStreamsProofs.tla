-------------------------- MODULE ByteStreamsProofs --------------------------
(***************************************************************************)
(* Theorems about the conversions of SectorUnits, for every width of the   *)
(* integers and every sector size, and about the streams of ByteStreams:   *)
(* the inductive invariant StreamInv and what follows from it, for every   *)
(* size of sectors, blocks, buffers, headers, zones and files, when every  *)
(* file that a handle writes fits in the BufWriter.                        *)
(***************************************************************************)
EXTENDS ByteStreams, TLAPS, SequenceTheorems

\* Division undoes a multiplication.
LEMMA DivMul ==
    ASSUME NEW a \in Nat, NEW b \in Nat \ {0}
    PROVE  (a * b) \div b = a /\ (a * b) % b = 0
<1>1. a * b \in Nat /\ a * b = b * a
  OBVIOUS
<1> QED BY <1>1, Z3

\* And multiplication a division without remainder.
LEMMA MulDiv ==
    ASSUME NEW a \in Nat, NEW b \in Nat \ {0}, a % b = 0
    PROVE  (a \div b) * b = a /\ a \div b \in Nat
OBVIOUS

-----------------------------------------------------------------------------
(* ZonedDeviceCursor                                                       *)

LEMMA Widths ==
    /\ MaxU \in Nat /\ MaxI \in Nat /\ SectorSize \in Nat \ {0} /\ OverflowChecks \in BOOLEAN
    /\ MaxU = 2 * MaxI + 1
    /\ MinI = -(MaxI + 1)
BY UnitAssumption DEF MaxI, MinI

\* seek(SeekFrom::Current(offset)) goes to exactly position + offset or refuses,
\* for every position and offset, i64::MIN included, whose negation wraps to the
\* right magnitude; only a build with overflow checks panics there.
\* (ZonedDeviceCursor::seek.)
THEOREM SeekExact ==
    ASSUME NEW position \in Unsigned, NEW offset \in Signed
    PROVE  LET to == position + offset
               new == SeekCurrent(position, offset)
           IN  /\ new = Panic <=> OverflowChecks /\ offset = MinI
               /\ new # Panic => new = IF to \in Unsigned /\ to % SectorSize = 0
                                       THEN to ELSE Refused
<1>1. position \in Int /\ offset \in Int /\ MaxU \in Nat /\ MinI < 0
      /\ SectorSize \in Nat \ {0} /\ position \in 0 .. MaxU
  BY Widths DEF Unsigned, Signed
<1>2. CASE offset >= 0
  <2>1. offset # MinI
    BY <1>1, <1>2
  <2>2. SeekCurrent(position, offset) = Aligned(Outcome(position + offset))
    BY <1>2 DEF SeekCurrent
  <2> QED BY <1>1, <2>1, <2>2 DEF Aligned, Outcome, Unsigned, Refused, Panic
<1>3. CASE offset < 0 /\ OverflowChecks /\ offset = MinI
  BY <1>1, <1>3 DEF SeekCurrent, Magnitude
<1>4. CASE offset < 0 /\ ~(OverflowChecks /\ offset = MinI)
  <2>1. Magnitude(offset) = -offset /\ Magnitude(offset) # Panic
    BY <1>1, <1>4 DEF Magnitude, Panic
  <2>2. SeekCurrent(position, offset) = Aligned(Outcome(position + offset))
    BY <1>1, <1>4, <2>1 DEF SeekCurrent
  <2> QED BY <1>1, <1>4, <2>2 DEF Aligned, Outcome, Unsigned, Refused, Panic
<1> QED BY <1>1, <1>2, <1>3, <1>4

\* A cursor's read or write acts at exactly its position, or refuses a position
\* inside a sector: the multiplication of the device never overflows for it.
\* (ZonedDeviceCursor::read, write; ZonedDevice::read_at, write_at.)
THEOREM CursorActsInPlace ==
    ASSUME NEW position \in Unsigned
    PROVE  Place(position) = IF position % SectorSize = 0 THEN position ELSE Refused
<1>1. position \in Nat /\ SectorSize \in Nat \ {0}
  BY Widths DEF Unsigned
<1>2. CASE position % SectorSize = 0
  <2>1. FromBytes(position) = position \div SectorSize
    BY <1>2 DEF FromBytes
  <2>2. (position \div SectorSize) * SectorSize = position
        /\ position \div SectorSize \in Nat
    BY <1>1, <1>2, MulDiv
  <2>3. FromBytes(position) # Refused
    BY <2>1, <2>2 DEF Refused
  <2> QED BY <1>2, <2>1, <2>2, <2>3 DEF Place, CheckedToBytes, Outcome
<1>3. CASE position % SectorSize # 0
  BY <1>3 DEF Place, FromBytes
<1> QED BY <1>2, <1>3

\* A cursor made at a sector acts at that sector if its first byte has a
\* position; from there on it panics, or stands elsewhere without a word.
\* (ZonedDeviceCursor::at_sector, Sector::to_bytes.)
THEOREM AtSectorExact ==
    ASSUME NEW sector \in Unsigned
    PROVE  /\ sector * SectorSize <= MaxU =>
                  /\ AtSector(sector) = sector * SectorSize
                  /\ Place(AtSector(sector)) = sector * SectorSize
           /\ sector * SectorSize > MaxU =>
                  AtSector(sector) # sector * SectorSize
<1>1. sector \in Nat /\ SectorSize \in Nat \ {0} /\ MaxU \in Nat
      /\ sector * SectorSize \in Nat
  BY Widths DEF Unsigned
<1>2. ASSUME sector * SectorSize <= MaxU
      PROVE  /\ AtSector(sector) = sector * SectorSize
             /\ Place(AtSector(sector)) = sector * SectorSize
  <2>1. sector * SectorSize \in Unsigned
    BY <1>1, <1>2 DEF Unsigned
  <2>2. AtSector(sector) = sector * SectorSize
    BY <2>1 DEF AtSector, ToBytes, Unchecked
  <2>3. (sector * SectorSize) % SectorSize = 0
    BY <1>1, DivMul
  <2> QED BY <2>1, <2>2, <2>3, CursorActsInPlace
<1>3. ASSUME sector * SectorSize > MaxU
      PROVE  AtSector(sector) # sector * SectorSize
  <2> DEFINE product == sector * SectorSize
  <2>1. product \in Nat /\ product > MaxU /\ product \notin Unsigned
    BY <1>1, <1>3 DEF Unsigned
  <2>2. product % (MaxU + 1) \in 0 .. MaxU
    <3> HIDE DEF product
    <3> QED BY <1>1, <2>1
  <2>3. AtSector(sector) = IF OverflowChecks THEN Panic ELSE product % (MaxU + 1)
    BY <2>1 DEF AtSector, ToBytes, Unchecked
  <2> HIDE DEF product
  <2>4. AtSector(sector) # product
    BY <1>1, <2>1, <2>2, <2>3 DEF Panic
  <2> QED BY <2>4 DEF product
<1> QED BY <1>2, <1>3

-----------------------------------------------------------------------------
(* Logical blocks                                                          *)

\* FreeBSD: the command for a reported zone names the block the report gave for
\* it, and a report of the zones from a sector on asks for the block that the
\* sector lies in, whatever the block size; blocks below 512 bytes, whose scale
\* is 0, make the loop over a range panic where report_zones has a guard.
\* (entry_to_zone, report_zones, for_each_zone_in_range.)
THEOREM BlocksRoundTrip ==
    ASSUME NEW lba \in Unsigned, NEW sector \in Unsigned, NEW scale \in Nat
    PROVE  /\ scale > 0 /\ lba * scale \in Unsigned =>
                  CommandLba(FromLba(lba, scale), scale) = lba
           /\ scale > 0 =>
                  /\ StartLba(sector, scale) * scale <= sector
                  /\ sector < (StartLba(sector, scale) + 1) * scale
           /\ scale = 0 => /\ FromLba(lba, scale) = 0
                           /\ CommandLba(FromLba(lba, scale), scale) = Panic
<1>1. lba \in Nat /\ sector \in Nat /\ MaxU \in Nat
  BY Widths DEF Unsigned
<1>2. ASSUME scale > 0, lba * scale \in Unsigned
      PROVE  CommandLba(FromLba(lba, scale), scale) = lba
  <2>1. FromLba(lba, scale) = lba * scale
    BY <1>2 DEF FromLba, Unchecked
  <2>2. (lba * scale) \div scale = lba
    BY <1>1, <1>2, DivMul
  <2> QED BY <1>2, <2>1, <2>2 DEF CommandLba
<1>3. ASSUME scale > 0
      PROVE  /\ StartLba(sector, scale) * scale <= sector
             /\ sector < (StartLba(sector, scale) + 1) * scale
  BY <1>1, <1>3 DEF StartLba
<1>4. ASSUME scale = 0
      PROVE  FromLba(lba, scale) = 0 /\ CommandLba(FromLba(lba, scale), scale) = Panic
  BY <1>1, <1>4 DEF FromLba, CommandLba, Unchecked, Unsigned
<1> QED BY <1>2, <1>3, <1>4

-----------------------------------------------------------------------------
(* Whole blocks and whole sectors                                          *)

\* A sum with a multiple of d is a multiple of d when the other term is.
LEMMA ModSum ==
    ASSUME NEW a \in Nat, NEW b \in Nat, NEW d \in Nat \ {0}, a % d = 0
    PROVE  (a + b) % d = 0 <=> b % d = 0
<1>1. PICK q \in Nat : a = q * d
  BY MulDiv
<1>2. ASSUME b % d = 0 PROVE (a + b) % d = 0
  <2>1. PICK r \in Nat : b = r * d
    BY <1>2, MulDiv
  <2>2. a + b = (q + r) * d /\ q + r \in Nat
    BY <1>1, <2>1
  <2> QED BY <2>2, DivMul
<1>3. ASSUME (a + b) % d = 0 PROVE b % d = 0
  <2>1. PICK s \in Nat : a + b = s * d
    BY <1>3, MulDiv
  <2>2. b = (s - q) * d
    BY <1>1, <2>1
  <2>3. s - q \in Nat
    BY <1>1, <2>1, <2>2
  <2> QED BY <2>2, <2>3, DivMul
<1> QED BY <1>2, <1>3

LEMMA Sizes ==
    /\ SectorSize \in Nat \ {0} /\ Align \in Nat \ {0} /\ BufSize \in Nat \ {0}
    /\ Header \in Nat \ {0} /\ ZoneBytes \in Nat \ {0} /\ MaxU \in Nat
    /\ ZoneBytes + Align <= MaxU /\ Header < SectorSize
    /\ Align % SectorSize = 0 /\ BufSize % Align = 0 /\ ZoneBytes % Align = 0
    /\ \A f \in Files : SizeOf[f] \in Nat
BY ByteAssumption, UnitAssumption

\* What is a multiple of the alignment is a multiple of the sector size.
LEMMA AlignedIsWhole ==
    ASSUME NEW n \in Nat, n % Align = 0
    PROVE  n % SectorSize = 0
<1>1. PICK q \in Nat : n = q * Align
  BY Sizes, MulDiv
<1>2. PICK r \in Nat : Align = r * SectorSize
  BY Sizes, MulDiv
<1>3. n = (q * r) * SectorSize /\ q * r \in Nat
  BY <1>1, <1>2, Sizes
<1> QED BY <1>3, Sizes, DivMul

\* A block is no shorter than a sector, a buffer than a block.
LEMMA BlockSizes == SectorSize <= Align /\ Align <= BufSize /\ Header < BufSize
<1>1. \A a \in Nat \ {0}, b \in Nat \ {0} : a % b = 0 => b <= a
  OBVIOUS
<1> QED BY <1>1, Sizes

\* RoundUp gives the first multiple of the alignment from n on.
LEMMA RoundsUp ==
    ASSUME NEW n \in Nat
    PROVE  /\ RoundUp(n) \in Nat /\ n <= RoundUp(n) /\ RoundUp(n) < n + Align
           /\ RoundUp(n) % Align = 0 /\ RoundUp(n) % SectorSize = 0
           /\ \A m \in Nat : m % Align = 0 /\ n <= m => RoundUp(n) <= m
<1> DEFINE q == (n + Align - 1) \div Align
<1>1. q \in Nat /\ RoundUp(n) = q * Align
  BY Sizes DEF RoundUp
<1>2. q * Align <= n + Align - 1 /\ n + Align - 1 < q * Align + Align
  BY Sizes
<1>3. q * Align \in Nat
  BY <1>1, Sizes
<1>4. RoundUp(n) % Align = 0
  BY <1>1, Sizes, DivMul
<1>5. ASSUME NEW m \in Nat, m % Align = 0, n <= m
      PROVE  RoundUp(n) <= m
  <2>1. PICK p \in Nat : m = p * Align
    BY <1>5, Sizes, MulDiv
  <2>2. q * Align < (p + 1) * Align
    BY <1>2, <1>3, <1>5, <2>1, Sizes
  <2>3. q < p + 1
    <3> HIDE DEF q
    <3> QED BY <1>1, <2>2, Sizes
  <2>4. q * Align <= p * Align
    <3> HIDE DEF q
    <3> QED BY <1>1, <2>3, Sizes
  <2> QED BY <1>1, <2>1, <2>4
<1>6. RoundUp(n) % SectorSize = 0
  BY <1>1, <1>3, <1>4, AlignedIsWhole
<1> HIDE DEF q
<1> QED BY <1>1, <1>2, <1>3, <1>4, <1>5, <1>6, Sizes

-----------------------------------------------------------------------------
(* What is written for a file                                              *)

\* Byte k that is written for file f: of its header, its content, or a zero.
Image(f, k) == IF k <= Header + SizeOf[f] THEN <<f, k>> ELSE Zero
Total(f)    == RoundUp(Header + SizeOf[f])

Fits(f, room) == f \in Files /\ Header + SizeOf[f] <= room

\* The zone of which the first n bytes have been written, for f.
Written(f, n) == [i \in Offsets |-> IF i < n THEN Image(f, i + 1) ELSE Zero]

\* s is what follows the first n of the bytes written for f.
Piece(s, f, n) == s \in Seq(Cells) /\ \A k \in 1 .. Len(s) : s[k] = Image(f, n + k)

\* The slices of calls, one behind the other, are what follows the first n bytes
\* to the last.
Laid(calls, f, n) ==
    /\ calls \in Seq(Seq(Cells))
    /\ \E cut \in [1 .. Len(calls) + 1 -> 0 .. Total(f)] :
           /\ cut[1] = n /\ cut[Len(calls) + 1] = Total(f)
           /\ \A j \in 1 .. Len(calls) : /\ Piece(calls[j], f, cut[j])
                                         /\ cut[j + 1] = cut[j] + Len(calls[j])

LEMMA Totals ==
    ASSUME NEW f, Fits(f, ZoneBytes)
    PROVE  /\ f \in Files /\ SizeOf[f] \in Nat
           /\ Total(f) \in Nat /\ Header + SizeOf[f] <= Total(f)
           /\ Total(f) < Header + SizeOf[f] + Align /\ Total(f) <= ZoneBytes
           /\ Total(f) % SectorSize = 0
           /\ Header + SizeOf[f] <= BufSize => Total(f) <= BufSize
<1>1. f \in Files /\ SizeOf[f] \in Nat /\ Header + SizeOf[f] \in Nat
  BY Sizes DEF Fits
<1> QED BY <1>1, RoundsUp, Sizes DEF Fits, Total

LEMMA ImageCell ==
    ASSUME NEW f, Fits(f, ZoneBytes), NEW k \in Nat \ {0}
    PROVE  Image(f, k) \in Cells
BY Sizes DEF Image, Cells, Fits

LEMMA WrittenZone ==
    ASSUME NEW f, Fits(f, ZoneBytes), NEW n \in Nat
    PROVE  Written(f, n) \in [Offsets -> Cells]
<1>1. \A i \in Offsets : i + 1 \in Nat \ {0}
  BY DEF Offsets
<1> QED BY <1>1, ImageCell DEF Written, Cells

LEMMA WrittenNone ==
    ASSUME NEW f
    PROVE  Written(f, 0) = Blank
BY DEF Written, Blank, Offsets

\* The end of what is missing.
LEMMA LaidEnd ==
    ASSUME NEW f, NEW n, Laid(<<>>, f, n)
    PROVE  n = Total(f)
BY DEF Laid

LEMMA LaidHead ==
    ASSUME NEW f, Fits(f, ZoneBytes), NEW n, NEW calls, calls # <<>>, Laid(calls, f, n)
    PROVE  /\ calls \in Seq(Seq(Cells)) /\ Head(calls) = calls[1]
           /\ Len(calls) \in Nat \ {0}
           /\ Piece(Head(calls), f, n) /\ Len(Head(calls)) \in Nat
           /\ n \in Nat /\ n + Len(Head(calls)) <= Total(f)
           /\ Laid(Tail(calls), f, n + Len(Head(calls)))
           /\ Len(Tail(calls)) = Len(calls) - 1
           /\ \A j \in 1 .. Len(Tail(calls)) : Tail(calls)[j] = calls[j + 1]
<1>1. Total(f) \in Nat
  BY Totals
<1>2. calls \in Seq(Seq(Cells)) /\ Len(calls) \in Nat /\ Len(calls) >= 1
  BY EmptySeq DEF Laid
<1>3. PICK cut \in [1 .. Len(calls) + 1 -> 0 .. Total(f)] :
           /\ cut[1] = n /\ cut[Len(calls) + 1] = Total(f)
           /\ \A j \in 1 .. Len(calls) : /\ Piece(calls[j], f, cut[j])
                                         /\ cut[j + 1] = cut[j] + Len(calls[j])
  BY DEF Laid
<1>4. Head(calls) = calls[1] /\ Head(calls) \in Seq(Cells)
  BY <1>2, HeadTailProperties
<1>5. Len(Head(calls)) \in Nat
  BY <1>4, LenProperties
<1>6. 1 \in 1 .. Len(calls) /\ 1 \in 1 .. Len(calls) + 1 /\ 2 \in 1 .. Len(calls) + 1
  BY <1>2
<1>7. /\ Piece(Head(calls), f, n) /\ cut[2] = n + Len(Head(calls))
      /\ n \in 0 .. Total(f) /\ cut[2] \in 0 .. Total(f)
  BY <1>3, <1>4, <1>6
<1>8. Laid(Tail(calls), f, n + Len(Head(calls)))
  <2> DEFINE rest == Tail(calls)
             cut2 == [j \in 1 .. Len(rest) + 1 |-> cut[j + 1]]
  <2>1. /\ rest \in Seq(Seq(Cells)) /\ Len(rest) = Len(calls) - 1
        /\ \A j \in 1 .. Len(rest) : rest[j] = calls[j + 1]
    BY <1>2, HeadTailProperties
  <2>2. cut2 \in [1 .. Len(rest) + 1 -> 0 .. Total(f)]
    BY <1>2, <1>3, <2>1
  <2>3. cut2[1] = n + Len(Head(calls)) /\ cut2[Len(rest) + 1] = Total(f)
    BY <1>2, <1>3, <1>7, <2>1
  <2>4. ASSUME NEW j \in 1 .. Len(rest)
        PROVE  /\ Piece(rest[j], f, cut2[j])
               /\ cut2[j + 1] = cut2[j] + Len(rest[j])
    <3>1. j + 1 \in 1 .. Len(calls) /\ j \in 1 .. Len(rest) + 1 /\ j + 1 \in 1 .. Len(rest) + 1
      BY <1>2, <2>1
    <3>2. cut2[j] = cut[j + 1] /\ cut2[j + 1] = cut[j + 1 + 1] /\ rest[j] = calls[j + 1]
      BY <2>1, <3>1
    <3> QED BY <1>3, <3>1, <3>2
  <2> HIDE DEF rest, cut2
  <2>5. Laid(rest, f, n + Len(Head(calls)))
    BY <2>1, <2>2, <2>3, <2>4 DEF Laid
  <2> QED BY <2>5 DEF rest
<1>9. /\ Len(Tail(calls)) = Len(calls) - 1
      /\ \A j \in 1 .. Len(Tail(calls)) : Tail(calls)[j] = calls[j + 1]
  BY <1>2, HeadTailProperties
<1> QED BY <1>1, <1>2, <1>4, <1>5, <1>7, <1>8, <1>9

\* A part of a piece.
LEMMA PieceAfter ==
    ASSUME NEW f, NEW n \in Nat, NEW s, Piece(s, f, n), NEW c \in 0 .. Len(s)
    PROVE  /\ Piece(After(c, s), f, n + c)
           /\ Len(After(c, s)) = Len(s) - c /\ n + c + Len(After(c, s)) = n + Len(s)
<1>1. s \in Seq(Cells) /\ Len(s) \in Nat
  BY LenProperties DEF Piece
<1>2. \A i \in c + 1 .. Len(s) : s[i] \in Cells
  BY <1>1, ElementOfSeq
<1>3. /\ After(c, s) \in Seq(Cells) /\ Len(After(c, s)) = Len(s) - c
      /\ \A i \in 1 .. Len(s) - c : After(c, s)[i] = s[c + i]
  BY <1>1, <1>2, SubSeqProperties DEF After
<1>4. ASSUME NEW k \in 1 .. Len(After(c, s))
      PROVE  After(c, s)[k] = Image(f, n + c + k)
  <2>1. c + k \in 1 .. Len(s) /\ After(c, s)[k] = s[c + k]
    BY <1>1, <1>3
  <2>2. s[c + k] = Image(f, n + (c + k))
    BY <2>1 DEF Piece
  <2> QED BY <1>1, <2>1, <2>2
<1>5. Piece(After(c, s), f, n + c)
  BY <1>3, <1>4 DEF Piece
<1>6. n + c + Len(After(c, s)) = n + Len(s)
  BY <1>1, <1>3
<1> QED BY <1>3, <1>5, <1>6

\* A call of which c bytes are written.
LEMMA LaidCut ==
    ASSUME NEW f, Fits(f, ZoneBytes), NEW n \in Nat, NEW calls, calls # <<>>, Laid(calls, f, n),
           NEW head, head = Head(calls), NEW c \in 0 .. Len(head)
    PROVE  /\ Laid(<<After(c, head)>> \o Tail(calls), f, n + c)
           /\ <<After(c, head)>> \o Tail(calls) # <<>>
           /\ Len(<<After(c, head)>> \o Tail(calls)) = Len(calls)
<1>1. /\ calls \in Seq(Seq(Cells)) /\ head = calls[1] /\ Len(calls) \in Nat \ {0}
      /\ Piece(head, f, n) /\ Len(head) \in Nat
      /\ n \in Nat /\ n + Len(head) <= Total(f) /\ Total(f) \in Nat
  BY LaidHead, Totals
<1> DEFINE rest == After(c, head)
<1>3. /\ Piece(rest, f, n + c) /\ rest \in Seq(Cells)
      /\ n + c + Len(rest) = n + Len(head)
  <2>1. Piece(head, f, n)
    BY <1>1
  <2>2. /\ Piece(After(c, head), f, n + c)
        /\ Len(After(c, head)) = Len(head) - c
        /\ n + c + Len(After(c, head)) = n + Len(head)
    <3> HIDE DEF rest
    <3>1. \A s : Piece(s, f, n) =>
             \A k \in 0 .. Len(s) :
                 /\ Piece(After(k, s), f, n + k)
                 /\ Len(After(k, s)) = Len(s) - k
                 /\ n + k + Len(After(k, s)) = n + Len(s)
      BY PieceAfter
    <3> QED BY <2>1, <3>1
  <2> QED BY <2>2 DEF Piece
<1>2. PICK cut \in [1 .. Len(calls) + 1 -> 0 .. Total(f)] :
           /\ cut[1] = n /\ cut[Len(calls) + 1] = Total(f)
           /\ \A j \in 1 .. Len(calls) : /\ Piece(calls[j], f, cut[j])
                                         /\ cut[j + 1] = cut[j] + Len(calls[j])
  BY DEF Laid
<1> DEFINE new  == <<rest>> \o Tail(calls)
           cut2 == [j \in 1 .. Len(calls) + 1 |-> IF j = 1 THEN n + c ELSE cut[j]]
<1>4. /\ Tail(calls) \in Seq(Seq(Cells)) /\ Len(Tail(calls)) = Len(calls) - 1
      /\ \A i \in 1 .. Len(Tail(calls)) : Tail(calls)[i] = calls[i + 1]
  BY <1>1, HeadTailProperties
<1>5. <<rest>> \in Seq(Seq(Cells)) /\ Len(<<rest>>) = 1 /\ <<rest>>[1] = rest
  <2> HIDE DEF rest
  <2> QED BY <1>3
<1>6. /\ new \in Seq(Seq(Cells)) /\ Len(new) = Len(calls)
      /\ \A i \in 1 .. Len(calls) : new[i] = IF i = 1 THEN rest ELSE calls[i]
  <2> HIDE DEF rest
  <2>1. /\ new \in Seq(Seq(Cells)) /\ Len(new) = 1 + Len(Tail(calls))
        /\ \A i \in 1 .. 1 + Len(Tail(calls)) :
               new[i] = IF i <= 1 THEN <<rest>>[i] ELSE Tail(calls)[i - 1]
    BY <1>4, <1>5, ConcatProperties
  <2> HIDE DEF new
  <2>2. ASSUME NEW i \in 1 .. Len(calls)
        PROVE  new[i] = IF i = 1 THEN rest ELSE calls[i]
    <3>1. CASE i = 1
      BY <1>1, <1>4, <1>5, <2>1, <3>1
    <3>2. CASE i # 1
      <4>1. i - 1 \in 1 .. Len(Tail(calls)) /\ i \in 1 .. 1 + Len(Tail(calls)) /\ ~(i <= 1)
        BY <1>1, <1>4, <3>2
      <4>2. new[i] = Tail(calls)[i - 1]
        BY <2>1, <4>1
      <4>3. Tail(calls)[i - 1] = calls[(i - 1) + 1]
        BY <1>4, <4>1
      <4> QED BY <3>2, <4>2, <4>3
    <3> QED BY <3>1, <3>2
  <2> QED BY <1>1, <1>4, <2>1, <2>2
<1>7. cut2 \in [1 .. Len(calls) + 1 -> 0 .. Total(f)]
  <2>1. n + c \in 0 .. Total(f)
    BY <1>1
  <2> QED BY <1>2, <2>1
<1>8. cut2[1] = n + c /\ cut2[Len(calls) + 1] = Total(f)
  BY <1>1, <1>2
<1>9. ASSUME NEW j \in 1 .. Len(calls)
      PROVE  Piece(new[j], f, cut2[j]) /\ cut2[j + 1] = cut2[j] + Len(new[j])
  <2>1. cut2[j + 1] = cut[j + 1] /\ cut2[j] = IF j = 1 THEN n + c ELSE cut[j]
    BY <1>1
  <2>2. /\ Piece(calls[j], f, cut[j]) /\ cut[j + 1] = cut[j] + Len(calls[j])
        /\ new[j] = IF j = 1 THEN rest ELSE calls[j]
    BY <1>2, <1>6
  <2> HIDE DEF new, cut2, rest
  <2>3. CASE j = 1
    <3>1. cut[j + 1] = n + Len(head)
      BY <1>1, <1>2, <2>2, <2>3
    <3>2. cut2[j + 1] = n + c + Len(rest)
      BY <1>3, <2>1, <3>1
    <3> QED BY <1>3, <2>1, <2>2, <2>3, <3>2
  <2>4. CASE j # 1
    BY <2>1, <2>2, <2>4
  <2> QED BY <2>3, <2>4
<1> HIDE DEF new, cut2, rest
<1>10. /\ cut2 \in [1 .. Len(new) + 1 -> 0 .. Total(f)]
       /\ cut2[1] = n + c /\ cut2[Len(new) + 1] = Total(f)
       /\ \A j \in 1 .. Len(new) : /\ Piece(new[j], f, cut2[j])
                                   /\ cut2[j + 1] = cut2[j] + Len(new[j])
  BY <1>6, <1>7, <1>8, <1>9
<1>11. Laid(new, f, n + c)
  BY <1>6, <1>10 DEF Laid
<1>12. new # <<>>
  BY <1>1, <1>6
<1> QED BY <1>6, <1>11, <1>12 DEF new, rest

\* Two pieces, the second behind the first.
LEMMA PieceConcat ==
    ASSUME NEW f, NEW n \in Nat, NEW s, NEW t, Piece(s, f, n), Piece(t, f, n + Len(s))
    PROVE  Piece(s \o t, f, n) /\ Len(s \o t) = Len(s) + Len(t) /\ Len(s) \in Nat /\ Len(t) \in Nat
<1>1. s \in Seq(Cells) /\ t \in Seq(Cells) /\ Len(s) \in Nat /\ Len(t) \in Nat
  BY LenProperties DEF Piece
<1>2. /\ s \o t \in Seq(Cells) /\ Len(s \o t) = Len(s) + Len(t)
      /\ \A i \in 1 .. Len(s) + Len(t) :
             (s \o t)[i] = IF i <= Len(s) THEN s[i] ELSE t[i - Len(s)]
  BY <1>1, ConcatProperties
<1>3. ASSUME NEW k \in 1 .. Len(s \o t)
      PROVE  (s \o t)[k] = Image(f, n + k)
  <2>1. CASE k <= Len(s)
    <3>1. k \in 1 .. Len(s) /\ (s \o t)[k] = s[k]
      BY <1>1, <1>2, <2>1
    <3> QED BY <3>1 DEF Piece
  <2>2. CASE ~(k <= Len(s))
    <3>1. k - Len(s) \in 1 .. Len(t) /\ (s \o t)[k] = t[k - Len(s)]
      BY <1>1, <1>2, <2>2
    <3>2. t[k - Len(s)] = Image(f, n + Len(s) + (k - Len(s)))
      BY <3>1 DEF Piece
    <3>3. n + Len(s) + (k - Len(s)) = n + k
      BY <1>1, <1>2
    <3> QED BY <3>1, <3>2, <3>3
  <2> QED BY <2>1, <2>2
<1> QED BY <1>1, <1>2, <1>3 DEF Piece

LEMMA Parts ==
    ASSUME NEW f, Fits(f, ZoneBytes)
    PROVE  /\ Piece(HeaderOf(f), f, 0) /\ Len(HeaderOf(f)) = Header
           /\ Piece(Content(f), f, Header) /\ Len(Content(f)) = SizeOf[f]
           /\ Piece(Padding(f), f, Header + SizeOf[f])
           /\ Len(Padding(f)) = Total(f) - (Header + SizeOf[f])
<1>1. /\ f \in Files /\ SizeOf[f] \in Nat /\ Header \in Nat /\ Total(f) \in Nat
      /\ Header + SizeOf[f] <= Total(f) /\ Header + SizeOf[f] <= ZoneBytes /\ ZoneBytes \in Nat
  BY Totals, Sizes DEF Fits
<1>2. ASSUME NEW k \in 1 .. ZoneBytes
      PROVE  <<f, k>> \in Cells
  BY <1>1 DEF Cells
<1>3. Piece(HeaderOf(f), f, 0) /\ Len(HeaderOf(f)) = Header
  <2>1. HeaderOf(f) = [k \in 1 .. Header |-> <<f, k>>]
    BY <1>1 DEF HeaderOf, Bytes
  <2>2. HeaderOf(f) \in Seq(Cells) /\ Len(HeaderOf(f)) = Header
    <3>1. HeaderOf(f) \in [1 .. Header -> Cells]
      BY <1>1, <1>2, <2>1
    <3> QED BY <1>1, <3>1
  <2> QED BY <1>1, <2>1, <2>2 DEF Piece, Image
<1>4. Piece(Content(f), f, Header) /\ Len(Content(f)) = SizeOf[f]
  <2>1. Content(f) = [k \in 1 .. SizeOf[f] |-> <<f, Header + k>>]
    <3>1. PICK a, b : a = Header + 1 /\ b = Header + SizeOf[f]
      OBVIOUS
    <3>2. Content(f) = [k \in 1 .. b - a + 1 |-> <<f, a + k - 1>>]
      BY <3>1 DEF Content, Bytes
    <3>3. b - a + 1 = SizeOf[f] /\ \A k \in 1 .. SizeOf[f] : a + k - 1 = Header + k
      BY <1>1, <3>1
    <3> QED BY <3>2, <3>3
  <2>2. \A k \in 1 .. SizeOf[f] : Header + k \in 1 .. ZoneBytes
    BY <1>1
  <2>3. Content(f) \in Seq(Cells) /\ Len(Content(f)) = SizeOf[f]
    <3>1. Content(f) \in [1 .. SizeOf[f] -> Cells]
      BY <1>2, <2>1, <2>2
    <3> QED BY <1>1, <3>1
  <2>4. \A k \in 1 .. SizeOf[f] : Image(f, Header + k) = <<f, Header + k>>
    BY <1>1 DEF Image
  <2> QED BY <2>1, <2>3, <2>4 DEF Piece
<1>5. Piece(Padding(f), f, Header + SizeOf[f])
      /\ Len(Padding(f)) = Total(f) - (Header + SizeOf[f])
  <2>1. Padding(f) = [k \in 1 .. Total(f) - (Header + SizeOf[f]) |-> Zero]
    BY DEF Padding, Total
  <2>2. Total(f) - (Header + SizeOf[f]) \in Nat
    BY <1>1
  <2>3. Padding(f) \in Seq(Cells) /\ Len(Padding(f)) = Total(f) - (Header + SizeOf[f])
    <3>1. Padding(f) \in [1 .. Total(f) - (Header + SizeOf[f]) -> Cells]
      BY <2>1 DEF Cells
    <3> QED BY <2>2, <3>1
  <2>4. \A k \in 1 .. Total(f) - (Header + SizeOf[f]) : Image(f, Header + SizeOf[f] + k) = Zero
    BY <1>1 DEF Image
  <2> QED BY <2>1, <2>3, <2>4 DEF Piece
<1> QED BY <1>3, <1>4, <1>5

\* What cmd_write passes on is the whole, in order; with a BufWriter in slices
\* below its size if the file fits.
LEMMA CallsLaid ==
    ASSUME NEW f, Fits(f, ZoneBytes)
    PROVE  /\ Laid(Calls(f), f, 0) /\ Calls(f) # <<>>
           /\ Len(Calls(f)) = IF via = "write_all" THEN 1 ELSE 3
           /\ via # "write_all" /\ Header + SizeOf[f] <= BufSize =>
                  \A j \in 1 .. Len(Calls(f)) : Len(Calls(f)[j]) < BufSize
<1>1. /\ Header \in Nat \ {0} /\ SizeOf[f] \in Nat /\ Total(f) \in Nat
      /\ Header + SizeOf[f] <= Total(f) /\ Total(f) < Header + SizeOf[f] + Align
      /\ Align \in Nat /\ BufSize \in Nat /\ Align <= BufSize /\ Header < BufSize
  BY Totals, Sizes, BlockSizes
<1>2. PICK h, s, p : h = HeaderOf(f) /\ s = Content(f) /\ p = Padding(f)
  OBVIOUS
<1>3. /\ Piece(h, f, 0) /\ Len(h) = Header /\ h \in Seq(Cells)
      /\ Piece(s, f, Header) /\ Len(s) = SizeOf[f] /\ s \in Seq(Cells)
      /\ Piece(p, f, Header + SizeOf[f]) /\ p \in Seq(Cells)
      /\ Len(p) = Total(f) - (Header + SizeOf[f])
  BY <1>2, Parts DEF Piece
<1>4. CASE via = "write_all"
  <2>1. PICK all : all = h \o s \o p
    OBVIOUS
  <2>2. Piece(h \o s, f, 0) /\ Len(h \o s) = Header + SizeOf[f]
    <3>1. 0 + Len(h) = Header
      BY <1>1, <1>3
    <3>2. Piece(h, f, 0) /\ Piece(s, f, 0 + Len(h)) /\ 0 \in Nat
      BY <1>3, <3>1
    <3>3. Piece(h \o s, f, 0) /\ Len(h \o s) = Len(h) + Len(s)
      BY <3>2, PieceConcat
    <3>4. Len(h) = Header /\ Len(s) = SizeOf[f]
      BY <1>3
    <3> QED BY <3>3, <3>4
  <2>3. Piece(all, f, 0) /\ Len(all) = Total(f) /\ all \in Seq(Cells)
    <3>1. 0 + Len(h \o s) = Header + SizeOf[f]
      BY <1>1, <2>2
    <3>2. PICK hs : hs = h \o s
      OBVIOUS
    <3>3. Piece(hs, f, 0) /\ Piece(p, f, 0 + Len(hs)) /\ 0 \in Nat
      BY <1>3, <2>2, <3>1, <3>2
    <3>4. Piece(hs \o p, f, 0) /\ Len(hs \o p) = Len(hs) + Len(p)
      BY <3>3, PieceConcat
    <3>5. Piece(all, f, 0) /\ Len(all) = Len(hs) + Len(p) /\ Len(hs) = Header + SizeOf[f]
      BY <2>1, <2>2, <3>2, <3>4
    <3> QED BY <1>1, <1>3, <3>5 DEF Piece
  <2>4. Calls(f) = <<all>>
    BY <1>2, <1>4, <2>1 DEF Calls
  <2>5. <<all>> \in Seq(Seq(Cells)) /\ Len(<<all>>) = 1 /\ <<all>>[1] = all
    BY <2>3
  <2>6. Laid(<<all>>, f, 0)
    <3> DEFINE cut == [j \in 1 .. 2 |-> IF j = 1 THEN 0 ELSE Total(f)]
    <3>1. cut \in [1 .. 2 -> 0 .. Total(f)] /\ cut[1] = 0 /\ cut[2] = Total(f)
      BY <1>1
    <3> HIDE DEF cut
    <3>2. cut \in [1 .. Len(<<all>>) + 1 -> 0 .. Total(f)] /\ cut[Len(<<all>>) + 1] = Total(f)
      BY <2>5, <3>1
    <3>3. \A j \in 1 .. Len(<<all>>) : /\ Piece(<<all>>[j], f, cut[j])
                                       /\ cut[j + 1] = cut[j] + Len(<<all>>[j])
      BY <1>1, <2>3, <2>5, <3>1
    <3> QED BY <2>5, <3>1, <3>2, <3>3 DEF Laid
  <2> QED BY <1>4, <2>4, <2>5, <2>6
<1>5. CASE via # "write_all"
  <2>1. Calls(f) = <<h, s, p>>
    BY <1>2, <1>5 DEF Calls
  <2>2. /\ <<h, s, p>> \in Seq(Seq(Cells)) /\ Len(<<h, s, p>>) = 3
        /\ <<h, s, p>>[1] = h /\ <<h, s, p>>[2] = s /\ <<h, s, p>>[3] = p
    BY <1>3
  <2>3. PICK c : c = <<h, s, p>>
    OBVIOUS
  <2>4. Laid(c, f, 0)
    <3> DEFINE cut == [j \in 1 .. 4 |-> IF j = 1 THEN 0 ELSE IF j = 2 THEN Header
                                        ELSE IF j = 3 THEN Header + SizeOf[f] ELSE Total(f)]
    <3>1. /\ cut \in [1 .. 4 -> 0 .. Total(f)] /\ cut[1] = 0 /\ cut[2] = Header
          /\ cut[3] = Header + SizeOf[f] /\ cut[4] = Total(f)
      BY <1>1
    <3> HIDE DEF cut
    <3>2. c \in Seq(Seq(Cells)) /\ Len(c) = 3 /\ c[1] = h /\ c[2] = s /\ c[3] = p
      BY <2>2, <2>3
    <3>3. cut \in [1 .. Len(c) + 1 -> 0 .. Total(f)] /\ cut[Len(c) + 1] = Total(f)
      BY <3>1, <3>2
    <3>4. ASSUME NEW j \in 1 .. Len(c)
          PROVE  Piece(c[j], f, cut[j]) /\ cut[j + 1] = cut[j] + Len(c[j])
      <4>1. CASE j = 1
        BY <1>1, <1>3, <3>1, <3>2, <4>1, SMTT(40)
      <4>2. CASE j = 2
        BY <1>1, <1>3, <3>1, <3>2, <4>2, SMTT(40)
      <4>3. CASE j = 3
        BY <1>1, <1>3, <3>1, <3>2, <4>3, SMTT(40)
      <4> QED BY <3>2, <4>1, <4>2, <4>3
    <3> QED BY <3>1, <3>2, <3>3, <3>4 DEF Laid
  <2>5. ASSUME Header + SizeOf[f] <= BufSize, NEW j \in 1 .. 3
        PROVE  Len(c[j]) < BufSize
    <3>1. c[1] = h /\ c[2] = s /\ c[3] = p
      BY <2>2, <2>3
    <3>2. Len(h) < BufSize /\ Len(s) < BufSize /\ Len(p) < BufSize
      BY <1>1, <1>3, <2>5
    <3>3. j = 1 \/ j = 2 \/ j = 3
      OBVIOUS
    <3> QED BY <3>1, <3>2, <3>3
  <2>6. Calls(f) = c /\ Len(c) = 3 /\ c # <<>>
    BY <2>1, <2>2, <2>3
  <2> QED BY <1>5, <2>4, <2>5, <2>6
<1> QED BY <1>4, <1>5

-----------------------------------------------------------------------------
(* A write of the next bytes                                               *)

\* Where a stream counts whole sectors, a call takes whole sectors: of what ends at
\* a sector it takes all or stops at one.
LEMMA WholeCount ==
    ASSUME NEW p \in Nat, p % SectorSize = 0, NEW n \in Nat, n % SectorSize = 0,
           p = pos, NEW c \in Counts(n), via # "cursor"
    PROVE  c % SectorSize = 0
<1>1. c \in Nat /\ (c = n \/ (p + c) % SectorSize = 0)
  BY DEF Counts
<1> QED BY <1>1, ModSum, Sizes

\* The zone goes on as the file does, and the position with it.
LEMMA WriteLaysOn ==
    ASSUME NEW f, Fits(f, ZoneBytes), NEW data, NEW c, NEW n \in 0 .. ZoneBytes + Align,
           n = pos, zone = Written(f, n), Piece(data, f, n), Write(data, c),
           via # "cursor" => c % SectorSize = 0
    PROVE  /\ zone' = Written(f, n + c) /\ pos' = n + c
           /\ c \in 1 .. Len(data) /\ c \in Nat /\ n + c <= ZoneBytes
<1>1. /\ c \in 1 .. Len(data) /\ c \in Nat /\ n + c <= ZoneBytes /\ n \in Nat
      /\ ZoneBytes \in Nat
  BY Sizes DEF Write, Counts
<1>2. At = n
  <2>1. CASE via = "cursor"
    <3>1. n \in Unsigned
      BY Sizes DEF Unsigned
    <3> QED BY <2>1, <3>1, CursorActsInPlace DEF At, Write, Accepts
  <2>2. CASE via # "cursor"
    BY <2>2 DEF At
  <2> QED BY <2>1, <2>2
<1>3. pos' = n + c
  <2>1. via # "cursor" => (c \div SectorSize) * SectorSize = c
    BY <1>1, MulDiv, Sizes
  <2> QED BY <2>1 DEF Write, Advance
<1>4. zone' = [i \in Offsets |-> IF i \in n .. n + c - 1 THEN data[i - n + 1] ELSE zone[i]]
  BY <1>2 DEF Write
<1>5. ASSUME NEW i \in Offsets
      PROVE  (IF i \in n .. n + c - 1 THEN data[i - n + 1] ELSE zone[i])
             = IF i < n + c THEN Image(f, i + 1) ELSE Zero
  <2>1. zone[i] = IF i < n THEN Image(f, i + 1) ELSE Zero
    BY DEF Written
  <2>2. i \in Nat
    BY <1>1 DEF Offsets
  <2>3. CASE i \in n .. n + c - 1
    <3>1. i - n + 1 \in 1 .. Len(data) /\ n + (i - n + 1) = i + 1 /\ i < n + c
      BY <1>1, <2>2, <2>3
    <3>2. data[i - n + 1] = Image(f, n + (i - n + 1))
      BY <3>1 DEF Piece
    <3> QED BY <2>3, <3>1, <3>2
  <2>4. CASE i \notin n .. n + c - 1
    BY <1>1, <2>1, <2>2, <2>4
  <2> QED BY <2>3, <2>4
<1>6. zone' = Written(f, n + c)
  BY <1>4, <1>5 DEF Written
<1> QED BY <1>1, <1>3, <1>6

-----------------------------------------------------------------------------
(* A read of what was written                                              *)

\* The length in the header is the file's when the header is whole, and none when
\* nothing of it is there.
LEMMA LengthFound ==
    ASSUME NEW f, Fits(f, ZoneBytes), NEW n \in 0 .. ZoneBytes, zone = Written(f, n)
    PROVE  /\ n = 0 => Lengths(Header) = {0}
           /\ Header <= n => Lengths(Header) = {SizeOf[f]} /\ zone[Header - 1] # Zero
           /\ n < Header => zone[Header - 1] = Zero
<1>1. /\ f \in Files /\ SizeOf[f] \in Nat /\ Header \in Nat \ {0} /\ ZoneBytes \in Nat \ {0}
      /\ Header < ZoneBytes
  <2>1. \A a \in Nat \ {0}, b \in Nat \ {0} : a % b = 0 => b <= a
    OBVIOUS
  <2>2. Align <= ZoneBytes
    BY <2>1, Sizes
  <2> QED BY <2>2, Sizes, BlockSizes DEF Fits
<1>2. \A i \in 0 .. Header - 1 :
          i \in Offsets /\ i + 1 <= Header + SizeOf[f]
  BY <1>1 DEF Offsets
<1>3. \A i \in 0 .. Header - 1 : zone[i] = IF i < n THEN <<f, i + 1>> ELSE Zero
  BY <1>1, <1>2 DEF Written, Image
<1>4. ASSUME NEW k
      PROVE  <<f, k>> # Zero
  <2>1. f # NoFile
    BY <1>1, ByteAssumption
  <2>2. <<f, k>>[1] = f /\ Zero[1] = NoFile
    BY DEF Zero
  <2> QED BY <2>1, <2>2
<1>5. ASSUME n = 0
      PROVE  Lengths(Header) = {0}
  <2>1. ASSUME NEW i \in 0 .. Header - 1
        PROVE  zone[i] = Zero
    <3>1. ~(i < n)
      BY <1>1, <1>5
    <3> QED BY <1>3, <3>1
  <2> QED BY <2>1 DEF Lengths
<1>6. ASSUME Header <= n
      PROVE  Lengths(Header) = {SizeOf[f]} /\ zone[Header - 1] # Zero
  <2>1. ASSUME NEW i \in 0 .. Header - 1
        PROVE  zone[i] = <<f, i + 1>>
    <3>1. i < n
      BY <1>1, <1>6
    <3> QED BY <1>3, <3>1
  <2>2. 0 \in 0 .. Header - 1 /\ Header - 1 \in 0 .. Header - 1
    BY <1>1
  <2>3. zone[0] = <<f, 0 + 1>> /\ zone[Header - 1] = <<f, Header - 1 + 1>>
    BY <2>1, <2>2
  <2>4. zone[0] # Zero /\ zone[Header - 1] # Zero
    BY <1>4, <2>3
  <2>5. zone[0][1] = f
    BY <2>3
  <2>6. ~ \A i \in 0 .. Header - 1 : zone[i] = Zero
    BY <2>2, <2>4
  <2>7. Lengths(Header) = {SizeOf[zone[0][1]]}
    BY <1>1, <2>1, <2>6 DEF Lengths
  <2> QED BY <2>4, <2>5, <2>7
<1>7. ASSUME n < Header
      PROVE  zone[Header - 1] = Zero
  <2>1. Header - 1 \in 0 .. Header - 1 /\ ~(Header - 1 < n)
    BY <1>1, <1>7
  <2> QED BY <1>3, <2>1
<1> QED BY <1>5, <1>6, <1>7

\* What a read may take for a length is a number.
LEMMA LengthsAreNumbers ==
    ASSUME NEW k
    PROVE  Lengths(k) \subseteq Nat
<1>1. ASSUME NEW f \in Files, \A i \in 0 .. Header - 1 : zone[i] = <<f, i + 1>>
      PROVE  SizeOf[zone[0][1]] \in Nat
  <2>1. zone[0] = <<f, 0 + 1>>
    BY <1>1, Sizes
  <2> QED BY <2>1, Sizes
<1> QED BY <1>1, Sizes DEF Lengths

LEMMA SameZone == zone' = zone => \A k : Lengths(k)' = Lengths(k)
BY DEF Lengths

\* A file that lies in the zone reads as the file.
LEMMA WholeFile ==
    ASSUME NEW f, Fits(f, ZoneBytes), zone = Written(f, Total(f))
    PROVE  /\ Lengths(Header) = {SizeOf[f]}
           /\ \A k \in 1 .. Header + SizeOf[f] : zone[k - 1] = <<f, k>>
<1>1. Total(f) \in 0 .. ZoneBytes /\ Header <= Total(f)
      /\ Header + SizeOf[f] <= Total(f) /\ SizeOf[f] \in Nat /\ Header \in Nat /\ ZoneBytes \in Nat
  BY Totals, Sizes
<1>2. Lengths(Header) = {SizeOf[f]}
  BY <1>1, LengthFound
<1>3. ASSUME NEW k \in 1 .. Header + SizeOf[f]
      PROVE  zone[k - 1] = <<f, k>>
  <2>1. k - 1 \in Offsets /\ k - 1 < Total(f) /\ k - 1 + 1 = k
    BY <1>1 DEF Offsets
  <2> QED BY <1>1, <2>1 DEF Written, Image
<1> QED BY <1>2, <1>3

-----------------------------------------------------------------------------
(* The inductive invariant                                                 *)

\* Nothing but a file and zeros has been written, except by others.
ZoneInv ==
    \/ zone = OtherData /\ durable = ZoneBytes
    \/ zone = Blank
    \/ \E f \in Files : \E n \in 0 .. ZoneBytes :
           Fits(f, ZoneBytes) /\ zone = Written(f, n)

\* The file of the last successful write is whole, and safe if it was flushed.
StoredInv ==
    stored # NoFile =>
        /\ Fits(stored, ZoneBytes)
        /\ phase \in {"Idle", "Resetting", "Reading"}
        /\ zone = Written(stored, Total(stored))
        /\ flushed => durable = ZoneBytes

\* The file of a command that writes.
FileInv ==
    /\ phase \in {"Resetting", "Writing", "Dropping"} =>
           /\ Fits(file, ZoneBytes) /\ via \in Writers
           /\ via = "handle" => Fits(file, BufSize)
    /\ phase \notin {"Writing", "Dropping"} => todo = <<>> /\ buf = <<>> /\ ~direct

\* While a command writes, what is in the zone, in the buffer and in the calls
\* still to make is the whole, in order.  A handle keeps all in the buffer to
\* the end; write_all makes one call.
WritingInv ==
    phase = "Writing" =>
        /\ zone = Written(file, pos)
        /\ Piece(buf, file, pos) /\ Laid(todo, file, pos + Len(buf))
        /\ direct => todo # <<>> /\ buf = <<>>
        /\ via # "cursor" => pos % SectorSize = 0
        /\ via = "handle" => /\ ~direct /\ (todo # <<>> => pos = 0)
                             /\ \A j \in 1 .. Len(todo) : Len(todo[j]) < BufSize
        /\ via = "write_all" => buf = <<>> /\ Len(todo) <= 1 /\ (todo # <<>> => direct)

\* The buffer that is dropped follows what is in the zone; a handle had all in it.
DroppingInv ==
    phase = "Dropping" =>
        /\ outcome = "Failed" /\ todo = <<>> /\ ~direct
        /\ zone = Written(file, pos) /\ Piece(buf, file, pos)
        /\ via # "cursor" => /\ pos % SectorSize = 0
                             /\ buf # <<>> => pos + Len(buf) = Total(file)

\* What a command that reads has got is what is in the zone, unless a read was
\* ragged.
ReadingInv ==
    phase = "Reading" \/ (phase = "Idle" /\ outcome = "Read") =>
        /\ via \in Readers /\ size # 0
        /\ via = "cursor" => pos = Len(got)
        /\ IF phase = "Idle" THEN Header + size <= Len(got)
                             ELSE via = "read_once" => got = <<>>
        /\ ~ragged => /\ size \in Lengths(Header)
                      /\ \A k \in 1 .. Len(got) : got[k] = ByteAt(k - 1)
                      /\ via = "read_at" => Len(got) % SectorSize = 0

\* A file that is refused has no length, or none that fits.
RefusedInv ==
    phase = "Idle" /\ outcome = "Refused" /\ ~ragged =>
        \E n \in Lengths(Header) : n = 0 \/ n > ZoneBytes

StreamInv ==
    /\ StreamTypeOK
    /\ got \in Seq(Cells) /\ buf \in Seq(Cells)
    /\ ZoneInv /\ StoredInv /\ FileInv
    /\ WritingInv /\ DroppingInv /\ ReadingInv /\ RefusedInv

LEMMA StreamStart == StreamInit => StreamInv
<1> SUFFICES ASSUME StreamInit PROVE StreamInv
  OBVIOUS
<1>1. Blank \in [Offsets -> Cells] /\ OtherData \in [Offsets -> Cells]
  BY DEF Blank, OtherData, Cells
<1>2. /\ zone \in [Offsets -> Cells] /\ durable \in 0 .. ZoneBytes
      /\ pos \in 0 .. ZoneBytes + Align /\ size \in 0 .. ZoneBytes
  BY <1>1, Sizes DEF StreamInit
<1>3. Len(todo) <= 3 /\ Len(buf) <= BufSize /\ Len(got) <= RoundUp(Header + size)
  <2>1. RoundUp(Header + 0) \in Nat
    BY Sizes, RoundsUp
  <2>2. todo = <<>> /\ buf = <<>> /\ got = <<>> /\ size = 0
    BY DEF StreamInit
  <2> QED BY <2>1, <2>2, Sizes
<1>4. StreamTypeOK
  BY <1>2, <1>3 DEF StreamInit, StreamTypeOK, Writers
<1> QED BY <1>4 DEF StreamInit, StreamInv, ZoneInv, StoredInv, FileInv, WritingInv,
           DroppingInv, ReadingInv, RefusedInv

-----------------------------------------------------------------------------
(* Every action preserves it                                               *)

LEMMA BeginWriteKeeps ==
    ASSUME StreamInv, ~OversizeFiles, NEW f \in Files, NEW v \in Writers, BeginWrite(f, v)
    PROVE  StreamInv'
<1>1. StreamTypeOK'
  <2>1. RoundUp(Header + 0) \in Nat /\ 0 \in 0 .. ZoneBytes
    BY Sizes, RoundsUp
  <2>2. size' = 0 /\ got' = <<>> /\ ragged' = FALSE
    BY DEF BeginWrite, NothingRead
  <2>3. Len(got') <= RoundUp(Header + size')
    BY <2>1, <2>2
  <2> QED BY <2>1, <2>2, <2>3 DEF StreamInv, StreamTypeOK, BeginWrite, history
<1>2. (got \in Seq(Cells) /\ buf \in Seq(Cells))'
  BY DEF StreamInv, BeginWrite, NothingRead
<1>3. ZoneInv' /\ StoredInv'
  BY DEF StreamInv, ZoneInv, StoredInv, BeginWrite, history
<1>4. FileInv'
  BY Sizes DEF StreamInv, FileInv, BeginWrite, Chosen, Fits
<1>5. WritingInv' /\ DroppingInv' /\ ReadingInv' /\ RefusedInv'
  BY DEF BeginWrite, WritingInv, DroppingInv, ReadingInv, RefusedInv
<1> QED BY <1>1, <1>2, <1>3, <1>4, <1>5 DEF StreamInv

LEMMA ResetKeeps ==
    ASSUME StreamInv, ResetZone
    PROVE  StreamInv'
<1>1. Fits(file, ZoneBytes) /\ via \in Writers /\ (via = "handle" => Fits(file, BufSize))
      /\ todo = <<>> /\ buf = <<>> /\ ~direct
  BY DEF StreamInv, FileInv, ResetZone
<1>2. Blank \in [Offsets -> Cells]
  BY DEF Blank, Cells
<1>3. /\ Laid(Calls(file), file, 0) /\ Calls(file) # <<>>
      /\ Len(Calls(file)) = IF via = "write_all" THEN 1 ELSE 3
      /\ via # "write_all" /\ Header + SizeOf[file] <= BufSize =>
             \A j \in 1 .. Len(Calls(file)) : Len(Calls(file)[j]) < BufSize
  BY <1>1, CallsLaid
<1>4. CASE phase' = "Writing"
  <2>1. /\ zone' = Blank /\ durable' = ZoneBytes /\ stored' = NoFile /\ pos' = 0
        /\ todo' = Calls(file)
        /\ UNCHANGED <<outcome, file, via, buf, reader, flushed>>
    BY <1>4 DEF ResetZone
  <2>8. direct' = (via = "write_all")
    BY <1>4 DEF ResetZone
  <2>2. StreamTypeOK'
    <3>1. zone' \in [Offsets -> Cells] /\ durable' \in 0 .. ZoneBytes
          /\ pos' \in 0 .. ZoneBytes + Align /\ Len(todo') <= 3 /\ stored' = NoFile
      <4>1. Len(Calls(file)) = 1 \/ Len(Calls(file)) = 3
        BY <1>3
      <4>2. ZoneBytes \in 0 .. ZoneBytes /\ 0 \in 0 .. ZoneBytes + Align
        BY Sizes
      <4>3. zone' \in [Offsets -> Cells] /\ durable' \in 0 .. ZoneBytes
            /\ pos' \in 0 .. ZoneBytes + Align /\ stored' = NoFile
        BY <1>2, <2>1, <4>2
      <4>4. Len(todo') <= 3
        BY <2>1, <4>1, SMTT(40)
      <4> QED BY <4>3, <4>4
    <3>2. direct' \in BOOLEAN
      BY <2>8
    <3>3. outcome' = outcome /\ file' = file /\ via' = via /\ buf' = buf /\ size' = size
          /\ got' = got /\ ragged' = ragged /\ flushed' = flushed
      BY <2>1 DEF reader
    <3> QED BY <1>4, <3>1, <3>2, <3>3 DEF StreamInv, StreamTypeOK
  <2>3. ZoneInv' /\ StoredInv'
    BY <2>1 DEF ZoneInv, StoredInv
  <2>4. FileInv'
    BY <1>1, <1>4, <2>1 DEF FileInv
  <2>5. WritingInv'
    <3>1. /\ zone' = Written(file', pos') /\ Piece(buf', file', pos') /\ pos' % SectorSize = 0
          /\ Laid(todo', file', pos' + Len(buf'))
      <4>1. zone' = Written(file', pos')
        BY <2>1, WrittenNone
      <4>2. Len(buf') = 0 /\ buf' \in Seq(Cells) /\ 0 + 0 = 0
        BY <1>1, <2>1
      <4>3. Piece(buf', file', pos')
        BY <4>2 DEF Piece
      <4>4. Laid(todo', file', pos' + Len(buf'))
        BY <1>3, <2>1, <4>2
      <4>5. pos' % SectorSize = 0
        BY <2>1, Sizes
      <4> QED BY <4>1, <4>3, <4>4, <4>5
    <3>2. direct' => todo' # <<>> /\ buf' = <<>>
      BY <1>1, <1>3, <2>1, <2>8
    <3>3. via' = "handle" => /\ ~direct' /\ pos' = 0
                             /\ \A j \in 1 .. Len(todo') : Len(todo'[j]) < BufSize
      <4>1. ~(via = "handle" /\ via = "write_all")
        OBVIOUS
      <4>2. via = "handle" => ~direct' /\ via # "write_all"
        BY <2>8, <4>1
      <4>3. via' = via /\ pos' = 0 /\ todo' = Calls(file)
        BY <2>1
      <4>4. via = "handle" => \A j \in 1 .. Len(Calls(file)) : Len(Calls(file)[j]) < BufSize
        BY <1>1, <1>3, <4>1 DEF Fits
      <4> QED BY <4>2, <4>3, <4>4
    <3>4. via' = "write_all" => buf' = <<>> /\ Len(todo') <= 1 /\ (todo' # <<>> => direct')
      <4>1. via = "write_all" => direct' /\ Len(Calls(file)) = 1
        BY <1>3, <2>8
      <4>2. buf' = <<>> /\ via' = via /\ todo' = Calls(file)
        BY <1>1, <2>1
      <4> QED BY <4>1, <4>2
    <3> QED BY <3>1, <3>2, <3>3, <3>4 DEF WritingInv
  <2>6. DroppingInv' /\ ReadingInv' /\ RefusedInv'
    BY <1>4 DEF DroppingInv, ReadingInv, RefusedInv
  <2>7. (got \in Seq(Cells) /\ buf \in Seq(Cells))'
    BY <2>1 DEF StreamInv, reader
  <2> QED BY <2>2, <2>3, <2>4, <2>5, <2>6, <2>7 DEF StreamInv
<1>5. CASE phase' # "Writing"
  <2>1. /\ (zone' = Blank /\ stored' = NoFile) \/ UNCHANGED <<zone, history>>
        /\ phase' = "Idle" /\ outcome' = "Failed" /\ file' = NoFile
        /\ UNCHANGED <<durable, pos, todo, direct, via, buf, reader, flushed>>
    BY <1>5 DEF ResetZone, history
  <2>2. StreamTypeOK'
    BY <1>2, <2>1 DEF StreamInv, StreamTypeOK, reader, history
  <2>3. ZoneInv' /\ StoredInv'
    BY <2>1 DEF StreamInv, ZoneInv, StoredInv, history
  <2>4. FileInv' /\ WritingInv' /\ DroppingInv' /\ ReadingInv' /\ RefusedInv'
    BY <1>1, <2>1 DEF FileInv, WritingInv, DroppingInv, ReadingInv, RefusedInv
  <2>5. (got \in Seq(Cells) /\ buf \in Seq(Cells))'
    BY <2>1 DEF StreamInv, reader
  <2> QED BY <2>2, <2>3, <2>4, <2>5 DEF StreamInv
<1> QED BY <1>4, <1>5

LEMMA CopyKeeps ==
    ASSUME StreamInv, Copy
    PROVE  StreamInv'
<1>1. PICK head, rest, f, p : head = Head(todo) /\ rest = Tail(todo) /\ f = file /\ p = pos
  OBVIOUS
<1>2. /\ phase = "Writing" /\ todo # <<>> /\ ~direct /\ Len(head) <= BufSize - Len(buf)
      /\ buf' = buf \o head /\ todo' = rest
      /\ UNCHANGED <<zone, durable, via, pos, phase, file, direct, reader, outcome, history>>
  BY <1>1 DEF Copy, Spare
<1>3. /\ Fits(f, ZoneBytes) /\ zone = Written(f, p) /\ p \in Nat
      /\ Piece(buf, f, p) /\ Laid(todo, f, p + Len(buf))
      /\ via # "cursor" => p % SectorSize = 0
      /\ via = "handle" => /\ todo # <<>> => p = 0
                           /\ \A j \in 1 .. Len(todo) : Len(todo[j]) < BufSize
      /\ via = "write_all" => direct
  BY <1>1, <1>2 DEF StreamInv, StreamTypeOK, FileInv, WritingInv
<1>4. /\ Piece(head, f, p + Len(buf)) /\ Len(head) \in Nat
      /\ Laid(rest, f, p + Len(buf) + Len(head))
      /\ Len(todo) \in Nat \ {0} /\ Len(rest) = Len(todo) - 1
      /\ \A j \in 1 .. Len(rest) : rest[j] = todo[j + 1]
  <2>1. todo # <<>> /\ Fits(f, ZoneBytes) /\ Laid(todo, f, p + Len(buf))
    BY <1>2, <1>3
  <2> QED BY <1>1, <2>1, LaidHead
<1>5. Piece(buf', f, p) /\ Len(buf') = Len(buf) + Len(head) /\ Len(buf) \in Nat
  <2>1. Piece(buf, f, p) /\ Piece(head, f, p + Len(buf)) /\ p \in Nat
    BY <1>3, <1>4
  <2>2. /\ Piece(buf \o head, f, p) /\ Len(buf \o head) = Len(buf) + Len(head)
        /\ Len(buf) \in Nat
    BY <2>1, PieceConcat
  <2> QED BY <1>2, <2>2
<1>6. p + Len(buf') = p + Len(buf) + Len(head)
  <2>1. PICK a, b \in Nat : a = Len(buf) /\ b = Len(head)
    BY <1>4, <1>5
  <2>2. p + (a + b) = p + a + b
    BY <1>3
  <2> QED BY <1>5, <2>1, <2>2
<1>7. StreamTypeOK'
  <2>1. Len(todo') <= 3 /\ Len(buf') <= BufSize
    <3>1. Len(todo) <= 3
      BY DEF StreamInv, StreamTypeOK
    <3>2. Len(todo') <= 3
      BY <1>2, <1>4, <3>1
    <3>3. Len(buf') <= BufSize
      BY <1>2, <1>4, <1>5, Sizes
    <3> QED BY <3>2, <3>3
  <2> QED BY <1>2, <2>1 DEF StreamInv, StreamTypeOK, reader, history
<1>8. (got \in Seq(Cells) /\ buf \in Seq(Cells))'
  BY <1>2, <1>5 DEF StreamInv, reader, Piece
<1>9. ZoneInv' /\ StoredInv' /\ FileInv'
  BY <1>2 DEF StreamInv, ZoneInv, StoredInv, FileInv, history
<1>10. WritingInv'
  <2>1. zone' = Written(file', pos') /\ Piece(buf', file', pos')
    BY <1>1, <1>2, <1>3, <1>5
  <2>2. Laid(todo', file', pos' + Len(buf'))
    BY <1>1, <1>2, <1>4, <1>6
  <2>3. ASSUME via = "handle", NEW j \in 1 .. Len(todo')
        PROVE  Len(todo'[j]) < BufSize
    <3>1. j + 1 \in 1 .. Len(todo) /\ todo'[j] = todo[j + 1]
      BY <1>2, <1>4
    <3> QED BY <1>3, <2>3, <3>1
  <2> QED BY <1>1, <1>2, <1>3, <2>1, <2>2, <2>3 DEF WritingInv
<1>11. DroppingInv' /\ ReadingInv' /\ RefusedInv'
  BY <1>2 DEF DroppingInv, ReadingInv, RefusedInv
<1> QED BY <1>7, <1>8, <1>9, <1>10, <1>11 DEF StreamInv

\* A call that writes the next bytes of a file.
LEMMA WriteKeeps ==
    ASSUME StreamInv, NEW f, Fits(f, ZoneBytes), NEW data, NEW c, NEW n, n = pos,
           zone = Written(f, n), Piece(data, f, n), Write(data, c),
           durable' = IF pos < durable THEN pos ELSE durable,
           via # "cursor" => c % SectorSize = 0
    PROVE  /\ zone' = Written(f, n + c) /\ pos' = n + c
           /\ c \in 1 .. Len(data) /\ c \in Nat /\ n \in Nat
           /\ ZoneInv' /\ zone' \in [Offsets -> Cells]
           /\ durable' \in 0 .. ZoneBytes /\ pos' \in 0 .. ZoneBytes + Align
<1>1. n \in 0 .. ZoneBytes + Align /\ durable \in 0 .. ZoneBytes
      /\ ZoneBytes \in Nat /\ Align \in Nat /\ f \in Files
  BY Sizes DEF StreamInv, StreamTypeOK, Fits
<1>2. /\ zone' = Written(f, n + c) /\ pos' = n + c
      /\ c \in 1 .. Len(data) /\ c \in Nat /\ n + c <= ZoneBytes
  BY <1>1, WriteLaysOn
<1>3. n + c \in Nat /\ n \in Nat /\ n + c \in 0 .. ZoneBytes /\ n + c \in 0 .. ZoneBytes + Align
  BY <1>1, <1>2
<1>4. zone' \in [Offsets -> Cells]
  BY <1>2, <1>3, WrittenZone
<1>5. ZoneInv'
  BY <1>1, <1>2, <1>3 DEF ZoneInv
<1>6. durable' \in 0 .. ZoneBytes
  BY <1>1
<1> QED BY <1>2, <1>3, <1>4, <1>5, <1>6

LEMMA EmptyPiece ==
    ASSUME NEW f, NEW n
    PROVE  Piece(<<>>, f, n)
BY DEF Piece

LEMMA WriteThroughKeeps ==
    ASSUME StreamInv, WriteThrough
    PROVE  StreamInv'
<1>1. PICK head, rest, f, p : head = Head(todo) /\ rest = Tail(todo) /\ f = file /\ p = pos
  OBVIOUS
<1>2. /\ phase = "Writing" /\ todo # <<>> /\ UNCHANGED <<via, file, buf, reader, history>>
      /\ direct \/ (buf = <<>> /\ Len(head) >= BufSize)
  BY <1>1 DEF WriteThrough
<1>3. /\ Fits(f, ZoneBytes) /\ via \in Writers /\ zone = Written(f, p) /\ p \in Nat
      /\ buf = <<>> /\ Laid(todo, f, p + Len(buf)) /\ stored = NoFile
      /\ via # "cursor" => p % SectorSize = 0
      /\ via = "write_all" => Len(todo) <= 1
      /\ via = "handle" => ~direct /\ \A j \in 1 .. Len(todo) : Len(todo[j]) < BufSize
  BY <1>1, <1>2 DEF StreamInv, StreamTypeOK, FileInv, WritingInv, StoredInv
<1>4. Laid(todo, f, p)
  <2>1. p + Len(buf) = p
    BY <1>3
  <2> QED BY <1>3, <2>1
<1>5. /\ head = todo[1] /\ Piece(head, f, p) /\ Len(head) \in Nat
      /\ Len(todo) \in Nat \ {0} /\ Len(rest) = Len(todo) - 1
      /\ Laid(rest, f, p + Len(head))
  <2>1. todo # <<>> /\ Fits(f, ZoneBytes)
    BY <1>2, <1>3
  <2> QED BY <1>1, <1>4, <2>1, LaidHead
<1>6. via # "handle"
  <2>1. 1 \in 1 .. Len(todo)
    BY <1>5
  <2>2. via = "handle" => Len(head) < BufSize
    BY <1>3, <1>5, <2>1
  <2> QED BY <1>2, <1>3, <1>5, <2>2, Sizes
<1>7. ASSUME via # "cursor"
      PROVE  rest = <<>> /\ Len(head) % SectorSize = 0 /\ p % SectorSize = 0
  <2>1. via = "write_all"
    BY <1>3, <1>6, <1>7 DEF Writers
  <2>2. Len(rest) = 0
    BY <1>3, <1>5, <2>1
  <2>3. rest = <<>>
    BY <1>5, <2>2, EmptySeq DEF Laid
  <2>4. p + Len(head) = Total(f)
    BY <1>5, <2>3, LaidEnd
  <2>5. Total(f) % SectorSize = 0
    BY <1>3, Totals
  <2>6. PICK l \in Nat : l = Len(head)
    BY <1>5
  <2>7. l % SectorSize = 0
    BY <1>3, <1>7, <2>4, <2>5, <2>6, ModSum, Sizes
  <2> QED BY <1>3, <1>7, <2>3, <2>6, <2>7
<1>8. (got \in Seq(Cells) /\ buf \in Seq(Cells))' /\ StoredInv'
  BY <1>2, <1>3 DEF StreamInv, reader, history, StoredInv
<1>9. ASSUME NEW c \in Counts(Len(head)), Write(head, c), direct' = (c < Len(head)),
             todo' = (IF direct' THEN <<After(c, head)>> \o rest ELSE rest),
             durable' = (IF pos < durable THEN pos ELSE durable),
             UNCHANGED <<phase, outcome>>
      PROVE  StreamInv'
  <2>1. via # "cursor" => c % SectorSize = 0
    <3>1. PICK l : l = Len(head)
      OBVIOUS
    <3> QED BY <1>1, <1>3, <1>5, <1>7, <3>1, WholeCount
  <2>2. /\ zone' = Written(f, p + c) /\ pos' = p + c /\ c \in 1 .. Len(head) /\ c \in Nat
        /\ ZoneInv' /\ zone' \in [Offsets -> Cells]
        /\ durable' \in 0 .. ZoneBytes /\ pos' \in 0 .. ZoneBytes + Align
    BY <1>1, <1>3, <1>5, <1>9, <2>1, WriteKeeps
  <2>3. /\ Laid(todo', f, p + c) /\ Len(todo') <= Len(todo)
        /\ direct' => todo' # <<>>
        /\ ~direct' => todo' = rest
    <3>1. CASE direct'
      <4>1. todo' = <<After(c, head)>> \o rest
        BY <1>9, <3>1
      <4>2. c \in 0 .. Len(head) /\ todo # <<>> /\ Fits(f, ZoneBytes)
        BY <1>2, <1>3, <1>5, <2>2
      <4>3. Laid(todo', f, p + c) /\ Len(todo') = Len(todo) /\ todo' # <<>>
        BY <1>1, <1>3, <1>4, <4>1, <4>2, LaidCut
      <4> QED BY <1>5, <3>1, <4>3
    <3>2. CASE ~direct'
      <4>1. ~(c < Len(head))
        BY <1>9, <3>2
      <4>2. c = Len(head)
        BY <1>5, <2>2, <4>1
      <4>3. todo' = rest
        BY <1>9, <3>2
      <4> QED BY <1>5, <3>2, <4>2, <4>3
    <3> QED BY <3>1, <3>2
  <2>4. direct' \in BOOLEAN
    BY <1>9
  <2>5. StreamTypeOK'
    <3>1. Len(todo') <= 3
      <4>1. Len(todo) <= 3
        BY DEF StreamInv, StreamTypeOK
      <4>2. Len(todo') \in Nat
        BY <2>3, LenProperties DEF Laid
      <4> QED BY <1>5, <2>3, <4>1, <4>2
    <3>2. UNCHANGED <<via, file, buf, size, got, ragged, stored, flushed, phase, outcome>>
      BY <1>2, <1>9 DEF reader, history
    <3> QED BY <2>2, <2>4, <3>1, <3>2 DEF StreamInv, StreamTypeOK
  <2>6. FileInv'
    BY <1>1, <1>2, <1>9 DEF StreamInv, FileInv
  <2>7. WritingInv'
    <3>1. zone' = Written(file', pos') /\ buf' = <<>> /\ file' = f /\ via' = via
      BY <1>1, <1>2, <1>3, <2>2
    <3>2. Piece(buf', file', pos')
      BY <3>1, EmptyPiece
    <3>3. Laid(todo', file', pos' + Len(buf'))
      <4>1. pos' + Len(buf') = p + c
        BY <1>3, <2>2, <3>1
      <4> QED BY <2>3, <3>1, <4>1
    <3>4. via # "cursor" => pos' % SectorSize = 0
      BY <1>7, <2>1, <2>2, <1>3, ModSum, Sizes
    <3>5. via = "write_all" => Len(todo') <= 1 /\ (todo' # <<>> => direct')
      <4>1. ASSUME via = "write_all"
            PROVE  Len(todo') <= 1
        <5>1. Len(todo) <= 1 /\ Len(todo') <= Len(todo)
          BY <1>3, <2>3, <4>1
        <5>2. Len(todo') \in Nat
          BY <2>3, LenProperties DEF Laid
        <5> QED BY <1>5, <5>1, <5>2
      <4>2. ASSUME via = "write_all", ~direct'
            PROVE  todo' = <<>>
        BY <1>7, <2>3, <4>2
      <4> QED BY <4>1, <4>2
    <3> QED BY <1>6, <2>3, <3>1, <3>2, <3>3, <3>4, <3>5 DEF WritingInv
  <2>8. DroppingInv' /\ ReadingInv' /\ RefusedInv'
    BY <1>2, <1>9 DEF DroppingInv, ReadingInv, RefusedInv
  <2> QED BY <1>8, <2>2, <2>5, <2>6, <2>7, <2>8 DEF StreamInv
<1>10. ASSUME Fail, UNCHANGED <<zone, durable, pos>>
       PROVE  StreamInv'
  <2>1. phase' = "Dropping" /\ todo' = <<>> /\ direct' = FALSE /\ outcome' = "Failed"
    BY <1>10 DEF Fail
  <2>2. StreamTypeOK'
    <3>1. Len(todo') <= 3
      <4>1. todo' = <<>>
        BY <2>1
      <4> QED BY <4>1
    <3>3. direct' \in BOOLEAN
      BY <2>1
    <3>2. UNCHANGED <<via, file, buf, size, got, ragged, stored, flushed, zone, durable, pos>>
      BY <1>2, <1>10 DEF reader, history
    <3> QED BY <2>1, <3>1, <3>2, <3>3 DEF StreamInv, StreamTypeOK
  <2>3. ZoneInv' /\ FileInv'
    BY <1>2, <1>10, <2>1 DEF StreamInv, ZoneInv, FileInv
  <2>4. DroppingInv'
    <3>1. zone' = Written(file', pos') /\ buf' = <<>> /\ via' = via
      BY <1>1, <1>2, <1>3, <1>10
    <3>2. Piece(buf', file', pos')
      BY <3>1, EmptyPiece
    <3> QED BY <1>1, <1>3, <1>10, <2>1, <3>1, <3>2 DEF DroppingInv
  <2>5. WritingInv' /\ ReadingInv' /\ RefusedInv'
    BY <2>1 DEF WritingInv, ReadingInv, RefusedInv
  <2> QED BY <1>8, <2>2, <2>3, <2>4, <2>5 DEF StreamInv
<1> QED BY <1>1, <1>9, <1>10 DEF WriteThrough

LEMMA FlushKeeps ==
    ASSUME StreamInv, FlushBuf
    PROVE  StreamInv'
<1>1. PICK b, f, p : b = buf /\ f = file /\ p = pos
  OBVIOUS
<1>2. /\ b # <<>> /\ phase \in {"Writing", "Dropping"} /\ Flushing
      /\ UNCHANGED <<via, file, reader, history>>
  BY <1>1 DEF FlushBuf, Flushing
<1>3. /\ Fits(f, ZoneBytes) /\ via \in Writers /\ zone = Written(f, p) /\ p \in Nat
      /\ Piece(b, f, p) /\ Len(b) \in Nat /\ stored = NoFile /\ ~direct
      /\ via # "cursor" => p % SectorSize = 0
  <2>1. /\ Fits(f, ZoneBytes) /\ via \in Writers /\ zone = Written(f, p) /\ p \in Nat
        /\ Piece(b, f, p) /\ stored = NoFile /\ (via # "cursor" => p % SectorSize = 0)
    BY <1>1, <1>2 DEF StreamInv, StreamTypeOK, FileInv, WritingInv, DroppingInv, StoredInv
  <2>2. ~direct
    BY <1>1, <1>2 DEF StreamInv, WritingInv, DroppingInv
  <2>3. Len(b) \in Nat
    BY <2>1, LenProperties DEF Piece
  <2> QED BY <2>1, <2>2, <2>3
<1>4. PICK l \in Nat : l = Len(b)
  BY <1>3
<1>5. ASSUME via # "cursor"
      PROVE  p + l = Total(f) /\ (phase = "Writing" => todo = <<>>)
  <2>1. CASE phase = "Dropping"
    BY <1>1, <1>2, <1>4, <1>5, <2>1 DEF StreamInv, DroppingInv
  <2>2. CASE phase = "Writing"
    <3>1. via = "handle"
      BY <1>1, <1>2, <1>3, <1>5, <2>2 DEF StreamInv, WritingInv, Writers
    <3>2. /\ Laid(todo, f, p + l) /\ (todo # <<>> => p = 0) /\ Fits(f, BufSize)
      BY <1>1, <1>4, <2>2, <3>1 DEF StreamInv, WritingInv, FileInv
    <3>3. todo = <<>>
      <4> SUFFICES ASSUME todo # <<>> PROVE FALSE
        OBVIOUS
      <4>1. PICK h : h = Head(todo)
        OBVIOUS
      <4>2. p = 0 /\ Len(h) \in Nat /\ p + l + Len(h) <= Total(f)
        BY <1>3, <3>2, <4>1, LaidHead
      <4>3. Len(h) > BufSize - l
        BY <1>1, <1>4, <2>2, <4>1 DEF FlushBuf, Flushing, Spare
      <4>4. Total(f) <= BufSize /\ Total(f) \in Nat
        BY <1>3, <3>2, Totals DEF Fits
      <4>5. PICK k \in Nat : k = Len(h)
        BY <4>2
      <4> QED BY <4>2, <4>3, <4>4, <4>5, Sizes
    <3> QED BY <3>2, <3>3, LaidEnd
  <2> QED BY <1>2, <2>1, <2>2
<1>6. StoredInv' /\ (got \in Seq(Cells))'
  BY <1>2, <1>3 DEF StreamInv, StoredInv, reader, history
<1>7. ASSUME NEW c \in Counts(l), Write(b, c), buf' = After(c, b),
             durable' = (IF pos < durable THEN pos ELSE durable),
             UNCHANGED <<phase, todo, direct, outcome>>
      PROVE  StreamInv'
  <2>1. via # "cursor" => c % SectorSize = 0
    <3>1. ASSUME via # "cursor"
          PROVE  c % SectorSize = 0
      <4>1. l % SectorSize = 0 /\ p % SectorSize = 0
        BY <1>3, <1>5, <3>1, Totals, ModSum, Sizes
      <4> QED BY <1>1, <1>3, <3>1, <4>1, WholeCount
    <3> QED BY <3>1
  <2>2. /\ zone' = Written(f, p + c) /\ pos' = p + c /\ c \in 1 .. l /\ c \in Nat
        /\ ZoneInv' /\ zone' \in [Offsets -> Cells]
        /\ durable' \in 0 .. ZoneBytes /\ pos' \in 0 .. ZoneBytes + Align
    BY <1>1, <1>3, <1>4, <1>7, <2>1, WriteKeeps
  <2>3. Piece(buf', f, p + c) /\ Len(buf') = l - c /\ p + c + Len(buf') = p + l
    <3>1. c \in 0 .. Len(b)
      BY <1>4, <2>2
    <3>2. Piece(After(c, b), f, p + c) /\ Len(After(c, b)) = Len(b) - c
          /\ p + c + Len(After(c, b)) = p + Len(b)
      BY <1>3, <3>1, PieceAfter
    <3> QED BY <1>4, <1>7, <3>2
  <2>4. buf' \in Seq(Cells)
    BY <2>3 DEF Piece
  <2>5. UNCHANGED <<via, file, size, got, ragged, stored, flushed, phase, todo, direct, outcome>>
    BY <1>2, <1>7 DEF reader, history
  <2>6. StreamTypeOK'
    <3>1. Len(buf') <= BufSize
      <4>1. l <= BufSize
        BY <1>1, <1>4 DEF StreamInv, StreamTypeOK
      <4> QED BY <2>2, <2>3, <4>1, Sizes
    <3> QED BY <2>2, <2>5, <3>1 DEF StreamInv, StreamTypeOK
  <2>7. FileInv'
    BY <1>2, <2>5 DEF StreamInv, FileInv
  <2>8. via # "cursor" => pos' % SectorSize = 0
    BY <1>3, <2>1, <2>2, ModSum, Sizes
  <2>9. WritingInv'
    <3> SUFFICES ASSUME phase = "Writing" PROVE WritingInv'
      BY <2>5 DEF WritingInv
    <3>1. zone' = Written(file', pos') /\ Piece(buf', file', pos')
      BY <1>1, <2>2, <2>3, <2>5
    <3>2. Laid(todo', file', pos' + Len(buf'))
      <4>1. Laid(todo, f, p + l)
        BY <1>1, <1>4 DEF StreamInv, WritingInv
      <4> QED BY <1>1, <2>2, <2>3, <2>5, <4>1
    <3>3. via # "write_all"
      BY <1>1, <1>2 DEF StreamInv, WritingInv
    <3>4. via = "handle" => todo' = <<>> /\ \A j \in 1 .. Len(todo') : Len(todo'[j]) < BufSize
      BY <1>5, <2>5 DEF StreamInv, WritingInv
    <3> QED BY <1>3, <2>5, <2>8, <3>1, <3>2, <3>3, <3>4 DEF WritingInv
  <2>10. DroppingInv'
    <3> SUFFICES ASSUME phase = "Dropping" PROVE DroppingInv'
      BY <2>5 DEF DroppingInv
    <3>1. zone' = Written(file', pos') /\ Piece(buf', file', pos')
      BY <1>1, <2>2, <2>3, <2>5
    <3>2. via # "cursor" => pos' + Len(buf') = Total(file')
      BY <1>1, <1>5, <2>2, <2>3, <2>5
    <3> QED BY <2>5, <2>8, <3>1, <3>2 DEF StreamInv, DroppingInv
  <2>11. ReadingInv' /\ RefusedInv'
    BY <1>2, <2>5 DEF ReadingInv, RefusedInv
  <2> QED BY <1>6, <2>2, <2>4, <2>6, <2>7, <2>9, <2>10, <2>11 DEF StreamInv
<1>8. ASSUME phase = "Writing", Fail, UNCHANGED <<buf, zone, durable, pos>>
      PROVE  StreamInv'
  <2>1. phase' = "Dropping" /\ todo' = <<>> /\ direct' = FALSE /\ outcome' = "Failed"
    BY <1>8 DEF Fail
  <2>2. UNCHANGED <<via, file, size, got, ragged, stored, flushed, buf, zone, durable, pos>>
    BY <1>2, <1>8 DEF reader, history
  <2>3. StreamTypeOK'
    <3>1. Len(todo') <= 3
      <4>1. todo' = <<>>
        BY <2>1
      <4> QED BY <4>1
    <3>2. direct' \in BOOLEAN
      BY <2>1
    <3> QED BY <2>1, <2>2, <3>1, <3>2 DEF StreamInv, StreamTypeOK
  <2>4. ZoneInv' /\ FileInv' /\ buf' \in Seq(Cells)
    BY <1>2, <2>1, <2>2 DEF StreamInv, ZoneInv, FileInv
  <2>5. DroppingInv'
    <3>1. zone' = Written(file', pos') /\ Piece(buf', file', pos')
      BY <1>1, <1>3, <2>2
    <3>2. via # "cursor" => pos' % SectorSize = 0 /\ pos' + Len(buf') = Total(file')
      BY <1>1, <1>3, <1>4, <1>5, <2>2
    <3> QED BY <2>1, <2>2, <3>1, <3>2 DEF DroppingInv
  <2>6. WritingInv' /\ ReadingInv' /\ RefusedInv'
    BY <2>1 DEF WritingInv, ReadingInv, RefusedInv
  <2> QED BY <1>6, <2>3, <2>4, <2>5, <2>6 DEF StreamInv
<1>9. ASSUME phase = "Dropping", buf' = <<>>,
             UNCHANGED <<phase, todo, direct, outcome, zone, durable, pos>>
      PROVE  StreamInv'
  <2>1. /\ UNCHANGED <<via, file, size, got, ragged, stored, flushed, phase, todo, direct, outcome,
                       zone, durable, pos>>
    BY <1>2, <1>9 DEF reader, history
  <2>2. StreamTypeOK' /\ buf' \in Seq(Cells)
    <3>1. Len(buf') <= BufSize /\ buf' \in Seq(Cells)
      BY <1>9, Sizes
    <3> QED BY <2>1, <3>1 DEF StreamInv, StreamTypeOK
  <2>3. ZoneInv' /\ FileInv'
    BY <1>9, <2>1 DEF StreamInv, ZoneInv, FileInv
  <2>4. DroppingInv'
    <3>1. Piece(buf', file', pos')
      BY <1>9, EmptyPiece
    <3> QED BY <1>9, <2>1, <3>1 DEF StreamInv, DroppingInv
  <2>5. WritingInv' /\ ReadingInv' /\ RefusedInv'
    BY <1>9, <2>1 DEF WritingInv, ReadingInv, RefusedInv
  <2> QED BY <1>6, <2>2, <2>3, <2>4, <2>5 DEF StreamInv
<1> QED BY <1>1, <1>2, <1>4, <1>7, <1>8, <1>9 DEF FlushBuf

LEMMA SyncKeeps ==
    ASSUME StreamInv, Sync
    PROVE  StreamInv'
<1>1. /\ phase = "Writing" /\ todo = <<>> /\ buf = <<>> /\ phase' = "Idle" /\ file' = NoFile
      /\ UNCHANGED <<zone, via, pos, todo, buf, direct, reader>>
      /\ outcome' \in {"Ok", "Failed"}
      /\ \/ /\ stored' = file /\ flushed' = (via # "write_all")
            /\ durable' = IF via = "write_all" THEN durable ELSE ZoneBytes
         \/ UNCHANGED <<durable, stored, flushed>>
  BY DEF Sync, history
<1>2. /\ Fits(file, ZoneBytes) /\ zone = Written(file, pos) /\ Laid(<<>>, file, pos + Len(buf))
      /\ pos \in Nat /\ ~direct /\ stored = NoFile /\ durable \in 0 .. ZoneBytes
  BY <1>1 DEF StreamInv, StreamTypeOK, FileInv, WritingInv, StoredInv
<1>3. pos = Total(file)
  <2>1. pos + Len(buf) = pos
    BY <1>1, <1>2
  <2> QED BY <1>2, <2>1, LaidEnd
<1>4. StoredInv'
  <2>1. CASE stored' = file /\ flushed' = (via # "write_all")
             /\ durable' = IF via = "write_all" THEN durable ELSE ZoneBytes
    <3>1. flushed' => durable' = ZoneBytes
      BY <2>1
    <3> QED BY <1>1, <1>2, <1>3, <2>1, <3>1 DEF StoredInv
  <2>2. CASE UNCHANGED <<durable, stored, flushed>>
    BY <1>2, <2>2 DEF StoredInv
  <2> QED BY <1>1, <2>1, <2>2
<1>5. StreamTypeOK'
  <2>1. durable' \in 0 .. ZoneBytes
    BY <1>1, <1>2, Sizes
  <2>2. stored' \in Files \cup {NoFile}
    BY <1>1 DEF StreamInv, StreamTypeOK
  <2>3. flushed' \in BOOLEAN
    BY <1>1 DEF StreamInv, StreamTypeOK
  <2>4. phase' = "Idle" /\ file' = NoFile /\ outcome' \in {"Ok", "Failed"}
        /\ UNCHANGED <<zone, via, pos, todo, buf, direct, size, got, ragged>>
    BY <1>1 DEF reader
  <2> QED BY <2>1, <2>2, <2>3, <2>4 DEF StreamInv, StreamTypeOK
<1>6. ZoneInv'
  <2>1. Total(file) \in 0 .. ZoneBytes /\ file \in Files
    BY <1>2, Totals, Sizes
  <2> QED BY <1>1, <1>2, <1>3, <2>1 DEF ZoneInv
<1>7. FileInv' /\ WritingInv' /\ DroppingInv' /\ ReadingInv' /\ RefusedInv'
  BY <1>1, <1>2 DEF FileInv, WritingInv, DroppingInv, ReadingInv, RefusedInv
<1>8. (got \in Seq(Cells) /\ buf \in Seq(Cells))'
  BY <1>1 DEF StreamInv, reader
<1> QED BY <1>4, <1>5, <1>6, <1>7, <1>8 DEF StreamInv

LEMMA EndDropKeeps ==
    ASSUME StreamInv, EndDrop
    PROVE  StreamInv'
<1>1. /\ phase = "Dropping" /\ buf = <<>> /\ phase' = "Idle" /\ file' = NoFile
      /\ UNCHANGED <<zone, durable, via, pos, todo, buf, direct, size, got, ragged, outcome, stored,
                     flushed>>
  BY DEF EndDrop, reader, history
<1>2. todo = <<>> /\ ~direct /\ outcome = "Failed" /\ stored = NoFile
  BY <1>1 DEF StreamInv, DroppingInv, StoredInv
<1>3. StreamTypeOK' /\ ZoneInv' /\ (got \in Seq(Cells) /\ buf \in Seq(Cells))'
  BY <1>1 DEF StreamInv, StreamTypeOK, ZoneInv
<1>4. StoredInv' /\ FileInv' /\ WritingInv' /\ DroppingInv' /\ ReadingInv' /\ RefusedInv'
  BY <1>1, <1>2 DEF StoredInv, FileInv, WritingInv, DroppingInv, ReadingInv, RefusedInv
<1> QED BY <1>3, <1>4 DEF StreamInv

LEMMA ReadHeaderKeeps ==
    ASSUME StreamInv, NEW v \in Readers, ReadHeader(v)
    PROVE  StreamInv'
<1>1. /\ phase = "Idle" /\ via' = v /\ pos' = SeekStart(0) /\ got' = <<>>
      /\ UNCHANGED <<zone, durable, file, todo, buf, direct, stored, flushed>>
  BY DEF ReadHeader, writer, history
<1>2. pos' = 0
  BY <1>1, Sizes DEF SeekStart, Aligned
<1>3. \A k : Lengths(k)' = Lengths(k) /\ Lengths(k) \subseteq Nat
  BY <1>1, SameZone, LengthsAreNumbers
<1>4. \/ \E k \in HeaderCounts(v) : \E n \in Lengths(k) :
            /\ n # 0 /\ n <= ZoneBytes /\ outcome' = "None" /\ phase' = "Reading"
            /\ size' = n /\ ragged' = (k < Header)
      \/ /\ phase' = "Idle" /\ size' = size
         /\ \/ /\ outcome' = "Refused"
               /\ \E k \in HeaderCounts(v) :
                      ragged' = (k < Header) /\ \E n \in Lengths(k) : n = 0 \/ n > ZoneBytes
            \/ outcome' = "Failed" /\ ragged' = FALSE
  <2>1. ASSUME NEW k \in HeaderCounts(v), NEW n \in Lengths(k), ~(n = 0 \/ n > ZoneBytes)
        PROVE  n # 0 /\ n <= ZoneBytes
    BY <1>3, <2>1, Sizes
  <2> QED BY <1>1, <2>1 DEF ReadHeader
<1>a. \A k \in HeaderCounts(v) : k \in Nat /\ (~(k < Header) => k = Header)
  <2>1. \A k \in 1 .. Header : k \in Nat /\ (~(k < Header) => k = Header)
    BY Sizes
  <2>2. \A k \in {Header} : k \in Nat /\ (~(k < Header) => k = Header)
    BY Sizes
  <2> QED BY <2>1, <2>2 DEF HeaderCounts
<1>5. /\ phase' \in {"Idle", "Reading"} /\ size' \in 0 .. ZoneBytes
      /\ outcome' \in {"None", "Refused", "Failed"} /\ ragged' \in BOOLEAN
  <2>1. size \in 0 .. ZoneBytes
    BY DEF StreamInv, StreamTypeOK
  <2>2. ASSUME NEW k \in HeaderCounts(v), NEW n \in Lengths(k), n # 0, n <= ZoneBytes
        PROVE  n \in 0 .. ZoneBytes
    BY <1>3, <2>2, Sizes
  <2>3. \A k : (k < Header) \in BOOLEAN
    OBVIOUS
  <2> QED BY <1>4, <2>1, <2>2, <2>3
<1>6. StreamTypeOK'
  <2>1. Len(got') <= RoundUp(Header + size')
    <3>1. RoundUp(Header + size') \in Nat
      BY <1>5, Sizes, RoundsUp
    <3>2. Len(got') = 0
      BY <1>1
    <3> QED BY <3>1, <3>2
  <2>2. pos' \in 0 .. ZoneBytes + Align
    BY <1>2, Sizes
  <2> QED BY <1>1, <1>5, <2>1, <2>2 DEF StreamInv, StreamTypeOK
<1>7. (got \in Seq(Cells) /\ buf \in Seq(Cells))'
  BY <1>1 DEF StreamInv
<1>8. ZoneInv' /\ StoredInv' /\ FileInv'
  BY <1>1, <1>5 DEF StreamInv, ZoneInv, StoredInv, FileInv
<1>9. WritingInv' /\ DroppingInv'
  BY <1>5 DEF WritingInv, DroppingInv
<1>10. ReadingInv'
  <2> SUFFICES ASSUME (phase = "Reading" \/ (phase = "Idle" /\ outcome = "Read"))'
               PROVE  ReadingInv'
    BY DEF ReadingInv
  <2>1. PICK k \in HeaderCounts(v) :
            /\ size' \in Lengths(k) /\ size' # 0 /\ phase' = "Reading"
            /\ ragged' = (k < Header)
    BY <1>4
  <2>2. Len(got') = 0
    BY <1>1
  <2>3. Len(got') % SectorSize = 0
    BY <2>2, Sizes
  <2>4. ~ragged' => size' \in Lengths(Header)'
    BY <1>3, <1>a, <2>1
  <2> QED BY <1>1, <1>2, <2>1, <2>2, <2>3, <2>4 DEF ReadingInv
<1>11. RefusedInv'
  <2> SUFFICES ASSUME outcome' = "Refused", ~ragged'
               PROVE  \E n \in Lengths(Header)' : n = 0 \/ n > ZoneBytes
    BY DEF RefusedInv
  <2>1. PICK k \in HeaderCounts(v) :
            ragged' = (k < Header) /\ \E n \in Lengths(k) : n = 0 \/ n > ZoneBytes
    BY <1>4
  <2>2. k = Header
    BY <1>a, <2>1
  <2> QED BY <1>3, <2>1, <2>2
<1> QED BY <1>6, <1>7, <1>8, <1>9, <1>10, <1>11 DEF StreamInv

\* The buffer of a read: no longer than the zone and a block.
LEMMA ReadLens ==
    ASSUME size \in 0 .. ZoneBytes
    PROVE  ReadLen \in Nat /\ ReadLen % SectorSize = 0 /\ ReadLen <= ZoneBytes + Align
<1>1. PICK n \in Nat : n = Header + size
  BY Sizes
<1>2. n <= ZoneBytes + Align
  BY <1>1, Sizes, BlockSizes
<1>3. ZoneBytes + Align \in Nat /\ (ZoneBytes + Align) % Align = 0
  <2>1. Align % Align = 0
    BY Sizes
  <2>2. PICK z \in Nat, a \in Nat \ {0} : z = ZoneBytes /\ a = Align
    BY Sizes
  <2>3. (z + a) % a = 0
    BY <2>1, <2>2, Sizes, ModSum
  <2> QED BY <2>2, <2>3
<1> QED BY <1>1, <1>2, <1>3, RoundsUp DEF ReadLen

\* A read of c bytes: they are bytes of the zone, and the c bytes from its place on.
LEMMA ReadBytesAre ==
    ASSUME zone \in [Offsets -> Cells], NEW c \in Nat
    PROVE  /\ ReadBytes(c) \in Seq(Cells) /\ Len(ReadBytes(c)) = c
           /\ \A k \in 1 .. c : ReadBytes(c)[k] = ByteAt(ReadPlace + k - 1)
<1>1. \A i : ByteAt(i) \in Cells
  BY DEF ByteAt, Cells
<1>2. ReadBytes(c) \in [1 .. c -> Cells]
  BY <1>1 DEF ReadBytes
<1>3. \A k \in 1 .. c : ReadBytes(c)[k] = ByteAt(ReadPlace + k - 1)
  BY DEF ReadBytes
<1> QED BY <1>2, <1>3

LEMMA ReadOnKeeps ==
    ASSUME StreamInv, ReadOn
    PROVE  StreamInv'
<1>1. PICK s : s = got
  OBVIOUS
<1>2. /\ phase = "Reading" /\ via # "read_once"
      /\ UNCHANGED <<zone, durable, via, file, todo, buf, direct, size, stored, flushed>>
  BY DEF ReadOn, writer, history
<1>3. /\ via \in Readers /\ size # 0 /\ size \in 0 .. ZoneBytes
      /\ s \in Seq(Cells) /\ Len(s) \in Nat /\ Len(s) <= ReadLen
      /\ via = "cursor" => pos = Len(s)
      /\ ~ragged => /\ size \in Lengths(Header)
                    /\ \A k \in 1 .. Len(s) : s[k] = ByteAt(k - 1)
                    /\ via = "read_at" => Len(s) % SectorSize = 0
      /\ zone \in [Offsets -> Cells] /\ pos \in 0 .. ZoneBytes + Align
  <2>1. /\ via \in Readers /\ size # 0 /\ size \in 0 .. ZoneBytes
        /\ s \in Seq(Cells) /\ Len(s) <= ReadLen
        /\ via = "cursor" => pos = Len(s)
        /\ ~ragged => /\ size \in Lengths(Header)
                      /\ \A k \in 1 .. Len(s) : s[k] = ByteAt(k - 1)
                      /\ via = "read_at" => Len(s) % SectorSize = 0
        /\ zone \in [Offsets -> Cells] /\ pos \in 0 .. ZoneBytes + Align
    BY <1>1, <1>2 DEF StreamInv, StreamTypeOK, ReadingInv, ReadLen
  <2>2. Len(s) \in Nat
    BY <2>1, LenProperties
  <2> QED BY <2>1, <2>2
<1>4. ReadLen \in Nat /\ ReadLen % SectorSize = 0 /\ ReadLen <= ZoneBytes + Align
      /\ ReadLen' = ReadLen /\ ReadLen = RoundUp(Header + size)
  BY <1>2, <1>3, ReadLens DEF ReadLen
<1>5. ZoneInv' /\ buf' \in Seq(Cells)
  BY <1>2 DEF StreamInv, ZoneInv
<1>6. Lengths(Header)' = Lengths(Header) /\ \A i : ByteAt(i)' = ByteAt(i)
  BY <1>2, SameZone DEF ByteAt
<1>7. ASSUME NEW c \in 1 .. ReadLen - Len(s),
             via = "cursor" => Place(pos) # Refused,
             got' = s \o ReadBytes(c),
             pos' = (IF via = "cursor" THEN pos + c ELSE pos),
             ragged' = (ragged \/ (via = "read_at" /\ Len(got') % SectorSize # 0)),
             UNCHANGED <<phase, outcome>>
      PROVE  StreamInv'
  <2>1. PICK l \in Nat : l = Len(s)
    BY <1>3
  <2>2. c \in Nat /\ c >= 1 /\ l + c <= ReadLen
    BY <1>4, <1>7, <2>1
  <2>3. ReadPlace = l \/ (ragged /\ via # "cursor")
    <3>1. CASE via = "cursor"
      <4>1. pos = l /\ l \in Unsigned
        BY <1>3, <2>1, <3>1, Sizes DEF Unsigned
      <4> QED BY <1>7, <3>1, <4>1, CursorActsInPlace DEF ReadPlace
    <3>2. CASE via # "cursor" /\ ~ragged
      BY <1>1, <1>2, <1>3, <2>1, <3>2 DEF ReadPlace, Readers
    <3> QED BY <3>1, <3>2
  <2>4. PICK t : t = ReadBytes(c)
    OBVIOUS
  <2>5. /\ t \in Seq(Cells) /\ Len(t) = c
        /\ \A k \in 1 .. c : t[k] = ByteAt(ReadPlace + k - 1)
    BY <1>3, <2>2, <2>4, ReadBytesAre
  <2>6. /\ got' \in Seq(Cells) /\ Len(got') = l + c
        /\ \A i \in 1 .. l + c : got'[i] = IF i <= l THEN s[i] ELSE t[i - l]
    <3>1. got' = s \o t
      BY <1>7, <2>4
    <3>2. /\ s \o t \in Seq(Cells) /\ Len(s \o t) = Len(s) + Len(t)
          /\ \A i \in 1 .. Len(s) + Len(t) :
                 (s \o t)[i] = IF i <= Len(s) THEN s[i] ELSE t[i - Len(s)]
      BY <1>3, <2>5, ConcatProperties
    <3> QED BY <2>1, <2>5, <3>1, <3>2
  <2>7. ASSUME ~ragged, NEW k \in 1 .. l + c
        PROVE  got'[k] = ByteAt(k - 1)
    <3>1. CASE k <= l
      <4>1. k \in 1 .. Len(s)
        BY <2>1, <2>2, <3>1
      <4> QED BY <1>3, <2>6, <2>7, <3>1, <4>1
    <3>2. CASE ~(k <= l)
      <4>1. k - l \in 1 .. c /\ l + (k - l) - 1 = k - 1
        BY <2>1, <2>2, <3>2
      <4>2. t[k - l] = ByteAt(l + (k - l) - 1)
        BY <2>3, <2>5, <2>7, <4>1
      <4> QED BY <2>6, <3>2, <4>1, <4>2
    <3> QED BY <3>1, <3>2
  <2>8. pos' \in 0 .. ZoneBytes + Align
    BY <1>3, <1>4, <1>7, <2>1, <2>2, Sizes
  <2>9. ragged' \in BOOLEAN
    BY <1>7
  <2>10. StreamTypeOK'
    <3>1. Len(got') <= RoundUp(Header + size')
      BY <1>2, <1>4, <2>2, <2>6
    <3> QED BY <1>2, <1>7, <2>8, <2>9, <3>1 DEF StreamInv, StreamTypeOK
  <2>11. StoredInv' /\ FileInv'
    BY <1>2, <1>7 DEF StreamInv, StoredInv, FileInv
  <2>12. WritingInv' /\ DroppingInv' /\ RefusedInv'
    BY <1>2, <1>7 DEF WritingInv, DroppingInv, RefusedInv
  <2>13. ReadingInv'
    <3>1. ~ragged' => ~ragged /\ (via = "read_at" => Len(got') % SectorSize = 0)
      BY <1>7
    <3>2. ~ragged => \A k \in 1 .. Len(got') : got'[k] = ByteAt(k - 1)'
      BY <1>6, <2>6, <2>7
    <3>3. via = "cursor" => pos' = Len(got')
      BY <1>3, <1>7, <2>1, <2>6
    <3>4. phase' = "Reading" /\ via' # "read_once"
      BY <1>2, <1>7
    <3> QED BY <1>2, <1>3, <1>6, <3>1, <3>2, <3>3, <3>4 DEF ReadingInv
  <2> QED BY <1>5, <2>6, <2>10, <2>11, <2>12, <2>13 DEF StreamInv
<1>8. ASSUME phase' = "Idle", outcome' = "Failed", UNCHANGED <<got, ragged, pos>>
      PROVE  StreamInv'
  <2>1. StreamTypeOK' /\ StoredInv' /\ FileInv' /\ (got \in Seq(Cells))'
    BY <1>2, <1>8 DEF StreamInv, StreamTypeOK, StoredInv, FileInv
  <2>2. WritingInv' /\ DroppingInv' /\ ReadingInv' /\ RefusedInv'
    BY <1>8 DEF WritingInv, DroppingInv, ReadingInv, RefusedInv
  <2> QED BY <1>5, <2>1, <2>2 DEF StreamInv
<1> QED BY <1>1, <1>7, <1>8 DEF ReadOn

LEMMA ReadOnceKeeps ==
    ASSUME StreamInv, ReadOnce
    PROVE  StreamInv'
<1>1. /\ phase = "Reading" /\ via = "read_once" /\ phase' = "Idle"
      /\ UNCHANGED <<zone, durable, via, pos, file, todo, buf, direct, size, ragged, stored,
                     flushed>>
  BY DEF ReadOnce, writer, history
<1>2. /\ got = <<>> /\ size # 0 /\ size \in 0 .. ZoneBytes
      /\ zone \in [Offsets -> Cells]
      /\ ~ragged => size \in Lengths(Header)
  BY <1>1 DEF StreamInv, StreamTypeOK, ReadingInv
<1>3. ReadLen \in Nat /\ ReadLen = RoundUp(Header + size) /\ Header + size \in Nat
  BY <1>2, ReadLens, Sizes DEF ReadLen
<1>4. Lengths(Header)' = Lengths(Header) /\ \A i : ByteAt(i)' = ByteAt(i)
  BY <1>1, SameZone DEF ByteAt
<1>5. ZoneInv' /\ StoredInv' /\ FileInv' /\ WritingInv' /\ DroppingInv' /\ buf' \in Seq(Cells)
  BY <1>1 DEF StreamInv, ZoneInv, StoredInv, FileInv, WritingInv, DroppingInv
<1>6. ASSUME NEW c \in 1 .. ReadLen, got' = ReadBytes(c),
             outcome' = IF c < Header + size THEN "Panicked" ELSE "Read"
      PROVE  StreamInv'
  <2>1. c \in Nat /\ c <= ReadLen
    <3>1. \A l \in Nat : \A k \in 1 .. l : k \in Nat /\ k <= l
      OBVIOUS
    <3> QED BY <1>3, <1>6, <3>1
  <2>2. /\ got' \in Seq(Cells) /\ Len(got') = c
        /\ \A k \in 1 .. c : got'[k] = ByteAt(ReadPlace + k - 1)
    <3>1. /\ ReadBytes(c) \in Seq(Cells) /\ Len(ReadBytes(c)) = c
          /\ \A k \in 1 .. c : ReadBytes(c)[k] = ByteAt(ReadPlace + k - 1)
      BY <1>2, <2>1, ReadBytesAre
    <3> QED BY <1>6, <3>1
  <2>3. ReadPlace = 0
    <3>1. Len(got) = 0
      BY <1>2
    <3> QED BY <1>1, <3>1, Sizes DEF ReadPlace
  <2>4. \A k \in 1 .. Len(got') : got'[k] = ByteAt(k - 1)'
    <3>1. \A k \in 1 .. c : 0 + k - 1 = k - 1
      BY <2>1
    <3> QED BY <1>4, <2>2, <2>3, <3>1
  <2>5. StreamTypeOK'
    <3>1. Len(got') <= RoundUp(Header + size')
      BY <1>1, <1>3, <2>1, <2>2
    <3>2. outcome' = "Panicked" \/ outcome' = "Read"
      BY <1>6
    <3>3. /\ outcome' \in {"None", "Ok", "Failed", "Refused", "TooBig", "Read", "Panicked"}
          /\ phase' \in {"Idle", "Resetting", "Writing", "Dropping", "Reading"}
      BY <1>1, <3>2
    <3> QED BY <1>1, <2>2, <3>1, <3>3 DEF StreamInv, StreamTypeOK
  <2>6. ReadingInv'
    <3>1. outcome' = "Read" => Header + size' <= Len(got')
      BY <1>1, <1>3, <1>6, <2>1, <2>2
    <3> QED BY <1>1, <1>2, <1>4, <2>4, <3>1 DEF ReadingInv, Readers
  <2>7. RefusedInv'
    BY <1>6 DEF RefusedInv
  <2> QED BY <1>5, <2>2, <2>5, <2>6, <2>7 DEF StreamInv
<1>7. ASSUME outcome' = "Failed", UNCHANGED got
      PROVE  StreamInv'
  <2>1. StreamTypeOK' /\ (got \in Seq(Cells))' /\ ReadingInv' /\ RefusedInv'
    BY <1>1, <1>7 DEF StreamInv, StreamTypeOK, ReadingInv, RefusedInv
  <2> QED BY <1>5, <2>1 DEF StreamInv
<1> QED BY <1>6, <1>7 DEF ReadOnce

LEMMA EndReadKeeps ==
    ASSUME StreamInv, EndRead
    PROVE  StreamInv'
<1>1. /\ phase = "Reading" /\ Len(got) = ReadLen /\ phase' = "Idle" /\ outcome' = "Read"
      /\ UNCHANGED <<zone, durable, via, pos, file, todo, buf, direct, size, got, ragged, stored, flushed>>
  BY DEF EndRead, writer, reader, history
<1>2. StreamTypeOK' /\ ZoneInv' /\ StoredInv' /\ FileInv'
      /\ (got \in Seq(Cells) /\ buf \in Seq(Cells))'
  BY <1>1 DEF StreamInv, StreamTypeOK, ZoneInv, StoredInv, FileInv
<1>3. WritingInv' /\ DroppingInv' /\ RefusedInv'
  BY <1>1 DEF WritingInv, DroppingInv, RefusedInv
<1>4. ReadingInv'
  <2>1. Lengths(Header)' = Lengths(Header) /\ \A i : ByteAt(i)' = ByteAt(i)
    BY <1>1, SameZone DEF ByteAt
  <2>2. Header + size <= Len(got)
    <3>1. size \in 0 .. ZoneBytes
      BY DEF StreamInv, StreamTypeOK
    <3> QED BY <1>1, <3>1, Sizes, RoundsUp DEF ReadLen
  <2> QED BY <1>1, <2>1, <2>2 DEF StreamInv, ReadingInv
<1> QED BY <1>2, <1>3, <1>4 DEF StreamInv

LEMMA CrashKeeps ==
    ASSUME StreamInv, Crash
    PROVE  StreamInv'
<1>1. PICK k \in durable .. ZoneBytes :
          zone' = [i \in Offsets |-> IF i < k THEN zone[i] ELSE Zero]
  BY DEF Crash
<1>2. /\ durable' = ZoneBytes /\ phase' = "Idle" /\ outcome' = "None" /\ file' = NoFile
      /\ todo' = <<>> /\ buf' = <<>> /\ direct' = FALSE
      /\ stored' = (IF flushed THEN stored ELSE NoFile)
      /\ size' = 0 /\ got' = <<>> /\ ragged' = FALSE
      /\ UNCHANGED <<via, pos, flushed>>
  BY DEF Crash, NothingRead
<1>3. /\ k \in Nat /\ k <= ZoneBytes /\ ZoneBytes \in Nat /\ durable \in 0 .. ZoneBytes
      /\ zone \in [Offsets -> Cells] /\ \A i \in Offsets : i \in Nat /\ i < ZoneBytes
  BY <1>1, Sizes DEF StreamInv, StreamTypeOK, Offsets
<1>4. durable = ZoneBytes => zone' = zone
  <2>1. durable = ZoneBytes => k = ZoneBytes
    BY <1>1, <1>3
  <2> QED BY <1>1, <1>3, <2>1
<1>5. StreamTypeOK'
  <2>1. zone' \in [Offsets -> Cells]
    BY <1>1, <1>3 DEF Cells
  <2>2. durable' \in 0 .. ZoneBytes
    BY <1>2, <1>3
  <2>3. Len(todo') <= 3 /\ Len(buf') <= BufSize
    BY <1>2, Sizes
  <2>4. direct' \in BOOLEAN /\ stored' \in Files \cup {NoFile}
    BY <1>2 DEF StreamInv, StreamTypeOK
  <2>5. phase' = "Idle" /\ outcome' = "None" /\ file' = NoFile
        /\ UNCHANGED <<via, pos, flushed>>
    BY <1>2
  <2>6. size' = 0 /\ 0 \in 0 .. ZoneBytes /\ ragged' = FALSE
        /\ Len(got') <= RoundUp(Header + size')
    <3>1. RoundUp(Header + 0) \in Nat
      BY Sizes, RoundsUp
    <3> QED BY <1>2, <3>1, Sizes
  <2> QED BY <2>1, <2>2, <2>3, <2>4, <2>5, <2>6 DEF StreamInv, StreamTypeOK
<1>6. ZoneInv'
  <2>1. CASE zone = OtherData /\ durable = ZoneBytes
    BY <1>2, <1>4, <2>1 DEF ZoneInv
  <2>2. CASE zone = Blank
    BY <1>1, <2>2 DEF ZoneInv, Blank
  <2>3. ASSUME NEW f \in Files, NEW n \in 0 .. ZoneBytes,
               Fits(f, ZoneBytes), zone = Written(f, n)
        PROVE  ZoneInv'
    <3>1. PICK m \in 0 .. ZoneBytes : m = IF k < n THEN k ELSE n
      BY <1>3
    <3>2. \A i \in Offsets : (i < k /\ i < n) <=> i < m
      BY <1>3, <3>1
    <3>3. zone' = Written(f, m)
      BY <1>1, <2>3, <3>2 DEF Written
    <3> QED BY <2>3, <3>1, <3>3 DEF ZoneInv
  <2> QED BY <2>1, <2>2, <2>3 DEF StreamInv, ZoneInv
<1>7. StoredInv'
  <2> SUFFICES ASSUME stored' # NoFile PROVE StoredInv'
    BY DEF StoredInv
  <2>1. flushed /\ stored' = stored /\ stored # NoFile
    BY <1>2
  <2>2. durable = ZoneBytes /\ Fits(stored, ZoneBytes) /\ zone = Written(stored, Total(stored))
    BY <2>1 DEF StreamInv, StoredInv
  <2> QED BY <1>2, <1>4, <2>1, <2>2 DEF StoredInv
<1>8. (got \in Seq(Cells) /\ buf \in Seq(Cells))'
  BY <1>2 DEF StreamInv
<1>9. FileInv' /\ WritingInv' /\ DroppingInv' /\ ReadingInv' /\ RefusedInv'
  BY <1>2 DEF FileInv, WritingInv, DroppingInv, ReadingInv, RefusedInv
<1> QED BY <1>5, <1>6, <1>7, <1>8, <1>9 DEF StreamInv

LEMMA StreamStutter ==
    ASSUME StreamInv, UNCHANGED vars
    PROVE  StreamInv'
<1>1. UNCHANGED <<zone, durable, via, pos, phase, file, todo, buf, direct, size, got, ragged, outcome,
                  stored, flushed>>
  BY DEF vars, writer, reader, history
<1>2. StreamTypeOK' /\ ZoneInv' /\ StoredInv' /\ FileInv'
      /\ (got \in Seq(Cells) /\ buf \in Seq(Cells))'
  BY <1>1 DEF StreamInv, StreamTypeOK, ZoneInv, StoredInv, FileInv
<1>3. WritingInv' /\ DroppingInv'
  BY <1>1 DEF StreamInv, WritingInv, DroppingInv
<1>4. ReadingInv' /\ RefusedInv'
  <2>1. Lengths(Header)' = Lengths(Header) /\ \A i : ByteAt(i)' = ByteAt(i)
    BY <1>1, SameZone DEF ByteAt
  <2> QED BY <1>1, <2>1 DEF StreamInv, ReadingInv, RefusedInv
<1> QED BY <1>2, <1>3, <1>4 DEF StreamInv

-----------------------------------------------------------------------------
(* Theorems                                                                *)

\* The bytes of a command are in the zone, the buffer and its calls, in order, and the
\* zone holds one file and zeros, whatever short writes, errors and crashes there are.
THEOREM StreamInvariant ==
    ASSUME ~OversizeFiles
    PROVE  StreamSpec => []StreamInv
<1>1. StreamInit => StreamInv
  BY StreamStart
<1>2. StreamInv /\ [StreamNext]_vars => StreamInv'
  <2> SUFFICES ASSUME StreamInv, [StreamNext]_vars PROVE StreamInv'
    OBVIOUS
  <2>1. CASE Step
    <3>1. CASE ResetZone
      BY <3>1, ResetKeeps
    <3>2. CASE Copy
      BY <3>2, CopyKeeps
    <3>3. CASE WriteThrough
      BY <3>3, WriteThroughKeeps
    <3>4. CASE FlushBuf
      BY <3>4, FlushKeeps
    <3>5. CASE Sync
      BY <3>5, SyncKeeps
    <3>6. CASE EndDrop
      BY <3>6, EndDropKeeps
    <3>7. CASE ReadOn
      BY <3>7, ReadOnKeeps
    <3>8. CASE ReadOnce
      BY <3>8, ReadOnceKeeps
    <3>9. CASE EndRead
      BY <3>9, EndReadKeeps
    <3> QED BY <2>1, <3>1, <3>2, <3>3, <3>4, <3>5, <3>6, <3>7, <3>8, <3>9 DEF Step
  <2>2. ASSUME NEW f \in Files, NEW v \in Writers, BeginWrite(f, v)
        PROVE  StreamInv'
    BY <2>2, BeginWriteKeeps
  <2>3. ASSUME NEW v \in Readers, ReadHeader(v)
        PROVE  StreamInv'
    BY <2>3, ReadHeaderKeeps
  <2>4. CASE Crash
    BY <2>4, CrashKeeps
  <2>5. CASE UNCHANGED vars
    BY <2>5, StreamStutter
  <2> QED BY <2>1, <2>2, <2>3, <2>4, <2>5 DEF StreamNext
<1> QED BY <1>1, <1>2, PTL DEF StreamSpec

\* The streams, their buffers and positions have their types; a BufWriter and the
\* buffer of a read never hold more than they have room for.
THEOREM StreamTyping ==
    ASSUME ~OversizeFiles
    PROVE  StreamSpec => []StreamTypeOK
<1>1. StreamInv => StreamTypeOK
  BY DEF StreamInv
<1> QED BY <1>1, StreamInvariant, PTL

\* A write that returned Ok has left the length and the whole content on the disk,
\* through short writes of any lengths, and after a crash, too, if it was flushed.
THEOREM FormatOnDisk ==
    ASSUME ~OversizeFiles
    PROVE  StreamSpec => []OnDiskFormat
<1>1. StreamInv => OnDiskFormat
  BY WholeFile DEF StreamInv, StoredInv, OnDiskFormat
<1> QED BY <1>1, StreamInvariant, PTL

\* What a finished read has got of bytes n + 1 to n + size is what the zone holds.
LEMMA GotContent ==
    ASSUME StreamInv, phase = "Idle", outcome = "Read", ~ragged, NEW k \in 1 .. size
    PROVE  /\ SubSeq(got, Header + 1, Header + size) \in Seq(Cells)
           /\ Len(SubSeq(got, Header + 1, Header + size)) = size
           /\ SubSeq(got, Header + 1, Header + size)[k] = ByteAt(Header + k - 1)
<1>1. /\ got \in Seq(Cells) /\ size \in Nat /\ Header + size <= Len(got) /\ Header \in Nat \ {0}
      /\ \A i \in 1 .. Len(got) : got[i] = ByteAt(i - 1)
  BY Sizes DEF StreamInv, StreamTypeOK, ReadingInv
<1>2. PICK h, n \in Nat : h = Header /\ n = Header + size
  BY <1>1
<1>3. n <= Len(got) /\ Len(got) \in Nat
  BY <1>1, <1>2, LenProperties
<1>4. \A i \in h + 1 .. n : got[i] \in Cells
  BY <1>1, <1>2, <1>3, ElementOfSeq
<1>5. PICK s : s = SubSeq(got, h + 1, n)
  OBVIOUS
<1>6. /\ s \in Seq(Cells) /\ Len(s) = IF h + 1 <= n THEN n - (h + 1) + 1 ELSE 0
      /\ \A i \in 1 .. n - (h + 1) + 1 : s[i] = got[h + 1 + i - 1]
  BY <1>2, <1>4, <1>5, SubSeqProperties
<1>7. Len(s) = size /\ s[k] = got[h + k] /\ h + k \in 1 .. Len(got)
  <2>1. n - (h + 1) + 1 = size /\ h + 1 + k - 1 = h + k /\ k \in 1 .. n - (h + 1) + 1
    BY <1>1, <1>2
  <2>2. h + 1 <= n /\ h + k \in 1 .. Len(got)
    BY <1>1, <1>2, <1>3
  <2> QED BY <1>6, <2>1, <2>2
<1>8. got[h + k] = ByteAt(Header + k - 1)
  BY <1>1, <1>2, <1>7
<1> QED BY <1>2, <1>5, <1>6, <1>7, <1>8

\* The content that a read gives back is the file's: cmd_read after cmd_write,
\* through reads that end between sectors, or in one that brings everything.
THEOREM FilesRoundTrip ==
    ASSUME ~OversizeFiles
    PROVE  StreamSpec => []RoundTrip
<1>1. StreamInv => RoundTrip
  <2> SUFFICES ASSUME StreamInv, stored # NoFile, phase = "Idle", ~ragged
               PROVE  /\ outcome = "Read" =>
                             SubSeq(got, Header + 1, Header + size) = Content(stored)
                      /\ outcome = "Refused" => SizeOf[stored] = 0
    BY DEF RoundTrip
  <2>1. Fits(stored, ZoneBytes) /\ zone = Written(stored, Total(stored))
    BY DEF StreamInv, StoredInv
  <2>2. /\ Lengths(Header) = {SizeOf[stored]} /\ SizeOf[stored] \in Nat /\ Header \in Nat \ {0}
        /\ \A k \in 1 .. Header + SizeOf[stored] : zone[k - 1] = <<stored, k>>
    BY <2>1, WholeFile, Totals, Sizes
  <2>3. ASSUME outcome = "Refused"
        PROVE  SizeOf[stored] = 0
    <3>1. SizeOf[stored] <= ZoneBytes
      BY <2>1, <2>2, Sizes DEF Fits
    <3>2. SizeOf[stored] = 0 \/ SizeOf[stored] > ZoneBytes
      BY <2>2, <2>3 DEF StreamInv, RefusedInv
    <3> QED BY <2>2, <3>1, <3>2, Sizes
  <2>4. ASSUME outcome = "Read"
        PROVE  SubSeq(got, Header + 1, Header + size) = Content(stored)
    <3>1. size = SizeOf[stored] /\ size # 0
      BY <2>2, <2>4 DEF StreamInv, ReadingInv
    <3>2. PICK s : s = SubSeq(got, Header + 1, Header + size)
      OBVIOUS
    <3>3. s \in Seq(Cells) /\ Len(s) = size
      <4>1. 1 \in 1 .. size
        BY <2>2, <3>1
      <4> QED BY <2>4, <3>2, <4>1, GotContent
    <3>4. Piece(Content(stored), stored, Header) /\ Len(Content(stored)) = size
      BY <2>1, <3>1, Parts
    <3>5. ASSUME NEW k \in 1 .. Len(s)
          PROVE  s[k] = Content(stored)[k]
      <4>1. k \in 1 .. size
        BY <3>3
      <4>2. s[k] = ByteAt(Header + k - 1)
        BY <2>4, <3>2, <4>1, GotContent
      <4>3. Content(stored)[k] = <<stored, Header + k>>
        <5>1. Content(stored)[k] = Image(stored, Header + k)
          BY <3>4, <4>1 DEF Piece
        <5>2. Header + k <= Header + SizeOf[stored]
          BY <2>2, <3>1, <4>1
        <5> QED BY <5>1, <5>2 DEF Image
      <4>4. zone[Header + k - 1] = <<stored, Header + k>> /\ Header + k - 1 \in Offsets
        <5>1. Header + k \in 1 .. Header + SizeOf[stored]
          BY <2>2, <3>1, <4>1
        <5>2. Header + SizeOf[stored] <= ZoneBytes
          BY <2>1 DEF Fits
        <5>3. Header + k - 1 \in Offsets
          BY <2>2, <5>1, <5>2, Sizes, SMTT(40) DEF Offsets
        <5> QED BY <2>2, <5>1, <5>3
      <4> QED BY <4>2, <4>3, <4>4 DEF ByteAt
    <3>6. Content(stored) \in Seq(Cells)
      BY <3>4 DEF Piece
    <3> QED BY <3>2, <3>3, <3>4, <3>5, <3>6, SeqEqual
  <2> QED BY <2>3, <2>4
<1> QED BY <1>1, StreamInvariant, PTL

\* What a read gives back of a zone that a failed command or a crash left is the
\* beginning of one file and zeros, never a mixture.
THEOREM TornFilesArePrefixes ==
    ASSUME ~OversizeFiles
    PROVE  StreamSpec => []TornIsPrefix
<1>1. StreamInv => TornIsPrefix
  <2> SUFFICES ASSUME StreamInv, phase = "Idle", outcome = "Read", ~ragged, zone # OtherData
               PROVE  \E f \in Files : \E n \in 0 .. size :
                          /\ IF HeaderWhole THEN size = SizeOf[f] ELSE n = 0
                          /\ SubSeq(got, Header + 1, Header + size)
                                 = [k \in 1 .. size |-> IF k <= n THEN Content(f)[k] ELSE Zero]
    BY DEF TornIsPrefix
  <2>1. size \in Lengths(Header) /\ size \in Nat \ {0} /\ size <= ZoneBytes
    BY Sizes DEF StreamInv, StreamTypeOK, ReadingInv
  <2>2. zone # Blank
    <3>1. ASSUME zone = Blank PROVE FALSE
      <4>1. \A i \in 0 .. Header - 1 : i \in Offsets
        <5>1. \A a \in Nat \ {0}, b \in Nat \ {0} : a % b = 0 => b <= a
          OBVIOUS
        <5>2. Align <= ZoneBytes
          BY <5>1, Sizes
        <5> QED BY <5>2, Sizes, BlockSizes DEF Offsets
      <4>2. Lengths(Header) = {0}
        BY <3>1, <4>1 DEF Lengths, Blank
      <4> QED BY <2>1, <4>2
    <3> QED BY <3>1
  <2>3. PICK f \in Files, m \in 0 .. ZoneBytes : Fits(f, ZoneBytes) /\ zone = Written(f, m)
    BY <2>2 DEF StreamInv, ZoneInv
  <2>4. PICK h \in Nat \ {0} : h = Header
    BY Sizes
  <2>5. PICK s : s = SubSeq(got, Header + 1, Header + size)
    OBVIOUS
  <2>6. s \in Seq(Cells) /\ Len(s) = size
    <3>1. 1 \in 1 .. size
      BY <2>1
    <3> QED BY <2>5, <3>1, GotContent
  <2>7. PICK n \in 0 .. size : n = IF m <= h THEN 0 ELSE IF m - h <= size THEN m - h ELSE size
    BY <2>1, <2>3, <2>4
  <2>8. IF HeaderWhole THEN size = SizeOf[f] ELSE n = 0
    <3>1. CASE h <= m
      BY <2>1, <2>3, <2>4, <3>1, LengthFound DEF HeaderWhole
    <3>2. CASE m < h
      BY <2>3, <2>4, <2>7, <3>2, LengthFound DEF HeaderWhole
    <3> QED BY <2>3, <2>4, <3>1, <3>2
  <2>9. ASSUME NEW k \in 1 .. size
        PROVE  s[k] = IF k <= n THEN Content(f)[k] ELSE Zero
    <3>1. s[k] = ByteAt(h + k - 1) /\ h + k - 1 \in Nat /\ h + k - 1 + 1 = h + k
      BY <2>1, <2>4, <2>5, GotContent
    <3>2. h + k - 1 \in Offsets =>
              zone[h + k - 1] = IF h + k - 1 < m THEN Image(f, h + k) ELSE Zero
      BY <2>3, <3>1 DEF Written
    <3>3. CASE k <= n
      <4>1. h + k - 1 < m /\ h <= m /\ h + k - 1 \in Offsets
        BY <2>1, <2>3, <2>4, <2>7, <3>3, Sizes DEF Offsets
      <4>2. size = SizeOf[f]
        BY <2>1, <2>3, <2>4, <4>1, LengthFound
      <4>3. Piece(Content(f), f, h) /\ Len(Content(f)) = size
        BY <2>3, <2>4, <4>2, Parts
      <4>4. Content(f)[k] = Image(f, h + k)
        BY <4>3 DEF Piece
      <4> QED BY <3>1, <3>2, <3>3, <4>1, <4>4 DEF ByteAt
    <3>4. CASE ~(k <= n)
      <4>1. ~(h + k - 1 < m)
        BY <2>1, <2>3, <2>4, <2>7, <3>4
      <4> QED BY <3>1, <3>2, <3>4, <4>1 DEF ByteAt
    <3> QED BY <3>3, <3>4
  <2>10. s = [k \in 1 .. size |-> IF k <= n THEN Content(f)[k] ELSE Zero]
    <3>1. s \in [1 .. size -> Cells]
      BY <2>6, LenProperties
    <3> QED BY <2>9, <3>1
  <2> QED BY <2>5, <2>8, <2>10
<1> QED BY <1>1, StreamInvariant, PTL
=============================================================================
