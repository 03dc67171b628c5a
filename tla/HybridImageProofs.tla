------------------------- MODULE HybridImageProofs -------------------------
(***************************************************************************)
(* What HybridImage promises, for every stub that a linker lays out, every *)
(* alignment, and chains of any length: the reader recovers the first      *)
(* addon and the first library, the loader sees the stub it saw before,    *)
(* the layout is sound, the signature fresh, and a chain is refused only   *)
(* when its stub was too tight.                                            *)
(*                                                                         *)
(* ELF and PE images only grow at the end, so all that has to be known is  *)
(* how long the parts are and that what was there keeps its place.  In a   *)
(* Mach-O, Grown says command by command and byte by byte what an          *)
(* injection makes of an image; all else is derived from that.  The three  *)
(* invariants of chains (PeChain, ElfChain, MachoChain) say where each     *)
(* injected section stands, and IInv puts them together.                   *)
(***************************************************************************)
EXTENDS HybridImage, FiniteSetTheorems, SequenceTheorems, WellFoundedInduction, TLAPS

LEMMA Alignments ==
    /\ Word \in Nat \ {0} /\ FileAlign \in Nat \ {0} /\ SectionAlign \in Nat \ {0}
  BY AlignAssumption

----------------------------------------------------------------------------
(* The least and the greatest of a set of numbers, and with the least one  *)
(* induction: a claim that fails somewhere fails at a first place.         *)

LEMMA Least ==
  ASSUME NEW T \in SUBSET Nat, T # {}
  PROVE  \E x \in T : \A y \in T : x <= y
<1> DEFINE less == OpToRel(<, Nat)
<1>1. IsWellFoundedOn(less, Nat)
  BY NatLessThanWellFounded
<1>2. PICK x \in T : \A y \in T : ~(<<y, x>> \in less)
  BY <1>1, WFMin, Zenon
<1>3. \A y \in T : y < x => <<y, x>> \in less
  BY DEF OpToRel
<1> HIDE DEF less
<1>4. ASSUME NEW y \in T PROVE x <= y
  <2>1. ~(y < x)
    BY <1>2, <1>3
  <2> QED
    BY <2>1
<1> QED
  BY <1>4

LEMMA MinFacts ==
  ASSUME NEW T \in SUBSET Nat, T # {}
  PROVE  Min(T) \in T /\ \A y \in T : Min(T) <= y
<1>1. \E x \in T : \A y \in T : x <= y
  BY Least
<1> QED
  BY <1>1 DEF Min

\* The least bound of a set that has one belongs to the set.
LEMMA MaxFacts ==
  ASSUME NEW T \in SUBSET Nat, T # {}, NEW bound \in Nat, \A y \in T : y <= bound
  PROVE  Max(T) \in T /\ \A y \in T : Max(T) >= y
<1> DEFINE bounds == { b \in Nat : \A y \in T : y <= b }
<1>1. PICK top \in bounds : \A b \in bounds : top <= b
  <2>1. bounds \in SUBSET Nat /\ bounds # {}
    OBVIOUS
  <2> QED
    BY <2>1, Least
<1>2. top \in Nat /\ \A y \in T : y <= top
  OBVIOUS
<1>3. top \in T
  <2>1. SUFFICES ASSUME top \notin T PROVE FALSE
    OBVIOUS
  <2>2. \A y \in T : y \in Nat /\ y <= top /\ y # top
    BY <1>2, <2>1
  <2>3. \A y \in T : y <= top - 1
    BY <1>2, <2>2
  <2>4. PICK y \in T : TRUE
    OBVIOUS
  <2>5. top - 1 \in Nat
    BY <1>2, <2>2, <2>4
  <2>6. top - 1 \in bounds
    BY <2>3, <2>5
  <2>7. top <= top - 1
    BY <1>1, <2>6
  <2> QED
    BY <1>2, <2>7
<1>4. \E x \in T : \A y \in T : x >= y
  <2>1. \A y \in T : top >= y
    BY <1>2
  <2> QED
    BY <1>3, <2>1
<1> QED
  BY <1>4 DEF Max

----------------------------------------------------------------------------
(* Arithmetic and slices.                                                  *)

LEMMA RoundUpFacts ==
  ASSUME NEW value \in Nat, NEW align \in Nat \ {0}
  PROVE  /\ RoundUp(value, align) \in Nat
         /\ RoundUp(value, align) >= value
         /\ RoundUp(value, align) % align = 0
  BY DEF RoundUp

LEMMA TagFacts ==
    /\ \A kind \in Kinds : kind \in Tag
    /\ "zero" \in Tag /\ "shdr" \in Tag /\ "sig" \in Tag /\ "" \in Tag
    /\ "SMOL" \in Tag /\ "segment" \in Tag /\ "signature" \in Tag
  BY DEF Tag

LEMMA AtomFacts ==
  ASSUME NEW tag \in Tag, NEW who \in Addons \union Nat, NEW at \in Nat, NEW len \in Nat
  PROVE  /\ Atom(tag, who, at, len) \in Byte
         /\ Atom(tag, who, at, len)[1] = tag /\ Atom(tag, who, at, len)[2] = who
         /\ Atom(tag, who, at, len)[3] = at /\ Atom(tag, who, at, len)[4] = len
  BY DEF Atom, Byte

LEMMA ZerosFacts ==
  ASSUME NEW n \in Nat
  PROVE  Zeros(n) \in Seq(Byte) /\ Len(Zeros(n)) = n
<1>1. Zero \in Byte
  BY AtomFacts, TagFacts DEF Zero
<1> QED
  BY <1>1 DEF Zeros

\* A file padded to an alignment starts with the file and ends aligned.
LEMMA PadToFacts ==
  ASSUME NEW bytes \in Seq(Byte), NEW align \in Nat \ {0}
  PROVE  /\ PadTo(bytes, align) \in Seq(Byte)
         /\ \E rest \in Seq(Byte) : PadTo(bytes, align) = bytes \o rest
         /\ Len(PadTo(bytes, align)) = RoundUp(Len(bytes), align)
         /\ Len(PadTo(bytes, align)) \in Nat
         /\ Len(PadTo(bytes, align)) >= Len(bytes)
         /\ Len(PadTo(bytes, align)) % align = 0
<1>1. Len(bytes) \in Nat
  OBVIOUS
<1> DEFINE len == RoundUp(Len(bytes), align)
<1>2. len \in Nat /\ len >= Len(bytes) /\ len % align = 0
  BY <1>1, RoundUpFacts
<1> HIDE DEF len
<1>3. len - Len(bytes) \in Nat
  BY <1>1, <1>2
<1>4. Zeros(len - Len(bytes)) \in Seq(Byte) /\ Len(Zeros(len - Len(bytes))) = len - Len(bytes)
  BY <1>3, ZerosFacts
<1>5. PadTo(bytes, align) = bytes \o Zeros(len - Len(bytes))
  BY DEF PadTo, len
<1>6. PadTo(bytes, align) \in Seq(Byte)
      /\ Len(PadTo(bytes, align)) = Len(bytes) + (len - Len(bytes))
  BY <1>4, <1>5, ConcatProperties
<1>7. Len(PadTo(bytes, align)) = len
  BY <1>1, <1>2, <1>6
<1> QED
  BY <1>2, <1>4, <1>5, <1>6, <1>7 DEF len

\* A slice of a file is what it was in every file that starts with it.
LEMMA SliceFacts ==
  ASSUME NEW bytes \in Seq(Byte), NEW rest \in Seq(Byte), NEW off \in Nat, NEW size \in Nat,
         off + size <= Len(bytes)
  PROVE  /\ Slice(bytes, off, size) \in Seq(Byte) /\ Len(Slice(bytes, off, size)) = size
         /\ Slice(bytes \o rest, off, size) = Slice(bytes, off, size)
<1>1. Len(bytes) \in Nat /\ Len(rest) \in Nat /\ Len(bytes \o rest) = Len(bytes) + Len(rest)
  BY ConcatProperties
<1>2. Slice(bytes, off, size) = SubSeq(bytes, off + 1, off + size)
      /\ Slice(bytes \o rest, off, size) = SubSeq(bytes \o rest, off + 1, off + size)
  BY <1>1 DEF Slice
<1>3. \A i \in off + 1..off + size : bytes[i] \in Byte
  BY <1>1
<1>4. SubSeq(bytes, off + 1, off + size) \in Seq(Byte)
      /\ Len(SubSeq(bytes, off + 1, off + size)) = size
  BY <1>1, <1>3, SubSeqProperties
<1>5. SubSeq(bytes \o rest, off + 1, off + size) = SubSeq(bytes, off + 1, off + size)
  <2>1. CASE size = 0
    BY <2>1, SubSeqEmpty
  <2>2. CASE size # 0
    <3>1. off + 1 \in 1..Len(bytes) /\ off + size \in 1..Len(bytes)
      BY <1>1, <2>2
    <3> QED
      BY <3>1, SubSeqOfConcat1
  <2> QED
    BY <2>1, <2>2
<1> QED
  BY <1>2, <1>4, <1>5

LEMMA BlobFacts ==
  ASSUME NEW kind \in Kinds, NEW a \in Addons, NEW len \in BlobLens
  PROVE  /\ Blob(kind, a, len) \in Seq(Byte)
         /\ Len(Blob(kind, a, len)) = len /\ len \in Nat \ {0}
<1>1. len \in Nat \ {0}
  BY BlobLensAssumption
<1>2. ASSUME NEW i \in 1..len PROVE Atom(kind, a, i, len) \in Byte
  <2>1. a \in Addons \union Nat /\ i \in Nat /\ len \in Nat
    BY <1>1
  <2>2. kind \in Tag
    BY TagFacts
  <2> QED
    BY <2>1, <2>2, AtomFacts
<1> QED
  BY <1>1, <1>2 DEF Blob

LEMMA TableFacts ==
  ASSUME NEW n \in Nat
  PROVE  Run("shdr", n) \in Seq(Byte) /\ Len(Run("shdr", n)) = n
<1>1. ASSUME NEW i \in 1..n PROVE Atom("shdr", 0, i, n) \in Byte
  <2>1. 0 \in Addons \union Nat /\ i \in Nat
    OBVIOUS
  <2>2. "shdr" \in Tag
    BY TagFacts
  <2> QED
    BY <2>1, <2>2, AtomFacts
<1> QED
  BY <1>1 DEF Run

LEMMA Appended ==
  ASSUME NEW a \in Seq(Byte), NEW b \in Seq(Byte), NEW c \in Seq(Byte)
  PROVE  (a \o b) \o c = a \o (b \o c)
<1> DEFINE S == Seq(Byte)
<1>1. \A s \in S, t \in S, u \in S : (s \o t) \o u = s \o (t \o u)
  BY ConcatAssociative, SMTT(30)
<1> QED
  BY <1>1

LEMMA RangeOfAppend ==
  ASSUME NEW S, NEW seq \in Seq(S), NEW elt \in S
  PROVE  Range(Append(seq, elt)) = Range(seq) \union {elt}
<1>1. DOMAIN seq = 1..Len(seq) /\ DOMAIN Append(seq, elt) = 1..Len(seq) + 1 /\ Len(seq) \in Nat
  BY AppendProperties, LenProperties
<1>2. /\ \A i \in 1..Len(seq) : Append(seq, elt)[i] = seq[i]
      /\ Append(seq, elt)[Len(seq) + 1] = elt
  BY AppendProperties
<1>3. \A i \in 1..Len(seq) + 1 : i \in 1..Len(seq) \/ i = Len(seq) + 1
  BY <1>1
<1> QED
  BY <1>1, <1>2, <1>3 DEF Range

----------------------------------------------------------------------------
(* PE: one more section behind all others, in the file and in memory.      *)

VaEnds(img) == {0} \union { s.va + s.vsize : s \in Range(img.sects) }

PeSect == [name : Tag, va : Nat, vsize : Nat, off : Nat, size : Nat]

\* Max(VaEnds) is where memory is taken up to.
LEMMA PeTop ==
  ASSUME NEW img, PeLinked(img)
  PROVE  /\ Max(VaEnds(img)) \in Nat
         /\ \A s \in Range(img.sects) : s.va + s.vsize <= Max(VaEnds(img))
<1>1. img.imageSize \in Nat /\ \A s \in Range(img.sects) : s \in PeSect
  <2>1. img.imageSize \in Nat /\ img.sects \in Seq(PeSect)
    BY DEF PeLinked, PeImage, PeSect
  <2> QED
    BY <2>1 DEF Range
<1>2. \A s \in PeSect : s.va + s.vsize \in Nat
  BY DEF PeSect
<1>3. VaEnds(img) \in SUBSET Nat /\ VaEnds(img) # {}
  BY <1>1, <1>2 DEF VaEnds
<1>4. \A end \in VaEnds(img) : end <= img.imageSize
  BY <1>1 DEF VaEnds, PeLinked, PeSound
<1>5. Max(VaEnds(img)) \in VaEnds(img) /\ \A end \in VaEnds(img) : Max(VaEnds(img)) >= end
  BY <1>1, <1>3, <1>4, MaxFacts
<1>6. \A s \in Range(img.sects) : s.va + s.vsize \in VaEnds(img)
  BY DEF VaEnds
<1> QED
  BY <1>3, <1>5, <1>6

\* What InjectPe makes of an image, field by field.
LEMMA PeParts ==
  ASSUME NEW img \in PeImage, NEW blob \in Seq(Byte), NEW kind \in Kinds,
         NEW top \in Nat, top = Max(VaEnds(img))
  PROVE  LET new == InjectPe(img, blob, kind)
             va == RoundUp(top, SectionAlign)
             before == PadTo(img.bytes, FileAlign)
             sect == PeSection(kind, va, Len(blob), Len(before), RoundUp(Len(blob), FileAlign))
         IN  /\ new \in PeImage /\ sect \in PeSect
             /\ new.fmt = "pe" /\ new.table = img.table /\ new.headers = img.headers
             /\ new.sects = Append(img.sects, sect)
             /\ new.bytes = before \o PadTo(blob, FileAlign)
             /\ new.imageSize = RoundUp(va + Len(blob), SectionAlign)
<1> DEFINE va == RoundUp(top, SectionAlign)
           before == PadTo(img.bytes, FileAlign)
           size == RoundUp(Len(blob), FileAlign)
           sect == PeSection(kind, va, Len(blob), Len(before), size)
           sects == Append(img.sects, sect)
           bytes == before \o PadTo(blob, FileAlign)
           end == RoundUp(va + Len(blob), SectionAlign)
<1>1. img.bytes \in Seq(Byte) /\ img.sects \in Seq(PeSect)
  BY DEF PeImage, PeSect
<1>2. Len(blob) \in Nat /\ va \in Nat /\ size \in Nat /\ end \in Nat
  <2>3. Len(blob) \in Nat
    OBVIOUS
  <2>4. va \in Nat
    BY Alignments, RoundUpFacts
  <2>5. size \in Nat
    BY <2>3, Alignments, RoundUpFacts
  <2>1. Len(blob) \in Nat /\ va \in Nat /\ size \in Nat
    BY <2>3, <2>4, <2>5
  <2>2. va + Len(blob) \in Nat
    BY <2>1
  <2> QED
    BY <2>1, <2>2, Alignments, RoundUpFacts
<1>3. before \in Seq(Byte) /\ Len(before) \in Nat /\ bytes \in Seq(Byte)
  BY <1>1, Alignments, PadToFacts, ConcatProperties
<1>4. sect \in PeSect
  BY <1>2, <1>3 DEF PeSect, PeSection, Tag
<1>5. sects \in Seq(PeSect)
  BY <1>1, <1>4, AppendProperties
<1>6. InjectPe(img, blob, kind)
        = [[[img EXCEPT !.sects = sects] EXCEPT !.bytes = bytes] EXCEPT !.imageSize = end]
  BY DEF InjectPe, VaEnds
<1> HIDE DEF sects, bytes, end, sect, va, before
<1>7. LET new == [[[img EXCEPT !.sects = sects] EXCEPT !.bytes = bytes] EXCEPT !.imageSize = end]
      IN  /\ new \in PeImage /\ new.fmt = "pe" /\ new.table = img.table
          /\ new.headers = img.headers /\ new.sects = sects /\ new.bytes = bytes
          /\ new.imageSize = end
  BY <1>2, <1>3, <1>5 DEF PeImage, PeSect, end
<1> QED
  BY <1>4, <1>6, <1>7 DEF sects, bytes, end, sect, va, before

\* An injection into a PE keeps what the linker gave and what the loader sees.
LEMMA PeStep ==
  ASSUME NEW img, PeLinked(img), NEW blob \in Seq(Byte), Len(blob) # 0, NEW kind \in Kinds,
         HeaderRoom(img)
  PROVE  /\ PeLinked(InjectPe(img, blob, kind))
         /\ LoaderView(InjectPe(img, blob, kind)) = LoaderView(img)
<1> DEFINE top == Max(VaEnds(img))
           va == RoundUp(top, SectionAlign)
           before == PadTo(img.bytes, FileAlign)
           size == RoundUp(Len(blob), FileAlign)
           sect == PeSection(kind, va, Len(blob), Len(before), size)
           new == InjectPe(img, blob, kind)
<1>1. img \in PeImage /\ img.bytes \in Seq(Byte) /\ img.sects \in Seq(PeSect)
      /\ Len(img.bytes) \in Nat /\ Len(blob) \in Nat \ {0} /\ Len(img.sects) \in Nat
      /\ img.table \in Nat /\ img.headers \in Nat
  BY DEF PeLinked, PeImage, PeSect
<1>2. \A s \in Range(img.sects) : s \in PeSect
  BY <1>1 DEF Range
<1>3. \A s \in PeSect : /\ s.va \in Nat /\ s.vsize \in Nat /\ s.off \in Nat /\ s.size \in Nat
                        /\ s.name \in Tag
  BY DEF PeSect
<1>4. top \in Nat /\ \A s \in Range(img.sects) : s.va + s.vsize <= top
  BY PeTop
<1>5. /\ va \in Nat /\ va >= top /\ va % SectionAlign = 0
      /\ size \in Nat /\ size >= Len(blob)
      /\ RoundUp(va + Len(blob), SectionAlign) >= va + Len(blob)
  <2>1. va \in Nat /\ va >= top /\ va % SectionAlign = 0
    BY <1>4, Alignments, RoundUpFacts
  <2>2. size \in Nat /\ size >= Len(blob)
    BY <1>1, Alignments, RoundUpFacts
  <2>3. va + Len(blob) \in Nat
    BY <1>1, <2>1
  <2> QED
    BY <2>1, <2>2, <2>3, Alignments, RoundUpFacts
<1>6. /\ before \in Seq(Byte) /\ Len(before) \in Nat /\ Len(before) >= Len(img.bytes)
      /\ Len(before) % FileAlign = 0
  BY <1>1, Alignments, PadToFacts
<1>7. PICK rest \in Seq(Byte) : before \o PadTo(blob, FileAlign) = img.bytes \o rest
  <2>1. PICK pad \in Seq(Byte) : before = img.bytes \o pad
    BY <1>1, Alignments, PadToFacts
  <2>2. PadTo(blob, FileAlign) \in Seq(Byte)
    BY Alignments, PadToFacts
  <2>3. pad \o PadTo(blob, FileAlign) \in Seq(Byte)
    BY <2>2, ConcatProperties
  <2>4. (img.bytes \o pad) \o PadTo(blob, FileAlign) = img.bytes \o (pad \o PadTo(blob, FileAlign))
    BY <1>1, <2>2, Appended, ZenonT(30)
  <2> QED
    BY <2>1, <2>3, <2>4
<1>8. Len(before \o PadTo(blob, FileAlign)) = Len(before) + size
  <2>1. PadTo(blob, FileAlign) \in Seq(Byte) /\ Len(PadTo(blob, FileAlign)) = size
    BY Alignments, PadToFacts
  <2> QED
    BY <1>6, <2>1, ConcatProperties
<1>9. /\ new \in PeImage /\ sect \in PeSect
      /\ new.fmt = "pe" /\ new.table = img.table /\ new.headers = img.headers
      /\ new.sects = Append(img.sects, sect)
      /\ new.bytes = before \o PadTo(blob, FileAlign)
      /\ new.imageSize = RoundUp(va + Len(blob), SectionAlign)
  BY <1>1, <1>4, PeParts, SMTT(30)
<1>10. /\ sect.name = kind /\ sect.va = va /\ sect.vsize = Len(blob)
       /\ sect.off = Len(before) /\ sect.size = size
  BY DEF PeSection
<1>11. Range(new.sects) = Range(img.sects) \union {sect} /\ Len(new.sects) = Len(img.sects) + 1
  BY <1>1, <1>9, RangeOfAppend, AppendProperties
<1> HIDE DEF top, va, before, size, sect, new
<1>12. PeSound(img) /\ img.headers <= Len(img.bytes)
  BY DEF PeLinked
<1>13. \A s \in Range(img.sects) :
         /\ s.va + s.vsize <= va /\ s.off + s.size <= Len(before)
         /\ s.off + s.size <= Len(img.bytes)
         /\ s.size = 0 \/ s.off >= img.headers
         /\ s.off % FileAlign = 0 /\ s.va % SectionAlign = 0
  BY <1>1, <1>2, <1>3, <1>4, <1>5, <1>6, <1>12, SMTT(30) DEF PeSound
<1>14. new.table + Len(new.sects) <= new.headers
  BY <1>1, <1>9, <1>11 DEF HeaderRoom
<1>15. ASSUME NEW s \in Range(new.sects)
       PROVE  /\ s.size = 0 \/ s.off >= new.headers
              /\ s.off + s.size <= Len(new.bytes)
              /\ s.off % FileAlign = 0 /\ s.va % SectionAlign = 0
              /\ s.va + s.vsize <= new.imageSize
  <2>1. new.imageSize >= va + Len(blob) /\ Len(new.bytes) = Len(before) + size
    BY <1>5, <1>8, <1>9
  <2>2. new.imageSize \in Nat
    BY <1>9 DEF PeImage
  <2>3. CASE s = sect
    <3>1. s.off = Len(before) /\ s.size = size /\ s.va = va /\ s.vsize = Len(blob)
      BY <1>10, <2>3
    <3>2. s.off % FileAlign = 0 /\ s.va % SectionAlign = 0
      BY <1>5, <1>6, <3>1, Zenon
    <3>3. s.off >= new.headers /\ s.off + s.size <= Len(new.bytes)
      BY <1>1, <1>6, <1>9, <1>12, <2>1, <3>1
    <3>4. s.va + s.vsize <= new.imageSize
      BY <1>1, <1>5, <2>1, <2>2, <3>1
    <3> QED
      BY <3>2, <3>3, <3>4
  <2>4. CASE s \in Range(img.sects)
    <3>1. s.va \in Nat /\ s.vsize \in Nat /\ s.off \in Nat /\ s.size \in Nat
      BY <1>2, <1>3, <2>4
    <3>2. s.off % FileAlign = 0 /\ s.va % SectionAlign = 0
      BY <1>13, <2>4, Zenon
    <3>3. /\ s.size = 0 \/ s.off >= new.headers
          /\ s.off + s.size <= Len(new.bytes)
      BY <1>5, <1>6, <1>9, <1>13, <2>1, <2>4, <3>1
    <3>4. s.va + s.vsize <= new.imageSize
      BY <1>1, <1>5, <1>13, <2>1, <2>2, <2>4, <3>1, SMTT(30)
    <3> QED
      BY <3>2, <3>3, <3>4
  <2> QED
    BY <1>11, <1>15, <2>3, <2>4
<1>16. ASSUME NEW s \in Range(new.sects), NEW t \in Range(new.sects), s # t
       PROVE  Apart(s.va, s.vsize, t.va, t.vsize) /\ Apart(s.off, s.size, t.off, t.size)
  <2>1. CASE s \in Range(img.sects) /\ t \in Range(img.sects)
    BY <1>12, <1>16, <2>1 DEF PeSound
  <2>2. CASE s \in Range(img.sects) /\ t = sect
    BY <1>10, <1>13, <2>2 DEF Apart
  <2>3. CASE s = sect /\ t \in Range(img.sects)
    BY <1>10, <1>13, <2>3 DEF Apart
  <2> QED
    BY <1>11, <1>16, <2>1, <2>2, <2>3
<1>17. PeSound(new)
  BY <1>14, <1>15, <1>16 DEF PeSound
<1>18. new.headers <= Len(new.bytes)
  BY <1>1, <1>5, <1>6, <1>8, <1>9, <1>12
<1>20. PeLinked(new)
  BY <1>9, <1>17, <1>18 DEF PeLinked
<1>21. LoaderView(new) = LoaderView(img)
  <2> DEFINE View(i, sects) == { <<s.name, s.va, Slice(i.bytes, s.off, s.size)>> : s \in sects }
             Stub(i) == { t \in Range(i.sects) : ~Added(t.name) }
  <2>1. Stub(new) = Stub(img)
    BY <1>10, <1>11 DEF Added
  <2>2. ASSUME NEW s \in Stub(img)
        PROVE  Slice(new.bytes, s.off, s.size) = Slice(img.bytes, s.off, s.size)
    <3>1. s \in Range(img.sects)
      BY <2>2
    <3>2. s.off \in Nat /\ s.size \in Nat
      BY <1>2, <1>3, <3>1
    <3>3. s.off + s.size <= Len(img.bytes)
      BY <1>13, <3>1
    <3>4. Slice(img.bytes \o rest, s.off, s.size) = Slice(img.bytes, s.off, s.size)
      BY <1>1, <1>7, <3>2, <3>3, SliceFacts
    <3>5. new.bytes = img.bytes \o rest
      BY <1>7, <1>9
    <3> QED
      BY <3>4, <3>5
  <2>3. View(new, Stub(new)) = View(img, Stub(img))
    BY <2>1, <2>2
  <2>4. img.fmt = "pe" /\ new.fmt = "pe"
    BY <1>1, <1>9 DEF PeImage
  <2>5. LoaderView(new) = View(new, Stub(new)) /\ LoaderView(img) = View(img, Stub(img))
    BY <2>4 DEF LoaderView
  <2> QED
    BY <2>3, <2>5
<1> QED
  BY <1>20, <1>21 DEF new

----------------------------------------------------------------------------
(* ELF: the file goes on with the blob, the string table grown by one name *)
(* and the section headers.                                                *)

ElfSect == [name : Nat, off : Nat, size : Nat]

Starts(a, b) == a \in Seq(Byte) /\ \E rest \in Seq(Byte) : b = a \o rest

LEMMA StartsFacts ==
  ASSUME NEW a, NEW b, Starts(a, b)
  PROVE  /\ b \in Seq(Byte) /\ Len(a) \in Nat /\ Len(b) \in Nat /\ Len(a) <= Len(b)
         /\ \A off, size \in Nat :
              off + size <= Len(a) => Slice(b, off, size) = Slice(a, off, size)
<1>1. PICK rest \in Seq(Byte) : a \in Seq(Byte) /\ b = a \o rest
  BY DEF Starts
<1>2. b \in Seq(Byte) /\ Len(b) = Len(a) + Len(rest)
  BY <1>1, ConcatProperties
<1>3. Len(a) \in Nat /\ Len(rest) \in Nat
  BY <1>1
<1>4. \A off, size \in Nat : off + size <= Len(a) => Slice(b, off, size) = Slice(a, off, size)
  BY <1>1, SliceFacts
<1> QED
  BY <1>2, <1>3, <1>4

LEMMA StartsTransitive == ASSUME NEW a, NEW b, NEW c, Starts(a, b), Starts(b, c) PROVE Starts(a, c)
<1>1. PICK r \in Seq(Byte) : a \in Seq(Byte) /\ b = a \o r
  BY DEF Starts
<1>2. PICK q \in Seq(Byte) : c = b \o q
  BY DEF Starts
<1>3. c = a \o (r \o q) /\ r \o q \in Seq(Byte)
  BY <1>1, <1>2, Appended, ConcatProperties
<1> QED
  BY <1>1, <1>3 DEF Starts

LEMMA StartsAppended ==
  ASSUME NEW a \in Seq(Byte), NEW b \in Seq(Byte)
  PROVE  Starts(a, a \o b) /\ Len(a \o b) = Len(a) + Len(b) /\ a \o b \in Seq(Byte)
BY ConcatProperties DEF Starts

LEMMA StartsPadded == ASSUME NEW a \in Seq(Byte) PROVE Starts(a, PadTo(a, Word))
BY Alignments, PadToFacts DEF Starts

\* What is appended is found where it was put.
LEMMA SliceOfAppended ==
  ASSUME NEW a \in Seq(Byte), NEW b \in Seq(Byte), Len(b) # 0
  PROVE  Slice(a \o b, Len(a), Len(b)) = b
<1>1. Len(a) \in Nat /\ Len(b) \in Nat /\ Len(a \o b) = Len(a) + Len(b)
  BY ConcatProperties
<1>2. Slice(a \o b, Len(a), Len(b)) = SubSeq(a \o b, Len(a) + 1, Len(a) + Len(b))
  BY <1>1 DEF Slice
<1>3. /\ Len(a) + 1 \in Len(a) + 1..Len(a) + Len(b)
      /\ Len(a) + Len(b) \in Len(a) + 1..Len(a) + Len(b)
  BY <1>1
<1>4. SubSeq(a \o b, Len(a) + 1, Len(a) + Len(b))
        = SubSeq(b, (Len(a) + 1) - Len(a), (Len(a) + Len(b)) - Len(a))
  BY <1>3, SubSeqOfConcat2
<1>5. (Len(a) + 1) - Len(a) = 1 /\ (Len(a) + Len(b)) - Len(a) = Len(b)
  BY <1>1
<1>6. SubSeq(b, 1, Len(b)) = b
  BY SubSeqFull
<1> QED
  BY <1>2, <1>4, <1>5, <1>6

\* Where InjectElf puts its parts.
LEMMA ElfParts ==
  ASSUME NEW img, ElfLinked(img), NEW blob \in Seq(Byte), Len(blob) # 0, NEW kind \in Kinds
  PROVE  LET new == InjectElf(img, blob, kind)
             old == img.sects[img.strndx]
             sect == new.sects[Len(img.sects) + 1]
             strs == new.sects[img.strndx]
         IN  /\ new \in ElfImage /\ new.strndx = img.strndx
             /\ Starts(img.bytes, new.bytes)
             /\ Len(new.sects) = Len(img.sects) + 1
             /\ \A i \in 1..Len(img.sects) : i # img.strndx => new.sects[i] = img.sects[i]
             /\ sect.name = old.size /\ sect.size = Len(blob) /\ sect.off >= Len(img.bytes)
             /\ strs.name = old.name /\ strs.size = old.size + 1
             /\ sect.off + sect.size <= strs.off
             /\ strs.off + strs.size <= Len(new.bytes)
             /\ Slice(new.bytes, strs.off, strs.size)
                  = Slice(img.bytes, old.off, old.size) \o <<ElfName(kind)>>
             /\ Slice(new.bytes, sect.off, sect.size) = blob
<1> DEFINE old == img.sects[img.strndx]
           data == PadTo(img.bytes, Word)
           names == PadTo(data \o blob, Word)
           tab == Slice(img.bytes, old.off, old.size)
           grown == [old EXCEPT !.off = Len(names), !.size = @ + 1]
           sect == Section(old.size, Len(data), Len(blob))
           bytes == PadTo(names \o tab \o <<ElfName(kind)>>, Word) \o Run("shdr", Len(img.sects) + 1)
           sects == Append([img.sects EXCEPT ![img.strndx] = grown], sect)
<1>1. /\ img \in ElfImage /\ img.bytes \in Seq(Byte) /\ img.sects \in Seq(ElfSect)
      /\ Len(img.sects) \in Nat /\ Len(blob) \in Nat
      /\ img.strndx \in 1..Len(img.sects) /\ img.strndx \in Nat
  BY DEF ElfLinked, ElfImage, ElfSect
<1>2. old \in ElfSect /\ old.off \in Nat /\ old.size \in Nat /\ old.name \in Nat
  <2>1. old \in ElfSect
    BY <1>1
  <2> HIDE DEF old
  <2> QED
    BY <2>1 DEF ElfSect
<1>3. tab \in Seq(Byte) /\ Len(tab) = old.size
  <2>1. old.off + old.size <= Len(img.bytes)
    BY <1>1 DEF ElfLinked, ElfSound
  <2> QED
    BY <1>1, <1>2, <2>1, SliceFacts, SMTT(30)
<1>4. Starts(img.bytes, data) /\ data \in Seq(Byte)
  BY <1>1, StartsPadded, StartsFacts
<1>5. Starts(data, data \o blob) /\ Len(data \o blob) = Len(data) + Len(blob)
      /\ data \o blob \in Seq(Byte)
  BY <1>4, StartsAppended
<1>6. Starts(data \o blob, names) /\ names \in Seq(Byte)
  BY <1>5, StartsPadded, StartsFacts
<1> HIDE DEF names, tab, data, old
<1>7. <<ElfName(kind)>> \in Seq(Byte) /\ Len(<<ElfName(kind)>>) = 1
  <2>1. ElfName(kind) \in Byte
    BY AtomFacts, TagFacts DEF ElfName
  <2> QED
    BY <2>1
<1> DEFINE strtab == tab \o <<ElfName(kind)>>
<1>8. strtab \in Seq(Byte) /\ Len(strtab) = old.size + 1
  BY <1>3, <1>7, StartsAppended
<1>9. names \o tab \o <<ElfName(kind)>> = names \o strtab
  BY <1>3, <1>6, <1>7, Appended
<1> HIDE DEF strtab
<1>10. /\ Starts(names, names \o strtab) /\ names \o strtab \in Seq(Byte)
       /\ Len(names \o strtab) = Len(names) + old.size + 1
  <2>1. Len(names) \in Nat
    BY <1>6
  <2>2. /\ Starts(names, names \o strtab) /\ names \o strtab \in Seq(Byte)
        /\ Len(names \o strtab) = Len(names) + Len(strtab)
    BY <1>6, <1>8, StartsAppended
  <2> QED
    BY <1>2, <1>8, <2>1, <2>2
<1>11. Starts(names \o strtab, bytes)
  <2>1. Starts(names \o strtab, PadTo(names \o strtab, Word))
    BY <1>10, StartsPadded
  <2>2. PadTo(names \o strtab, Word) \in Seq(Byte)
    BY <2>1, StartsFacts
  <2>3. Run("shdr", Len(img.sects) + 1) \in Seq(Byte)
    <3>1. Len(img.sects) + 1 \in Nat
      BY <1>1
    <3> QED
      BY <3>1, TableFacts
  <2>4. Starts(PadTo(names \o strtab, Word), bytes)
    BY <1>9, <2>2, <2>3, StartsAppended
  <2> QED
    BY <2>1, <2>4, StartsTransitive
<1> HIDE DEF bytes
<1>12. Starts(img.bytes, bytes) /\ bytes \in Seq(Byte)
  <2>1. Starts(img.bytes, data \o blob)
    BY <1>4, <1>5, StartsTransitive
  <2>2. Starts(img.bytes, names)
    BY <1>6, <2>1, StartsTransitive
  <2>3. Starts(img.bytes, names \o strtab)
    BY <1>10, <2>2, StartsTransitive
  <2> QED
    BY <1>11, <2>3, StartsTransitive, StartsFacts
<1>13. /\ Len(img.bytes) <= Len(data) /\ Len(data) \in Nat /\ Len(names) \in Nat
       /\ Len(data) + Len(blob) <= Len(names)
       /\ Len(names) + old.size + 1 <= Len(bytes)
  BY <1>4, <1>5, <1>6, <1>10, <1>11, StartsFacts
<1>14. Slice(bytes, Len(names), old.size + 1) = strtab
  <2>1. Slice(names \o strtab, Len(names), Len(strtab)) = strtab
    BY <1>2, <1>6, <1>8, SliceOfAppended
  <2>2. Slice(bytes, Len(names), old.size + 1) = Slice(names \o strtab, Len(names), old.size + 1)
    <3>1. old.size + 1 \in Nat /\ Len(names) + (old.size + 1) <= Len(names \o strtab)
      BY <1>2, <1>10, <1>13, SMTT(30)
    <3>2. \A off, size \in Nat :
            off + size <= Len(names \o strtab) =>
              Slice(bytes, off, size) = Slice(names \o strtab, off, size)
      <4> DEFINE whole == names \o strtab
      <4>1. Starts(whole, bytes)
        BY <1>11
      <4> HIDE DEF whole
      <4>2. \A off, size \in Nat :
              off + size <= Len(whole) => Slice(bytes, off, size) = Slice(whole, off, size)
        BY <4>1, StartsFacts
      <4> QED
        BY <4>2 DEF whole
    <3> QED
      BY <1>13, <3>1, <3>2
  <2> QED
    BY <1>8, <2>1, <2>2
<1>15. /\ grown \in ElfSect /\ grown.name = old.name /\ grown.off = Len(names)
       /\ grown.size = old.size + 1
  <2>1. old.size + 1 \in Nat
    BY <1>2
  <2>2. grown = [[old EXCEPT !.off = Len(names)] EXCEPT !.size = old.size + 1]
    BY <1>2 DEF ElfSect
  <2> HIDE DEF grown
  <2> QED
    BY <1>2, <1>13, <2>1, <2>2 DEF ElfSect
<1>16. /\ sect \in ElfSect /\ sect.name = old.size /\ sect.off = Len(data)
       /\ sect.size = Len(blob)
  BY <1>1, <1>2, <1>13 DEF ElfSect, Section
<1> HIDE DEF grown, sect
<1>17. /\ sects \in Seq(ElfSect) /\ Len(sects) = Len(img.sects) + 1
       /\ sects[Len(img.sects) + 1] = sect /\ sects[img.strndx] = grown
       /\ \A i \in 1..Len(img.sects) : i # img.strndx => sects[i] = img.sects[i]
  <2> DEFINE first == [img.sects EXCEPT ![img.strndx] = grown]
  <2>1. /\ first \in Seq(ElfSect) /\ Len(first) = Len(img.sects)
        /\ \A j \in 1..Len(img.sects) : first[j] = IF j = img.strndx THEN grown ELSE img.sects[j]
    BY <1>1, <1>15, ExceptSeq
  <2> HIDE DEF first
  <2>2. /\ Append(first, sect) \in Seq(ElfSect) /\ Len(Append(first, sect)) = Len(first) + 1
        /\ \A j \in 1..Len(first) : Append(first, sect)[j] = first[j]
        /\ Append(first, sect)[Len(first) + 1] = sect
    BY <1>16, <2>1, AppendProperties
  <2> QED
    BY <1>1, <2>1, <2>2 DEF first
<1>18. InjectElf(img, blob, kind) = [[img EXCEPT !.sects = sects] EXCEPT !.bytes = bytes]
  BY DEF InjectElf, bytes, grown, sect, names, tab, data, old
<1> HIDE DEF sects
<1>19. LET new == [[img EXCEPT !.sects = sects] EXCEPT !.bytes = bytes]
       IN  /\ new \in ElfImage /\ new.strndx = img.strndx
           /\ new.sects = sects /\ new.bytes = bytes
  BY <1>1, <1>12, <1>17 DEF ElfImage, ElfSect
<1> DEFINE new == InjectElf(img, blob, kind)
<1>20. /\ new \in ElfImage /\ new.strndx = img.strndx
       /\ new.sects = sects /\ new.bytes = bytes
  BY <1>18, <1>19
<1> HIDE DEF new
<1>21. /\ new.sects[Len(img.sects) + 1] = sect /\ new.sects[img.strndx] = grown
       /\ Len(new.sects) = Len(img.sects) + 1
       /\ \A i \in 1..Len(img.sects) : i # img.strndx => new.sects[i] = img.sects[i]
  BY <1>17, <1>20
<1>22. /\ sect.off + sect.size <= grown.off /\ sect.off >= Len(img.bytes)
       /\ grown.off + grown.size <= Len(new.bytes)
  BY <1>1, <1>2, <1>13, <1>15, <1>16, <1>20, <1>12 DEF old
<1>23. Slice(new.bytes, grown.off, grown.size) = strtab
  BY <1>14, <1>15, <1>20
<1>24. Slice(new.bytes, sect.off, sect.size) = blob
  <2> DEFINE whole == data \o blob
  <2>1. Slice(whole, Len(data), Len(blob)) = blob
    BY <1>4, SliceOfAppended
  <2>2. Starts(whole, bytes) /\ Len(whole) = Len(data) + Len(blob)
    <3>1. Starts(whole, names \o strtab)
      BY <1>6, <1>10, StartsTransitive
    <3> QED
      BY <1>5, <1>11, <3>1, StartsTransitive
  <2> HIDE DEF whole
  <2>3. \A off, size \in Nat : off + size <= Len(whole) => Slice(bytes, off, size) = Slice(whole, off, size)
    BY <2>2, StartsFacts
  <2>4. Slice(bytes, Len(data), Len(blob)) = Slice(whole, Len(data), Len(blob))
    BY <1>1, <1>13, <2>2, <2>3
  <2> QED
    BY <1>16, <1>20, <2>1, <2>4
<1> QED
  BY <1>12, <1>15, <1>16, <1>20, <1>21, <1>22, <1>23, <1>24 DEF new, old, strtab, tab

\* An injection into an ELF image keeps what the linker gave and what the loader sees.
LEMMA ElfStep ==
  ASSUME NEW img, ElfLinked(img), NEW blob \in Seq(Byte), Len(blob) # 0, NEW kind \in Kinds
  PROVE  /\ ElfLinked(InjectElf(img, blob, kind))
         /\ LoaderView(InjectElf(img, blob, kind)) = LoaderView(img)
<1> DEFINE new == InjectElf(img, blob, kind)
           n == Len(img.sects)
           x == img.strndx
           old == img.sects[x]
           sect == new.sects[n + 1]
           strs == new.sects[x]
           room == Len(img.bytes)
           whole == Len(new.bytes)
<1>1. /\ new \in ElfImage /\ new.strndx = x /\ Starts(img.bytes, new.bytes)
      /\ Len(new.sects) = n + 1
      /\ \A i \in 1..n : i # x => new.sects[i] = img.sects[i]
  BY ElfParts
<1>2. /\ sect.name = old.size /\ sect.off >= room
      /\ strs.name = old.name /\ strs.size = old.size + 1
      /\ sect.off + sect.size <= strs.off /\ strs.off + strs.size <= whole
  BY ElfParts
<1>3. Slice(new.bytes, strs.off, strs.size)
        = Slice(img.bytes, old.off, old.size) \o <<ElfName(kind)>>
  BY ElfParts
<1>4. /\ sect = new.sects[n + 1] /\ strs = new.sects[x] /\ old = img.sects[x]
      /\ n = Len(img.sects) /\ x = img.strndx
  OBVIOUS
<1>5. /\ img.bytes \in Seq(Byte) /\ img.sects \in Seq(ElfSect) /\ img.fmt = "elf"
      /\ n \in Nat /\ x \in 1..n /\ DOMAIN img.sects = 1..n
  BY DEF ElfLinked, ElfImage, ElfSect
<1>6. /\ new.bytes \in Seq(Byte) /\ new.sects \in Seq(ElfSect) /\ new.fmt = "elf"
  BY <1>1 DEF ElfImage, ElfSect
<1>7. DOMAIN new.sects = 1..n + 1
  BY <1>1, <1>6, LenProperties
<1>8. room \in Nat /\ whole \in Nat /\ room <= whole
  BY <1>1, StartsFacts
<1> HIDE DEF new, n, x, old, sect, strs, room, whole
<1>9. /\ \A i \in 1..n : img.sects[i] \in ElfSect
      /\ \A i \in 1..n + 1 : new.sects[i] \in ElfSect
  <2>1. \A i \in DOMAIN img.sects : img.sects[i] \in ElfSect
    BY <1>5
  <2>2. \A i \in DOMAIN new.sects : new.sects[i] \in ElfSect
    BY <1>6
  <2> QED
    BY <1>5, <1>7, <2>1, <2>2
<1>10. \A s \in ElfSect : s.name \in Nat /\ s.off \in Nat /\ s.size \in Nat
  BY DEF ElfSect
<1>11. /\ sect.name \in Nat /\ sect.off \in Nat /\ sect.size \in Nat
       /\ strs.name \in Nat /\ strs.off \in Nat /\ strs.size \in Nat
       /\ old.name \in Nat /\ old.off \in Nat /\ old.size \in Nat
  <2>1. x \in 1..n + 1 /\ n + 1 \in 1..n + 1
    BY <1>5
  <2>2. sect \in ElfSect /\ strs \in ElfSect /\ old \in ElfSect
    BY <1>4, <1>5, <1>9, <2>1
  <2> QED
    BY <1>10, <2>2
<1>12. \A i \in 1..n : img.sects[i].name < old.size
  BY <1>4, <1>5 DEF ElfLinked
<1>13. \A i \in 1..n : /\ img.sects[i].name \in Nat /\ img.sects[i].off \in Nat
                       /\ img.sects[i].size \in Nat
                       /\ img.sects[i].off + img.sects[i].size <= room
  <2>1. \A i \in 1..n : img.sects[i].off + img.sects[i].size <= room
    BY <1>5 DEF ElfLinked, ElfSound, room
  <2> QED
    BY <1>9, <1>10, <2>1
<1>14. \A i \in 1..n + 1 : \/ i = n + 1 /\ new.sects[i] = sect
                           \/ i = x /\ new.sects[i] = strs
                           \/ i \in 1..n /\ i # x /\ new.sects[i] = img.sects[i]
  BY <1>1, <1>4, <1>5, SMTT(30)
<1>15. \A i \in 1..n + 1 : new.sects[i].off + new.sects[i].size <= whole
  <2>1. sect.off + sect.size <= whole
    BY <1>2, <1>8, <1>11
  <2>2. ASSUME NEW i \in 1..n PROVE img.sects[i].off + img.sects[i].size <= whole
    BY <1>8, <1>13
  <2> QED
    BY <1>2, <1>14, <2>1, <2>2
<1>16. ASSUME NEW i \in 1..n + 1, NEW j \in 1..n + 1, i # j
       PROVE  Apart(new.sects[i].off, new.sects[i].size, new.sects[j].off, new.sects[j].size)
  <2>1. \A k \in 1..n : /\ img.sects[k].off + img.sects[k].size <= sect.off
                        /\ img.sects[k].off + img.sects[k].size <= strs.off
    <3>1. room <= sect.off /\ room <= strs.off
      BY <1>2, <1>8, <1>11
    <3>2. ASSUME NEW k \in 1..n
          PROVE  /\ img.sects[k].off + img.sects[k].size <= sect.off
                 /\ img.sects[k].off + img.sects[k].size <= strs.off
      <4> DEFINE end == img.sects[k].off + img.sects[k].size
      <4>1. end \in Nat /\ end <= room
        BY <1>13, SMTT(30)
      <4> HIDE DEF end
      <4>2. end <= sect.off /\ end <= strs.off
        BY <1>8, <1>11, <3>1, <4>1, SMTT(30)
      <4> QED
        BY <4>2 DEF end
    <3> QED
      BY <3>2
  <2>2. CASE i \in 1..n /\ j \in 1..n /\ new.sects[i] = img.sects[i] /\ new.sects[j] = img.sects[j]
    BY <1>5, <1>16, <2>2 DEF ElfLinked, ElfSound
  <2>3. CASE i \in 1..n /\ new.sects[i] = img.sects[i] /\ new.sects[j] \in {sect, strs}
    BY <2>1, <2>3 DEF Apart
  <2>4. CASE j \in 1..n /\ new.sects[j] = img.sects[j] /\ new.sects[i] \in {sect, strs}
    BY <2>1, <2>4 DEF Apart
  <2>5. CASE new.sects[i] = sect /\ new.sects[j] = strs
    BY <1>2, <2>5 DEF Apart
  <2>6. CASE new.sects[i] = strs /\ new.sects[j] = sect
    BY <1>2, <2>6 DEF Apart
  <2> QED
    BY <1>14, <1>16, <2>2, <2>3, <2>4, <2>5, <2>6
<1>17. ElfSound(new)
  BY <1>7, <1>15, <1>16 DEF ElfSound, whole
<1>18. \A i \in 1..n + 1 : new.sects[i].name < strs.size
  <2>1. sect.name < strs.size
    BY <1>2, <1>11
  <2>2. old.name < old.size
    BY <1>4, <1>5, <1>12
  <2>3. strs.name < strs.size
    BY <1>2, <1>11, <2>2
  <2>4. ASSUME NEW i \in 1..n PROVE img.sects[i].name < strs.size
    BY <1>2, <1>11, <1>12, <1>13, SMTT(30)
  <2> QED
    BY <1>14, <2>1, <2>3, <2>4
<1>19. ElfLinked(new)
  <2>1. x \in DOMAIN new.sects
    BY <1>5, <1>7
  <2> QED
    BY <1>1, <1>4, <1>7, <1>17, <1>18, <2>1 DEF ElfLinked
<1>20. LoaderView(new) = LoaderView(img)
  <2> DEFINE tab == Slice(img.bytes, old.off, old.size)
             tag == <<ElfName(kind)>>
             Shown(i) == { j \in DOMAIN i.sects \ {i.strndx} : ~Added(ElfNameOf(i, j)[1][1]) }
             Entry(i, j) == <<ElfNameOf(i, j), i.sects[j].off,
                              Slice(i.bytes, i.sects[j].off, i.sects[j].size)>>
  <2>1. tab \in Seq(Byte) /\ Len(tab) = old.size
    <3>1. old.off + old.size <= Len(img.bytes)
      BY <1>4, <1>5, <1>13 DEF room
    <3> QED
      BY <1>5, <1>11, <3>1, SliceFacts
  <2>2. tag \in Seq(Byte) /\ Len(tag) = 1
    <3>1. ElfName(kind) \in Byte
      BY AtomFacts, TagFacts DEF ElfName
    <3> QED
      BY <3>1
  <2>3. Slice(new.bytes, strs.off, strs.size) = tab \o tag
    BY <1>3
  <2>4. tag[1][1] = kind
    BY DEF ElfName, Atom
  <2>5. \A j : /\ ElfNameOf(img, j) = Slice(tab, img.sects[j].name, 1)
               /\ ElfNameOf(new, j) = Slice(tab \o tag, new.sects[j].name, 1)
    BY <1>1, <1>4, <2>3 DEF ElfNameOf
  <2> HIDE DEF tab, tag
  <2>6. ASSUME NEW j \in 1..n, j # x PROVE ElfNameOf(new, j) = ElfNameOf(img, j)
    <3>1. img.sects[j].name \in Nat /\ img.sects[j].name + 1 <= Len(tab)
      BY <1>11, <1>12, <1>13, <2>1, SMTT(30)
    <3>2. Slice(tab \o tag, img.sects[j].name, 1) = Slice(tab, img.sects[j].name, 1)
      BY <2>1, <2>2, <3>1, SliceFacts
    <3> QED
      BY <1>1, <2>5, <2>6, <3>2
  <2>7. Added(ElfNameOf(new, n + 1)[1][1])
    <3>1. ElfNameOf(new, n + 1) = Slice(tab \o tag, Len(tab), 1)
      BY <1>2, <1>4, <2>1, <2>5
    <3>2. Slice(tab \o tag, Len(tab), Len(tag)) = tag
      <4>1. tab \in Seq(Byte) /\ tag \in Seq(Byte) /\ Len(tag) # 0
        BY <2>1, <2>2
      <4> QED
        BY <4>1, SliceOfAppended, Zenon
    <3>3. ElfNameOf(new, n + 1) = tag
      BY <2>2, <3>1, <3>2
    <3> QED
      BY <2>4, <3>3 DEF Added
  <2>8. Shown(new) = Shown(img)
    <3>1. /\ DOMAIN new.sects \ {new.strndx} = 1..n + 1 \ {x}
          /\ DOMAIN img.sects \ {img.strndx} = 1..n \ {x}
      BY <1>1, <1>4, <1>5, <1>7
    <3>2. 1..n + 1 \ {x} = (1..n \ {x}) \union {n + 1}
      BY <1>5
    <3> QED
      BY <2>6, <2>7, <3>1, <3>2
  <2>9. ASSUME NEW j \in Shown(img) PROVE Entry(new, j) = Entry(img, j)
    <3>1. j \in 1..n /\ j # x
      BY <1>4, <1>5
    <3>2. ElfNameOf(new, j) = ElfNameOf(img, j) /\ new.sects[j] = img.sects[j]
      BY <1>1, <2>6, <3>1
    <3> DEFINE off == img.sects[j].off
               size == img.sects[j].size
    <3>3. off \in Nat /\ size \in Nat /\ off + size <= Len(img.bytes)
      BY <1>13, <3>1 DEF room
    <3> HIDE DEF off, size
    <3>4. Slice(new.bytes, off, size) = Slice(img.bytes, off, size)
      <4>1. \A o, z \in Nat : o + z <= Len(img.bytes) =>
                                Slice(new.bytes, o, z) = Slice(img.bytes, o, z)
        BY <1>1, StartsFacts
      <4> QED
        BY <3>3, <4>1
    <3> QED
      BY <3>2, <3>4 DEF off, size
  <2>10. { Entry(new, j) : j \in Shown(new) } = { Entry(img, j) : j \in Shown(img) }
    BY <2>8, <2>9
  <2>11. LoaderView(new) = { Entry(new, j) : j \in Shown(new) }
    BY <1>6 DEF LoaderView
  <2>12. LoaderView(img) = { Entry(img, j) : j \in Shown(img) }
    BY <1>5 DEF LoaderView
  <2> QED
    BY <2>10, <2>11, <2>12
<1> QED
  BY <1>19, <1>20 DEF new

----------------------------------------------------------------------------
(* What a reader decodes from a section that starts with a blob.           *)

Packing == [kind : Kinds, addon : Addons, len : BlobLens]
BlobOf(p) == Blob(p.kind, p.addon, p.len)

\* The decoder recovers the addon, whatever alignment padding follows the blob.
LEMMA DecodeFacts ==
  ASSUME NEW kind \in Kinds, NEW a \in Addons, NEW len \in BlobLens, NEW n \in Nat
  PROVE  LET section == Blob(kind, a, len) \o Zeros(n)
         IN  /\ HasMarker(section, kind)
             /\ kind = "pressed" => DecodePressed(section) = Decoded(a)
             /\ kind = "ffi" => DecodeFfi(section) = Decoded(a)
<1> DEFINE blob == Blob(kind, a, len)
           section == blob \o Zeros(n)
<1>1. blob \in Seq(Byte) /\ Len(blob) = len /\ len \in Nat \ {0}
  BY BlobFacts
<1>2. Zeros(n) \in Seq(Byte) /\ Len(Zeros(n)) = n
  BY ZerosFacts
<1>3. section \in Seq(Byte) /\ Len(section) = len + n
      /\ \A i \in 1..len + n : section[i] = IF i <= len THEN blob[i] ELSE Zeros(n)[i - len]
  <2> DEFINE zeros == Zeros(n)
  <2>1. zeros \in Seq(Byte) /\ Len(zeros) = n
    BY <1>2
  <2> HIDE DEF blob, zeros
  <2>2. /\ blob \o zeros \in Seq(Byte) /\ Len(blob \o zeros) = Len(blob) + Len(zeros)
        /\ \A i \in 1..Len(blob) + Len(zeros) :
             (blob \o zeros)[i] = IF i <= Len(blob) THEN blob[i] ELSE zeros[i - Len(blob)]
    BY <1>1, <2>1, ConcatProperties
  <2> QED
    BY <1>1, <2>1, <2>2 DEF zeros
<1>4. section[1] = Atom(kind, a, 1, len)
  BY <1>1, <1>3 DEF Blob
<1>5. section[1][1] = kind /\ section[1][2] = a /\ section[1][3] = 1 /\ StatedLen(section) = len
  BY <1>4 DEF Atom, StatedLen
<1>6. SubSeq(section, 1, len) = blob
  <2>1. Slice(section, 0, len) = Slice(blob, 0, len)
    <3>1. 0 \in Nat /\ len \in Nat /\ 0 + len <= Len(blob)
      BY <1>1
    <3> QED
      BY <1>1, <1>2, <3>1, SliceFacts
  <2>2. Slice(section, 0, len) = SubSeq(section, 1, len)
    BY <1>1, <1>3 DEF Slice
  <2>3. Slice(blob, 0, len) = SubSeq(blob, 1, Len(blob))
    BY <1>1 DEF Slice
  <2> QED
    BY <1>1, <2>1, <2>2, <2>3, SubSeqFull
<1>7. \A i \in len + 1..Len(section) : section[i] = Zero
  <2>1. ASSUME NEW i \in len + 1..Len(section) PROVE section[i] = Zero
    <3>1. i \in 1..len + n /\ ~(i <= len) /\ i - len \in 1..n
      BY <1>1, <1>3
    <3> QED
      BY <1>3, <3>1 DEF Zeros
  <2> QED
    BY <2>1
<1>8. section # <<>>
  BY <1>1, <1>3
<1> HIDE DEF section, blob
<1>9. HasMarker(section, kind)
  BY <1>5, <1>8 DEF HasMarker
<1>10. Integrity(section, kind)
  BY <1>1, <1>3, <1>5, <1>6 DEF Integrity, blob
<1>11. kind = "pressed" => DecodePressed(section) = Decoded(a)
  BY <1>5, <1>9, <1>10 DEF DecodePressed, SizeFits, Decoded
<1>12. kind = "ffi" => DecodeFfi(section) = Decoded(a)
  BY <1>5, <1>7, <1>9, <1>10 DEF DecodeFfi, InspectFfi, SizeFits, Decoded
<1> QED
  BY <1>9, <1>11, <1>12 DEF section, blob

LEMMA DecodeNothing == DecodePressed(<<>>) = None /\ DecodeFfi(<<>>) = None
  BY DEF DecodePressed, DecodeFfi, InspectFfi, HasMarker

\* The padding behind a blob is zeros.
LEMMA PadToIsZeros ==
  ASSUME NEW blob \in Seq(Byte), NEW align \in Nat \ {0}
  PROVE  \E n \in Nat : PadTo(blob, align) = blob \o Zeros(n)
<1>1. Len(blob) \in Nat
  OBVIOUS
<1>2. RoundUp(Len(blob), align) - Len(blob) \in Nat
  <2>1. RoundUp(Len(blob), align) \in Nat /\ RoundUp(Len(blob), align) >= Len(blob)
    BY <1>1, RoundUpFacts
  <2> QED
    BY <1>1, <2>1
<1> QED
  BY <1>2 DEF PadTo

----------------------------------------------------------------------------
(* What a reader of a chain must find: the first packing of its kind, in   *)
(* the order of the chain.                                                 *)

OfKind(chain, kind) == { i \in DOMAIN chain : chain[i].kind = kind }

Readable(img, chain) ==
    \A kind \in Kinds :
      IF OfKind(chain, kind) = {} THEN Find(img, kind) = <<>>
      ELSE \E n \in Nat : Find(img, kind) = BlobOf(chain[Min(OfKind(chain, kind))]) \o Zeros(n)

\* A reader that walks the injected sections in the order they came finds that one.
LEMMA FirstHit ==
  ASSUME NEW chain \in Seq(Packing), NEW kind \in Kinds, NEW base \in Nat, NEW hits,
         hits = { base + j : j \in OfKind(chain, kind) }, OfKind(chain, kind) # {}
  PROVE  /\ hits # {}
         /\ Min(OfKind(chain, kind)) \in 1..Len(chain)
         /\ Min(OfKind(chain, kind)) \in OfKind(chain, kind)
         /\ Min(hits) = base + Min(OfKind(chain, kind))
<1> DEFINE of == OfKind(chain, kind)
           least == Min(of)
<1>1. of \in SUBSET Nat /\ of \subseteq 1..Len(chain) /\ of # {}
  BY DEF OfKind
<1>2. least \in of /\ \A j \in of : least <= j
  BY <1>1, MinFacts
<1> HIDE DEF of, least
<1>3. hits \in SUBSET Nat /\ hits # {}
  BY <1>1 DEF of
<1>4. Min(hits) \in hits /\ \A x \in hits : Min(hits) <= x
  BY <1>3, MinFacts
<1>5. PICK j \in of : Min(hits) = base + j
  BY <1>4 DEF of
<1>6. Min(hits) <= base + least
  BY <1>2, <1>4 DEF of
<1>7. Min(hits) = base + least
  BY <1>1, <1>2, <1>5, <1>6
<1> QED
  BY <1>1, <1>2, <1>3, <1>7 DEF of, least

\* Reading what is readable is recovering what was packed first.
LEMMA Recovered ==
  ASSUME packed \in Seq(Packing), Walkable(image) => Readable(image, packed)
  PROVE  SectionsRecovered
<1> SUFFICES ASSUME Walkable(image), NEW kind \in Kinds
             PROVE  Extract(image, kind) = Decoded(FirstOf(kind))
  BY DEF SectionsRecovered
<1> DEFINE of == OfKind(packed, kind)
<1>1. FirstOf(kind) = IF of = {} THEN None ELSE packed[Min(of)].addon
  BY DEF FirstOf, OfKind
<1>2. CASE of = {}
  <2>1. Find(image, kind) = <<>>
    BY <1>2 DEF Readable
  <2> QED
    BY <1>1, <1>2, <2>1, DecodeNothing DEF Extract, UnwrapFfi, UnwrapIfHybrid, Kinds, Decoded
<1>3. CASE of # {}
  <2> DEFINE p == packed[Min(of)]
  <2>1. PICK n \in Nat : Find(image, kind) = BlobOf(p) \o Zeros(n)
    BY <1>3 DEF Readable
  <2>2. Min(of) \in of /\ Min(of) \in 1..Len(packed)
    <3>1. of \in SUBSET Nat /\ of \subseteq 1..Len(packed)
      BY DEF OfKind
    <3> QED
      BY <1>3, <3>1, MinFacts
  <2>3. p \in Packing
    BY <2>2
  <2>4. p.kind = kind
    BY <2>2 DEF OfKind
  <2> HIDE DEF p
  <2>5. p.addon \in Addons /\ p.len \in BlobLens
    BY <2>3 DEF Packing
  <2>6. /\ kind = "pressed" => DecodePressed(Find(image, kind)) = Decoded(p.addon)
        /\ kind = "ffi" => DecodeFfi(Find(image, kind)) = Decoded(p.addon)
    BY <2>1, <2>4, <2>5, DecodeFacts DEF BlobOf
  <2>7. Extract(image, kind) = Decoded(p.addon)
    BY <2>6 DEF Extract, UnwrapFfi, UnwrapIfHybrid, Kinds
  <2> QED
    BY <1>1, <1>3, <2>7 DEF p
<1> QED
  BY <1>2, <1>3

----------------------------------------------------------------------------
(* PE chains: the injected sections stand behind the stub's own, in order. *)

PeChain(stub, img, chain) ==
    /\ img.table = stub.table /\ img.headers = stub.headers
    /\ Len(img.sects) = Len(stub.sects) + Len(chain)
    /\ \A i \in 1..Len(stub.sects) : img.sects[i].name \notin Kinds
    /\ \A j \in 1..Len(chain) :
         LET s == img.sects[Len(stub.sects) + j]
         IN  /\ s.name = chain[j].kind
             /\ Slice(img.bytes, s.off, s.size) = PadTo(BlobOf(chain[j]), FileAlign)

LEMMA BlobOfFacts ==
  ASSUME NEW p \in Packing
  PROVE  BlobOf(p) \in Seq(Byte) /\ Len(BlobOf(p)) = p.len /\ p.len \in Nat \ {0}
<1>1. p.kind \in Kinds /\ p.addon \in Addons /\ p.len \in BlobLens
  BY DEF Packing
<1> QED
  BY <1>1, BlobFacts DEF BlobOf

\* The reader of a PE finds the first section of a kind that went in.
LEMMA PeReadable ==
  ASSUME NEW stub \in PeImage, NEW img \in PeImage, NEW chain \in Seq(Packing),
         PeChain(stub, img, chain), Walkable(img)
  PROVE  Readable(img, chain)
<1> SUFFICES ASSUME NEW kind \in Kinds
             PROVE  IF OfKind(chain, kind) = {} THEN Find(img, kind) = <<>>
                    ELSE \E n \in Nat : Find(img, kind)
                           = BlobOf(chain[Min(OfKind(chain, kind))]) \o Zeros(n)
  BY DEF Readable
<1> DEFINE base == Len(stub.sects)
           of == OfKind(chain, kind)
           hits == { i \in DOMAIN img.sects : img.sects[i].name = kind }
<1>1. base \in Nat /\ Len(chain) \in Nat /\ DOMAIN chain = 1..Len(chain)
      /\ DOMAIN img.sects = 1..base + Len(chain) /\ img.fmt = "pe"
  <2>1. stub.sects \in Seq(PeSect) /\ img.sects \in Seq(PeSect) /\ img.fmt = "pe"
    BY DEF PeImage, PeSect
  <2> QED
    BY <2>1 DEF PeChain
<1>2. /\ \A i \in 1..base : img.sects[i].name # kind
      /\ \A j \in 1..Len(chain) : img.sects[base + j].name = chain[j].kind
  BY DEF PeChain
<1>3. hits = { base + j : j \in of }
  <2>1. ASSUME NEW i \in hits PROVE \E j \in of : i = base + j
    <3>1. i \in 1..base + Len(chain) /\ i \notin 1..base
      BY <1>1, <1>2
    <3>2. i - base \in 1..Len(chain) /\ i = base + (i - base)
      BY <1>1, <3>1
    <3>3. img.sects[base + (i - base)].name = chain[i - base].kind
      BY <1>2, <3>2
    <3>4. i - base \in of
      BY <1>1, <3>2, <3>3 DEF OfKind
    <3> QED
      BY <3>2, <3>4
  <2>2. ASSUME NEW j \in of PROVE base + j \in hits
    <3>1. j \in 1..Len(chain) /\ chain[j].kind = kind
      BY <1>1 DEF OfKind
    <3>2. base + j \in 1..base + Len(chain)
      BY <1>1, <3>1
    <3> QED
      BY <1>1, <1>2, <3>1, <3>2
  <2> QED
    BY <2>1, <2>2
<1> HIDE DEF hits, base
<1>4. ~(Len(img.sects) > MaxPeSections)
  BY <1>1, LimitsAssumption DEF Walkable, PeImage
<1>5. CASE of = {}
  <2>1. hits = {}
    BY <1>3, <1>5
  <2> QED
    BY <1>1, <1>5, <2>1 DEF Find, FindPe, hits
<1>6. CASE of # {}
  <2> DEFINE first == Min(of)
  <2>1. hits # {} /\ first \in 1..Len(chain) /\ Min(hits) = base + first
    BY <1>1, <1>3, <1>6, FirstHit
  <2> HIDE DEF first
  <2>2. Find(img, kind) = PadTo(BlobOf(chain[first]), FileAlign)
    BY <1>1, <1>4, <2>1 DEF Find, FindPe, hits, PeChain, base
  <2>3. \E n \in Nat : PadTo(BlobOf(chain[first]), FileAlign) = BlobOf(chain[first]) \o Zeros(n)
    <3>1. chain[first] \in Packing
      BY <2>1
    <3> QED
      BY <3>1, BlobOfFacts, Alignments, PadToIsZeros
  <2> QED
    BY <1>6, <2>2, <2>3 DEF first
<1> QED
  BY <1>5, <1>6

\* One more injection, one more section at the end of the row.
LEMMA PeChainStep ==
  ASSUME NEW stub \in PeImage, NEW img, PeLinked(img), NEW chain \in Seq(Packing),
         PeChain(stub, img, chain), NEW p \in Packing
  PROVE  PeChain(stub, InjectPe(img, BlobOf(p), p.kind), Append(chain, p))
<1> DEFINE blob == BlobOf(p)
           top == Max(VaEnds(img))
           before == PadTo(img.bytes, FileAlign)
           body == PadTo(blob, FileAlign)
           sect == PeSection(p.kind, RoundUp(top, SectionAlign), Len(blob), Len(before),
                             RoundUp(Len(blob), FileAlign))
           new == InjectPe(img, blob, p.kind)
           base == Len(stub.sects)
           n == Len(chain)
<1>1. /\ img \in PeImage /\ img.bytes \in Seq(Byte) /\ img.sects \in Seq(PeSect)
      /\ stub.sects \in Seq(PeSect) /\ base \in Nat /\ n \in Nat /\ Len(img.sects) = base + n
  BY DEF PeLinked, PeImage, PeSect, PeChain
<1>2. blob \in Seq(Byte) /\ Len(blob) \in Nat \ {0} /\ p.kind \in Kinds
  BY BlobOfFacts DEF Packing
<1>3. before \in Seq(Byte) /\ Starts(img.bytes, before)
  BY <1>1, Alignments, PadToFacts DEF Starts
<1>4. body \in Seq(Byte) /\ Len(body) = RoundUp(Len(blob), FileAlign) /\ Len(body) # 0
  <2>1. /\ body \in Seq(Byte) /\ Len(body) = RoundUp(Len(blob), FileAlign)
        /\ Len(body) \in Nat /\ Len(body) >= Len(blob)
    BY <1>2, Alignments, PadToFacts
  <2> QED
    BY <1>2, <2>1
<1>5. top \in Nat
  BY PeTop
<1>6. /\ new.table = img.table /\ new.headers = img.headers
      /\ new.sects = Append(img.sects, sect) /\ sect \in PeSect
      /\ new.bytes = before \o body
  BY <1>1, <1>2, <1>5, PeParts, SMTT(30)
<1>7. sect.name = p.kind /\ sect.off = Len(before) /\ sect.size = Len(body)
  BY <1>4 DEF PeSection
<1> HIDE DEF top, before, body, sect, new, blob, base, n
<1>8. Starts(img.bytes, new.bytes)
  BY <1>3, <1>4, <1>6, StartsAppended, StartsTransitive
<1>9. Slice(new.bytes, sect.off, sect.size) = body
  BY <1>3, <1>4, <1>6, <1>7, SliceOfAppended
<1>10. /\ Len(new.sects) = base + n + 1 /\ new.sects[base + n + 1] = sect
       /\ \A i \in 1..base + n : new.sects[i] = img.sects[i]
  <2>1. /\ Len(Append(img.sects, sect)) = Len(img.sects) + 1
        /\ Append(img.sects, sect)[Len(img.sects) + 1] = sect
        /\ \A i \in 1..Len(img.sects) : Append(img.sects, sect)[i] = img.sects[i]
    BY <1>1, <1>6, AppendProperties, SMTT(30)
  <2> QED
    BY <1>1, <1>6, <2>1
<1>11. /\ Len(Append(chain, p)) = n + 1 /\ Append(chain, p)[n + 1] = p
       /\ \A j \in 1..n : Append(chain, p)[j] = chain[j]
  BY AppendProperties DEF n
<1>12. \A i \in 1..base : new.sects[i].name \notin Kinds
  <2>1. \A i \in 1..base : i \in 1..base + n
    BY <1>1
  <2> QED
    BY <1>10, <2>1 DEF PeChain, base
<1>13. ASSUME NEW j \in 1..n + 1
       PROVE  LET s == new.sects[base + j]
              IN  /\ s.name = Append(chain, p)[j].kind
                  /\ Slice(new.bytes, s.off, s.size)
                       = PadTo(BlobOf(Append(chain, p)[j]), FileAlign)
  <2>1. CASE j = n + 1
    <3>1. base + j = base + n + 1
      BY <1>1, <2>1
    <3> QED
      BY <1>7, <1>9, <1>10, <1>11, <2>1, <3>1 DEF blob, body
  <2>2. CASE j \in 1..n
    <3> DEFINE s == img.sects[base + j]
    <3>1. base + j \in 1..base + n
      BY <1>1, <2>2
    <3>2. s \in PeSect /\ s \in Range(img.sects)
      BY <1>1, <3>1 DEF Range
    <3>3. new.sects[base + j] = s
      BY <1>10, <3>1
    <3>4. s.name = chain[j].kind /\ Slice(img.bytes, s.off, s.size) = PadTo(BlobOf(chain[j]), FileAlign)
      BY <2>2 DEF PeChain, base, n
    <3> HIDE DEF s
    <3>5. s.off \in Nat /\ s.size \in Nat /\ s.off + s.size <= Len(img.bytes)
      BY <3>2 DEF PeSect, PeLinked, PeSound
    <3>6. Slice(new.bytes, s.off, s.size) = Slice(img.bytes, s.off, s.size)
      <4>1. \A o, z \in Nat : o + z <= Len(img.bytes) =>
                                Slice(new.bytes, o, z) = Slice(img.bytes, o, z)
        BY <1>8, StartsFacts
      <4> QED
        BY <3>5, <4>1
    <3> QED
      BY <1>11, <2>2, <3>3, <3>4, <3>6
  <2>3. j = n + 1 \/ j \in 1..n
    BY <1>1
  <2> QED
    BY <2>1, <2>2, <2>3
<1>14. new.table = stub.table /\ new.headers = stub.headers
  BY <1>6 DEF PeChain
<1>15. Len(new.sects) = base + Len(Append(chain, p))
  BY <1>1, <1>10, <1>11
<1> QED
  BY <1>1, <1>11, <1>12, <1>13, <1>14, <1>15 DEF PeChain, new, blob, base

----------------------------------------------------------------------------
(* ELF chains, likewise: a section is known by the name the table spells.  *)

ElfChain(stub, img, chain) ==
    /\ Len(img.sects) = Len(stub.sects) + Len(chain)
    /\ img.strndx \in 1..Len(stub.sects)
    /\ \A i \in 1..Len(stub.sects) : ~Added(ElfNameOf(img, i)[1][1])
    /\ \A j \in 1..Len(chain) :
         LET s == img.sects[Len(stub.sects) + j]
         IN  /\ ElfNameOf(img, Len(stub.sects) + j) = <<ElfName(chain[j].kind)>>
             /\ Slice(img.bytes, s.off, s.size) = BlobOf(chain[j])

\* The reader of an ELF image finds the first section of a kind that went in.
LEMMA ElfReadable ==
  ASSUME NEW stub \in ElfImage, NEW img \in ElfImage, NEW chain \in Seq(Packing),
         ElfChain(stub, img, chain)
  PROVE  Readable(img, chain)
<1> SUFFICES ASSUME NEW kind \in Kinds
             PROVE  IF OfKind(chain, kind) = {} THEN Find(img, kind) = <<>>
                    ELSE \E n \in Nat : Find(img, kind)
                           = BlobOf(chain[Min(OfKind(chain, kind))]) \o Zeros(n)
  BY DEF Readable
<1> DEFINE base == Len(stub.sects)
           of == OfKind(chain, kind)
           hits == { i \in DOMAIN img.sects : ElfNameOf(img, i) = <<ElfName(kind)>> }
<1>1. base \in Nat /\ Len(chain) \in Nat /\ DOMAIN chain = 1..Len(chain)
      /\ DOMAIN img.sects = 1..base + Len(chain) /\ img.fmt = "elf"
  <2>1. stub.sects \in Seq(ElfSect) /\ img.sects \in Seq(ElfSect) /\ img.fmt = "elf"
    BY DEF ElfImage, ElfSect
  <2> QED
    BY <2>1 DEF ElfChain
<1>2. \A k, l : <<ElfName(k)>> = <<ElfName(l)>> => k = l
  BY DEF ElfName, Atom
<1>3. /\ \A i \in 1..base : ElfNameOf(img, i) # <<ElfName(kind)>>
      /\ \A j \in 1..Len(chain) :
           ElfNameOf(img, base + j) = <<ElfName(kind)>> <=> chain[j].kind = kind
  <2>1. <<ElfName(kind)>>[1][1] = kind
    BY DEF ElfName, Atom
  <2>2. Added(kind)
    BY DEF Added
  <2> QED
    BY <1>2, <2>1, <2>2 DEF ElfChain
<1>4. hits = { base + j : j \in of }
  <2>1. ASSUME NEW i \in hits PROVE \E j \in of : i = base + j
    <3>1. i \in 1..base + Len(chain) /\ i \notin 1..base
      BY <1>1, <1>3
    <3>2. i - base \in 1..Len(chain) /\ i = base + (i - base)
      BY <1>1, <3>1
    <3>3. chain[i - base].kind = kind
      BY <1>3, <3>2
    <3>4. i - base \in of
      BY <1>1, <3>2, <3>3 DEF OfKind
    <3> QED
      BY <3>2, <3>4
  <2>2. ASSUME NEW j \in of PROVE base + j \in hits
    <3>1. j \in 1..Len(chain) /\ chain[j].kind = kind
      BY <1>1 DEF OfKind
    <3>2. base + j \in 1..base + Len(chain)
      BY <1>1, <3>1
    <3> QED
      BY <1>1, <1>3, <3>1, <3>2
  <2> QED
    BY <2>1, <2>2
<1> HIDE DEF hits, base
<1>5. CASE of = {}
  <2>1. hits = {}
    BY <1>4, <1>5
  <2> QED
    BY <1>1, <1>5, <2>1 DEF Find, FindElf, hits
<1>6. CASE of # {}
  <2> DEFINE first == Min(of)
  <2>1. hits # {} /\ first \in 1..Len(chain) /\ Min(hits) = base + first
    BY <1>1, <1>4, <1>6, FirstHit
  <2> HIDE DEF first
  <2>2. Find(img, kind) = BlobOf(chain[first])
    BY <1>1, <2>1 DEF Find, FindElf, hits, ElfChain, base
  <2>3. BlobOf(chain[first]) = BlobOf(chain[first]) \o Zeros(0)
    <3>1. chain[first] \in Packing
      BY <2>1
    <3>2. BlobOf(chain[first]) \in Seq(Byte)
      BY <3>1, BlobOfFacts
    <3>3. Zeros(0) = <<>>
      BY DEF Zeros
    <3> QED
      BY <3>2, <3>3, ConcatEmptySeq
  <2> QED
    BY <1>6, <2>2, <2>3 DEF first
<1> QED
  BY <1>5, <1>6

\* The grown string table spells the old names where it spelt them, and the new one last.
LEMMA ElfNames ==
  ASSUME NEW img, ElfLinked(img), NEW blob \in Seq(Byte), Len(blob) # 0, NEW kind \in Kinds
  PROVE  LET new == InjectElf(img, blob, kind)
         IN  /\ \A j \in 1..Len(img.sects) : ElfNameOf(new, j) = ElfNameOf(img, j)
             /\ ElfNameOf(new, Len(img.sects) + 1) = <<ElfName(kind)>>
<1> DEFINE new == InjectElf(img, blob, kind)
           n == Len(img.sects)
           x == img.strndx
           old == img.sects[x]
           sect == new.sects[n + 1]
           strs == new.sects[x]
           tab == Slice(img.bytes, old.off, old.size)
           tag == <<ElfName(kind)>>
<1>1. /\ new.strndx = x /\ \A i \in 1..n : i # x => new.sects[i] = img.sects[i]
      /\ sect.name = old.size /\ strs.name = old.name
      /\ Slice(new.bytes, strs.off, strs.size) = tab \o tag
  BY ElfParts
<1>2. /\ img.bytes \in Seq(Byte) /\ img.sects \in Seq(ElfSect) /\ n \in Nat /\ x \in 1..n
      /\ DOMAIN img.sects = 1..n /\ Len(img.bytes) \in Nat
  BY DEF ElfLinked, ElfImage, ElfSect
<1>3. \A i \in 1..n : /\ img.sects[i] \in ElfSect
                      /\ img.sects[i].name < old.size
                      /\ img.sects[i].off + img.sects[i].size <= Len(img.bytes)
  BY <1>2 DEF ElfLinked, ElfSound
<1>4. \A s \in ElfSect : s.name \in Nat /\ s.off \in Nat /\ s.size \in Nat
  BY DEF ElfSect
<1>5. old.off \in Nat /\ old.size \in Nat /\ old.off + old.size <= Len(img.bytes)
  BY <1>2, <1>3, <1>4
<1>6. tab \in Seq(Byte) /\ Len(tab) = old.size
  <2> HIDE DEF old
  <2> QED
    BY <1>2, <1>5, SliceFacts
<1>7. tag \in Seq(Byte) /\ Len(tag) = 1
  <2>1. ElfName(kind) \in Byte
    BY AtomFacts, TagFacts DEF ElfName
  <2> QED
    BY <2>1
<1>8. \A j : /\ ElfNameOf(img, j) = Slice(tab, img.sects[j].name, 1)
             /\ ElfNameOf(new, j) = Slice(tab \o tag, new.sects[j].name, 1)
  BY <1>1 DEF ElfNameOf
<1>9. \A j \in 1..n : new.sects[j].name = img.sects[j].name
  BY <1>1
<1> HIDE DEF new, n, x, old, sect, strs, tab, tag
<1>10. ASSUME NEW j \in 1..n PROVE ElfNameOf(new, j) = ElfNameOf(img, j)
  <2> DEFINE at == img.sects[j].name
  <2>1. at \in Nat /\ at < old.size
    BY <1>3, <1>4
  <2> HIDE DEF at
  <2>2. at + 1 <= Len(tab)
    BY <1>5, <1>6, <2>1
  <2>3. Slice(tab \o tag, at, 1) = Slice(tab, at, 1)
    BY <1>6, <1>7, <2>1, <2>2, SliceFacts
  <2> QED
    BY <1>8, <1>9, <2>3 DEF at
<1>11. ElfNameOf(new, n + 1) = tag
  <2>1. ElfNameOf(new, n + 1) = Slice(tab \o tag, Len(tab), Len(tag))
    BY <1>1, <1>6, <1>7, <1>8 DEF sect
  <2>2. Slice(tab \o tag, Len(tab), Len(tag)) = tag
    <3>1. tab \in Seq(Byte) /\ tag \in Seq(Byte) /\ Len(tag) # 0
      BY <1>6, <1>7
    <3> QED
      BY <3>1, SliceOfAppended, Zenon
  <2> QED
    BY <2>1, <2>2
<1> QED
  BY <1>10, <1>11 DEF new, n, tag

\* One more injection, one more section and one more name.
LEMMA ElfChainStep ==
  ASSUME NEW stub \in ElfImage, NEW img, ElfLinked(img), NEW chain \in Seq(Packing),
         ElfChain(stub, img, chain), NEW p \in Packing
  PROVE  ElfChain(stub, InjectElf(img, BlobOf(p), p.kind), Append(chain, p))
<1> DEFINE blob == BlobOf(p)
           new == InjectElf(img, blob, p.kind)
           base == Len(stub.sects)
           n == Len(chain)
           sect == new.sects[Len(img.sects) + 1]
<1>1. /\ img.sects \in Seq(ElfSect) /\ stub.sects \in Seq(ElfSect)
      /\ base \in Nat /\ n \in Nat /\ Len(img.sects) = base + n /\ DOMAIN img.sects = 1..base + n
      /\ img.strndx \in 1..base + n
  <2>1. /\ img.sects \in Seq(ElfSect) /\ stub.sects \in Seq(ElfSect)
        /\ img.strndx \in DOMAIN img.sects
    BY DEF ElfLinked, ElfImage, ElfSect
  <2>2. Len(img.sects) = base + n
    BY DEF ElfChain
  <2> QED
    BY <2>1, <2>2
<1>2. blob \in Seq(Byte) /\ Len(blob) # 0 /\ p.kind \in Kinds
  BY BlobOfFacts DEF Packing
<1>3. /\ Starts(img.bytes, new.bytes) /\ Len(new.sects) = base + n + 1
      /\ new.strndx = img.strndx
      /\ \A i \in 1..base + n : i # img.strndx => new.sects[i] = img.sects[i]
      /\ Slice(new.bytes, sect.off, sect.size) = blob
  <2> HIDE DEF blob
  <2>1. /\ Starts(img.bytes, new.bytes) /\ Len(new.sects) = Len(img.sects) + 1
        /\ new.strndx = img.strndx
        /\ \A i \in 1..Len(img.sects) : i # img.strndx => new.sects[i] = img.sects[i]
        /\ Slice(new.bytes, sect.off, sect.size) = blob
    BY <1>2, ElfParts
  <2> HIDE DEF new, sect
  <2> QED
    BY <1>1, <2>1
<1>4. /\ \A j \in 1..base + n : ElfNameOf(new, j) = ElfNameOf(img, j)
      /\ ElfNameOf(new, base + n + 1) = <<ElfName(p.kind)>>
  BY <1>1, <1>2, ElfNames, ZenonT(30)
<1>5. /\ Len(Append(chain, p)) = n + 1 /\ Append(chain, p)[n + 1] = p
      /\ \A j \in 1..n : Append(chain, p)[j] = chain[j]
  BY AppendProperties
<1>6. sect = new.sects[base + n + 1]
  BY <1>1
<1> HIDE DEF new, blob, base, n, sect
<1>7. \A i \in 1..base : ~Added(ElfNameOf(new, i)[1][1])
  <2>1. \A i \in 1..base : i \in 1..base + n
    BY <1>1
  <2> QED
    BY <1>4, <2>1 DEF ElfChain, base
<1>8. ASSUME NEW j \in 1..n + 1
      PROVE  LET s == new.sects[base + j]
             IN  /\ ElfNameOf(new, base + j) = <<ElfName(Append(chain, p)[j].kind)>>
                 /\ Slice(new.bytes, s.off, s.size) = BlobOf(Append(chain, p)[j])
  <2>1. CASE j = n + 1
    <3>1. base + j = base + n + 1
      BY <1>1, <2>1
    <3> QED
      BY <1>3, <1>4, <1>5, <1>6, <2>1, <3>1 DEF blob
  <2>2. CASE j \in 1..n
    <3> DEFINE s == img.sects[base + j]
    <3>1. base + j \in 1..base + n
      BY <1>1, <2>2
    <3>2. s \in ElfSect /\ s.off + s.size <= Len(img.bytes)
      BY <1>1, <3>1 DEF ElfLinked, ElfSound
    <3>3. /\ ElfNameOf(img, base + j) = <<ElfName(chain[j].kind)>>
          /\ Slice(img.bytes, s.off, s.size) = BlobOf(chain[j])
      BY <2>2 DEF ElfChain, base, n
    <3>4. base + j # img.strndx
      <4>1. img.strndx \in 1..base
        BY DEF ElfChain, base
      <4> QED
        BY <1>1, <2>2, <4>1
    <3>5. new.sects[base + j] = s
      BY <1>3, <3>1, <3>4
    <3> HIDE DEF s
    <3>6. Slice(new.bytes, s.off, s.size) = Slice(img.bytes, s.off, s.size)
      <4>1. \A o, z \in Nat : o + z <= Len(img.bytes) =>
                                Slice(new.bytes, o, z) = Slice(img.bytes, o, z)
        BY <1>3, StartsFacts
      <4>2. s.off \in Nat /\ s.size \in Nat
        BY <3>2 DEF ElfSect
      <4> QED
        BY <3>2, <4>1, <4>2
    <3> QED
      BY <1>4, <1>5, <2>2, <3>1, <3>3, <3>5, <3>6
  <2>3. j = n + 1 \/ j \in 1..n
    BY <1>1
  <2> QED
    BY <2>1, <2>2, <2>3
<1>9. Len(new.sects) = base + Len(Append(chain, p))
  BY <1>1, <1>3, <1>5
<1>10. new.strndx \in 1..base
  BY <1>3 DEF ElfChain, base
<1> QED
  BY <1>1, <1>5, <1>7, <1>8, <1>9, <1>10 DEF ElfChain, new, blob, base

----------------------------------------------------------------------------
(* Mach-O: the walk over the load commands.  That a recursive function has *)
(* the values its definition gives, and what they are, goes by the first   *)
(* place where it would not.                                               *)

\* There is a function that adds up the sizes: the restriction to 0..n of such a function goes
\* on to n + 1, so there is no first number without one.
LEMMA WalkExists ==
  ASSUME NEW top \in Nat, NEW size, \A n \in 1..top : size[n] \in Nat
  PROVE  \E f \in [0..top -> Nat] :
           f[0] = HeaderSize /\ \A n \in 1..top : f[n] = f[n - 1] + size[n]
<1> DEFINE Walk(f, n) == /\ f \in [0..n -> Nat] /\ f[0] = HeaderSize
                         /\ \A i \in 1..n : f[i] = f[i - 1] + size[i]
           Fails == { n \in 0..top : ~ \E f : Walk(f, n) }
<1>1. HeaderSize \in Nat
  BY DEF HeaderSize
<1>2. Fails = {}
  <2>1. SUFFICES ASSUME Fails # {} PROVE FALSE
    OBVIOUS
  <2>2. PICK n \in Fails : \A i \in Fails : n <= i
    <3>1. Fails \in SUBSET Nat
      OBVIOUS
    <3> QED
      BY <2>1, <3>1, Least
  <2>3. n \in 0..top /\ ~ \E f : Walk(f, n)
    OBVIOUS
  <2>4. CASE n = 0
    <3>1. Walk([i \in 0..0 |-> HeaderSize], 0)
      BY <1>1
    <3> QED
      BY <2>3, <2>4, <3>1
  <2>5. CASE n # 0
    <3>1. n - 1 \in 0..top /\ n - 1 \notin Fails
      <4>1. n \in Nat /\ n - 1 \in 0..top /\ ~(n <= n - 1)
        BY <2>3, <2>5
      <4> HIDE DEF Fails
      <4> QED
        BY <2>2, <4>1
    <3>2. PICK g : Walk(g, n - 1)
      BY <3>1
    <3> DEFINE f == [i \in 0..n |-> IF i = n THEN g[n - 1] + size[n] ELSE g[i]]
    <3>3. n \in 1..top /\ size[n] \in Nat /\ g[n - 1] \in Nat
      BY <2>3, <2>5, <3>2
    <3>4. f \in [0..n -> Nat]
      BY <3>2, <3>3
    <3>5. f[0] = HeaderSize
      BY <2>3, <2>5, <3>2
    <3>6. ASSUME NEW i \in 1..n PROVE f[i] = f[i - 1] + size[i]
      <4>1. i - 1 \in 0..n /\ i \in 0..n /\ i - 1 # n
        BY <3>3, <3>6
      <4>2. f[i - 1] = g[i - 1]
        BY <4>1
      <4>3. CASE i = n
        BY <4>1, <4>2, <4>3
      <4>4. CASE i # n
        <5>1. i \in 1..n - 1
          BY <3>3, <3>6, <4>4
        <5> QED
          BY <3>2, <4>1, <4>2, <4>4, <5>1
      <4> QED
        BY <4>3, <4>4
    <3>7. Walk(f, n)
      BY <3>4, <3>5, <3>6
    <3> QED
      BY <2>3, <3>7
  <2> QED
    BY <2>4, <2>5
<1>3. top \in 0..top /\ top \notin Fails
  BY <1>2, SMTT(30)
<1>4. \E f : Walk(f, top)
  BY <1>3
<1> QED
  BY <1>4

\* What LcEnds computes.
LEMMA LcEndsFacts ==
  ASSUME NEW img \in MachoImage, img.ncmds <= Len(img.cmds)
  PROVE  /\ LcEnds(img)[0] = HeaderSize
         /\ \A n \in 0..img.ncmds : LcEnds(img)[n] \in Nat
         /\ \A n \in 1..img.ncmds : LcEnds(img)[n] = LcEnds(img)[n - 1] + img.cmds[n].size
<1> DEFINE top == img.ncmds
           size == [n \in 1..top |-> img.cmds[n].size]
           Ends(f) == [n \in 0..top |-> IF n = 0 THEN HeaderSize ELSE f[n - 1] + img.cmds[n].size]
<1>1. top \in Nat /\ img.cmds \in Seq(Command) /\ Len(img.cmds) \in Nat
  BY DEF MachoImage
<1>2. \A n \in 1..top : img.cmds[n] \in Command
  BY <1>1
<1>3. \A n \in 1..top : size[n] \in Nat
  BY <1>2 DEF Command
<1> HIDE DEF top
<1>4. PICK f \in [0..top -> Nat] :
        f[0] = HeaderSize /\ \A n \in 1..top : f[n] = f[n - 1] + size[n]
  <2> HIDE DEF size
  <2> QED
    BY <1>1, <1>3, WalkExists
<1>5. f = Ends(f)
  <2>1. ASSUME NEW n \in 0..top PROVE f[n] = Ends(f)[n]
    <3>1. CASE n = 0
      BY <1>4, <3>1
    <3>2. CASE n # 0
      <4>1. n \in 1..top
        BY <1>1, <3>2
      <4> QED
        BY <1>4, <3>2, <4>1
    <3> QED
      BY <3>1, <3>2
  <2> QED
    BY <1>4, <2>1
<1> DEFINE g == LcEnds(img)
<1>6. g = CHOOSE h : h = Ends(h)
  BY DEF LcEnds, top
<1>7. g = Ends(g)
  <2> HIDE DEF Ends, g
  <2> QED
    BY <1>5, <1>6
<1> HIDE DEF g
<1>8. /\ g[0] = HeaderSize
      /\ \A n \in 1..top : g[n] = g[n - 1] + img.cmds[n].size
  <2>1. ASSUME NEW n \in 0..top PROVE g[n] = IF n = 0 THEN HeaderSize ELSE g[n - 1] + img.cmds[n].size
    BY <1>7
  <2>2. 0 \in 0..top /\ \A n \in 1..top : n \in 0..top /\ n # 0
    BY <1>1
  <2> QED
    BY <2>1, <2>2
<1> DEFINE Odd == { n \in 0..top : g[n] \notin Nat }
<1>9. Odd = {}
  <2>1. SUFFICES ASSUME Odd # {} PROVE FALSE
    OBVIOUS
  <2>2. PICK n \in Odd : \A i \in Odd : n <= i
    <3>1. Odd \in SUBSET Nat
      OBVIOUS
    <3> QED
      BY <2>1, <3>1, Least
  <2>3. n # 0
    BY <1>8 DEF HeaderSize
  <2>4. n \in 1..top /\ n - 1 \in 0..top /\ n - 1 \notin Odd
    BY <1>1, <2>2, <2>3
  <2>5. g[n - 1] \in Nat /\ img.cmds[n].size \in Nat
    BY <1>3, <2>4
  <2> QED
    BY <1>8, <2>4, <2>5
<1> QED
  BY <1>8, <1>9 DEF g, top

(* F walks from lo to hi as G does from lo + d, c behind it.               *)
InStep(F, G, lo, hi, d, c) ==
    /\ \A i \in lo..hi : F[i] \in Nat /\ G[i + d] \in Nat
    /\ G[lo + d] = F[lo] + c
    /\ \A i \in lo + 1..hi : \E size \in Nat : /\ F[i] = F[i - 1] + size
                                               /\ G[i + d] = G[(i - 1) + d] + size

Parallel(F, G, lo, hi, d, c) == \A i \in lo..hi : G[i + d] = F[i] + c

\* Two walks that take the same steps stay as far apart as they began.
LEMMA SameSteps ==
  ASSUME NEW lo \in Nat, NEW hi \in Nat, NEW d \in Nat, NEW c \in Int, NEW F, NEW G,
         InStep(F, G, lo, hi, d, c)
  PROVE  Parallel(F, G, lo, hi, d, c)
<1>0. /\ \A i \in lo..hi : F[i] \in Nat /\ G[i + d] \in Nat
      /\ G[lo + d] = F[lo] + c
      /\ \A i \in lo + 1..hi : \E size \in Nat : /\ F[i] = F[i - 1] + size
                                                 /\ G[i + d] = G[(i - 1) + d] + size
  BY DEF InStep
<1> DEFINE Off == { i \in lo..hi : G[i + d] # F[i] + c }
<1>1. Off = {}
  <2>1. SUFFICES ASSUME Off # {} PROVE FALSE
    OBVIOUS
  <2>2. PICK n \in Off : \A i \in Off : n <= i
    <3>1. Off \in SUBSET Nat
      OBVIOUS
    <3> QED
      BY <2>1, <3>1, Least
  <2>3. n \in lo + 1..hi
    BY <1>0
  <2>4. n - 1 \in lo..hi /\ n - 1 \notin Off
    BY <2>2, <2>3
  <2>5. G[(n - 1) + d] = F[n - 1] + c
    BY <2>4
  <2>6. PICK size \in Nat : F[n] = F[n - 1] + size /\ G[n + d] = G[(n - 1) + d] + size
    BY <1>0, <2>3
  <2>7. F[n - 1] \in Nat /\ F[n] \in Nat
    BY <1>0, <2>3, <2>4
  <2>8. G[n + d] = F[n] + c
    BY <2>5, <2>6, <2>7
  <2> QED
    BY <2>8
<1> QED
  BY <1>1 DEF Parallel

----------------------------------------------------------------------------
(* Mach-O: inserting a command, splicing bytes.                            *)

Inserted(S, seq, at, elt, res) ==
    /\ res \in Seq(S) /\ Len(res) = Len(seq) + 1
    /\ \A j \in 1..at - 1 : res[j] = seq[j]
    /\ res[at] = elt
    /\ \A j \in at..Len(seq) : res[j + 1] = seq[j]

\* What InsertAt returns, element by element.
LEMMA InsertAtFacts ==
  ASSUME NEW S, NEW seq \in Seq(S), NEW at \in 1..Len(seq), NEW elt \in S
  PROVE  Inserted(S, seq, at, elt, InsertAt(seq, at, elt))
<1> DEFINE before == SubSeq(seq, 1, at - 1)
           one == <<elt>>
           after == SubSeq(seq, at, Len(seq))
           n == Len(seq)
<1>1. n \in Nat /\ at \in Nat /\ at >= 1 /\ at <= n
  OBVIOUS
<1>2. /\ before \in Seq(S) /\ Len(before) = at - 1
      /\ \A j \in 1..at - 1 : before[j] = seq[j]
  <2>1. \A j \in 1..at - 1 : j \in 1..n
    BY <1>1
  <2>2. \A j \in 1..at - 1 : seq[j] \in S
    BY <2>1
  <2> QED
    BY <1>1, <2>2, SubSeqProperties
<1>3. /\ after \in Seq(S) /\ Len(after) = n - at + 1
      /\ \A j \in 1..n - at + 1 : after[j] = seq[at + j - 1]
  <2>1. \A j \in at..n : seq[j] \in S
    BY <1>1
  <2> QED
    BY <1>1, <2>1, SubSeqProperties
<1>4. one \in Seq(S) /\ Len(one) = 1 /\ one[1] = elt
  OBVIOUS
<1>5. InsertAt(seq, at, elt) = (before \o one) \o after
  BY DEF InsertAt
<1> HIDE DEF before, one, after, n
<1>6. /\ before \o one \in Seq(S) /\ Len(before \o one) = at
      /\ \A j \in 1..at - 1 : (before \o one)[j] = before[j]
      /\ (before \o one)[at] = elt
  <2>1. /\ before \o one \in Seq(S) /\ Len(before \o one) = Len(before) + Len(one)
        /\ \A j \in 1..Len(before) + Len(one) :
             (before \o one)[j] = IF j <= Len(before) THEN before[j] ELSE one[j - Len(before)]
    BY <1>2, <1>4, ConcatProperties
  <2> QED
    BY <1>1, <1>2, <1>4, <2>1
<1> DEFINE head == before \o one
<1> HIDE DEF head
<1>7. /\ head \o after \in Seq(S) /\ Len(head \o after) = n + 1
      /\ \A j \in 1..n + 1 : (head \o after)[j] = IF j <= at THEN head[j] ELSE after[j - at]
  <2>1. /\ head \o after \in Seq(S) /\ Len(head \o after) = Len(head) + Len(after)
        /\ \A j \in 1..Len(head) + Len(after) :
             (head \o after)[j] = IF j <= Len(head) THEN head[j] ELSE after[j - Len(head)]
    <3>1. head \in Seq(S)
      BY <1>6 DEF head
    <3> QED
      BY <1>3, <3>1, ConcatProperties
  <2>2. Len(head) = at /\ Len(head) + Len(after) = n + 1
    BY <1>1, <1>3, <1>6 DEF head
  <2> QED
    BY <2>1, <2>2
<1>8. \A j \in 1..at - 1 : (head \o after)[j] = seq[j]
  <2>1. \A j \in 1..at - 1 : j \in 1..n + 1 /\ j <= at
    BY <1>1
  <2> QED
    BY <1>2, <1>6, <1>7, <2>1 DEF head
<1>9. (head \o after)[at] = elt
  BY <1>1, <1>6, <1>7 DEF head
<1>10. ASSUME NEW j \in at..n PROVE (head \o after)[j + 1] = seq[j]
  <2>1. j + 1 \in 1..n + 1 /\ ~(j + 1 <= at) /\ (j + 1) - at \in 1..n - at + 1
    BY <1>1
  <2>2. (head \o after)[j + 1] = after[(j + 1) - at]
    BY <1>7, <2>1
  <2>3. after[(j + 1) - at] = seq[at + ((j + 1) - at) - 1] /\ at + ((j + 1) - at) - 1 = j
    BY <1>1, <1>3, <2>1
  <2> QED
    BY <2>2, <2>3
<1> QED
  BY <1>5, <1>7, <1>8, <1>9, <1>10 DEF head, n, Inserted

SameRun(b, x, c, y, size) == \A k \in 1..size : b[x + k] = c[y + k]

\* Slices with the same bytes are the same.
LEMMA SameSlice ==
  ASSUME NEW b \in Seq(Byte), NEW c \in Seq(Byte), NEW x \in Nat, NEW y \in Nat, NEW size \in Nat,
         x + size <= Len(b), y + size <= Len(c),
         SameRun(b, x, c, y, size)
  PROVE  Slice(b, x, size) = Slice(c, y, size)
<1> DEFINE s == SubSeq(b, x + 1, x + size)
           t == SubSeq(c, y + 1, y + size)
<1>1. Len(b) \in Nat /\ Len(c) \in Nat
  OBVIOUS
<1>2. /\ s \in Seq(Byte) /\ Len(s) = size /\ \A k \in 1..size : s[k] = b[x + k]
  <2>1. \A k \in x + 1..x + size : b[k] \in Byte
    BY <1>1
  <2>2. /\ s \in Seq(Byte)
        /\ Len(s) = IF x + 1 <= x + size THEN (x + size) - (x + 1) + 1 ELSE 0
        /\ \A k \in 1..(x + size) - (x + 1) + 1 : s[k] = b[(x + 1) + k - 1]
    BY <2>1, SubSeqProperties
  <2> HIDE DEF s
  <2>3. Len(s) = size
    BY <2>2
  <2>4. ASSUME NEW k \in 1..size PROVE s[k] = b[x + k]
    <3>1. k \in 1..(x + size) - (x + 1) + 1 /\ (x + 1) + k - 1 = x + k
      OBVIOUS
    <3> QED
      BY <2>2, <3>1
  <2> QED
    BY <2>2, <2>3, <2>4
<1>3. /\ t \in Seq(Byte) /\ Len(t) = size /\ \A k \in 1..size : t[k] = c[y + k]
  <2>1. \A k \in y + 1..y + size : c[k] \in Byte
    BY <1>1
  <2>2. /\ t \in Seq(Byte)
        /\ Len(t) = IF y + 1 <= y + size THEN (y + size) - (y + 1) + 1 ELSE 0
        /\ \A k \in 1..(y + size) - (y + 1) + 1 : t[k] = c[(y + 1) + k - 1]
    BY <2>1, SubSeqProperties
  <2> HIDE DEF t
  <2>3. Len(t) = size
    BY <2>2
  <2>4. ASSUME NEW k \in 1..size PROVE t[k] = c[y + k]
    <3>1. k \in 1..(y + size) - (y + 1) + 1 /\ (y + 1) + k - 1 = y + k
      OBVIOUS
    <3> QED
      BY <2>2, <3>1
  <2> QED
    BY <2>2, <2>3, <2>4
<1>4. Slice(b, x, size) = s /\ Slice(c, y, size) = t
  BY DEF Slice
<1> HIDE DEF s, t
<1>5. s = t
  BY <1>2, <1>3, SeqEqual DEF SameRun
<1> QED
  BY <1>4, <1>5

LEMMA Pages == PageSize \in Nat \ {0}
  BY AlignAssumption

\* A padded blob, byte by byte.
LEMMA PadToPoints ==
  ASSUME NEW blob \in Seq(Byte), NEW align \in Nat \ {0}
  PROVE  /\ PadTo(blob, align) \in Seq(Byte)
         /\ Len(PadTo(blob, align)) = RoundUp(Len(blob), align)
         /\ RoundUp(Len(blob), align) \in Nat /\ Len(blob) <= RoundUp(Len(blob), align)
         /\ RoundUp(Len(blob), align) % align = 0
         /\ \A i \in 1..Len(blob) : PadTo(blob, align)[i] = blob[i]
         /\ \A i \in Len(blob) + 1..RoundUp(Len(blob), align) : PadTo(blob, align)[i] = Zero
<1> DEFINE len == RoundUp(Len(blob), align)
           more == len - Len(blob)
           zeros == Zeros(more)
<1>1. Len(blob) \in Nat /\ len \in Nat /\ len >= Len(blob) /\ len % align = 0
  <2>1. Len(blob) \in Nat
    OBVIOUS
  <2> QED
    BY <2>1, RoundUpFacts
<1> HIDE DEF len
<1>2. more \in Nat
  BY <1>1
<1>3. zeros \in Seq(Byte) /\ Len(zeros) = more /\ \A i \in 1..more : zeros[i] = Zero
  BY <1>2, ZerosFacts DEF Zeros
<1> HIDE DEF zeros
<1>4. /\ blob \o zeros \in Seq(Byte) /\ Len(blob \o zeros) = Len(blob) + Len(zeros)
      /\ \A i \in 1..Len(blob) + Len(zeros) :
           (blob \o zeros)[i] = IF i <= Len(blob) THEN blob[i] ELSE zeros[i - Len(blob)]
  BY <1>3, ConcatProperties
<1>5. PadTo(blob, align) = blob \o zeros
  BY DEF PadTo, zeros, len
<1>6. Len(blob) + Len(zeros) = len
  BY <1>1, <1>3
<1>7. \A i \in 1..Len(blob) : (blob \o zeros)[i] = blob[i]
  BY <1>1, <1>4, <1>6
<1>8. ASSUME NEW i \in Len(blob) + 1..len PROVE (blob \o zeros)[i] = Zero
  <2>1. i \in 1..len /\ ~(i <= Len(blob)) /\ i - Len(blob) \in 1..more
    BY <1>1
  <2> QED
    BY <1>3, <1>4, <1>6, <2>1
<1> QED
  BY <1>1, <1>4, <1>5, <1>6, <1>7, <1>8 DEF len

(* The new file, place by place.                                           *)
BytesSpliced(b, blob, start, end, delta, s) ==
    /\ s \in Seq(Byte) /\ Len(s) = end + delta
    /\ \A i \in 1..start : s[i] = b[i]
    /\ \A i \in 1..Len(blob) : s[start + i] = blob[i]
    /\ \A i \in Len(blob) + 1..delta : s[start + i] = Zero
    /\ \A i \in start + 1..end : s[i + delta] = b[i]

\* The three parts that the splice puts together, byte by byte.
LEMMA SplicedBytes ==
  ASSUME NEW b \in Seq(Byte), NEW blob \in Seq(Byte), NEW start \in Nat, NEW end \in Nat,
         start <= end, end <= Len(b)
  PROVE  BytesSpliced(b, blob, start, end, RoundUp(Len(blob), PageSize),
           SubSeq(b, 1, start) \o PadTo(blob, PageSize) \o SubSeq(b, start + 1, end))
<1> DEFINE delta == RoundUp(Len(blob), PageSize)
           pre == SubSeq(b, 1, start)
           mid == PadTo(blob, PageSize)
           post == SubSeq(b, start + 1, end)
<1>1. Len(b) \in Nat /\ Len(blob) \in Nat
  OBVIOUS
<1>2. /\ mid \in Seq(Byte) /\ Len(mid) = delta /\ delta \in Nat /\ Len(blob) <= delta
      /\ \A i \in 1..Len(blob) : mid[i] = blob[i]
      /\ \A i \in Len(blob) + 1..delta : mid[i] = Zero
  BY Pages, PadToPoints
<1> HIDE DEF delta, mid
<1>3. pre \in Seq(Byte) /\ Len(pre) = start /\ \A i \in 1..start : pre[i] = b[i]
  <2>1. \A i \in 1..start : b[i] \in Byte
    BY <1>1
  <2>2. /\ pre \in Seq(Byte) /\ Len(pre) = IF 1 <= start THEN start - 1 + 1 ELSE 0
        /\ \A i \in 1..start - 1 + 1 : pre[i] = b[1 + i - 1]
    BY <2>1, SubSeqProperties
  <2> HIDE DEF pre
  <2> QED
    BY <2>2
<1>4. /\ post \in Seq(Byte) /\ Len(post) = end - start
      /\ \A i \in 1..end - start : post[i] = b[start + i]
  <2>1. \A i \in start + 1..end : b[i] \in Byte
    BY <1>1
  <2>2. /\ post \in Seq(Byte)
        /\ Len(post) = IF start + 1 <= end THEN end - (start + 1) + 1 ELSE 0
        /\ \A i \in 1..end - (start + 1) + 1 : post[i] = b[(start + 1) + i - 1]
    BY <2>1, SubSeqProperties
  <2> HIDE DEF post
  <2> QED
    BY <2>2
<1> HIDE DEF pre, post
<1> DEFINE head == pre \o mid
<1>5. /\ head \in Seq(Byte) /\ Len(head) = start + delta
      /\ \A i \in 1..start + delta : head[i] = IF i <= start THEN pre[i] ELSE mid[i - start]
  <2>1. /\ head \in Seq(Byte) /\ Len(head) = Len(pre) + Len(mid)
        /\ \A i \in 1..Len(pre) + Len(mid) :
             head[i] = IF i <= Len(pre) THEN pre[i] ELSE mid[i - Len(pre)]
    BY <1>2, <1>3, ConcatProperties, ZenonT(30)
  <2> QED
    BY <1>2, <1>3, <2>1
<1> HIDE DEF head
<1> DEFINE s == head \o post
<1>6. /\ s \in Seq(Byte) /\ Len(s) = end + delta
      /\ \A i \in 1..end + delta :
           s[i] = IF i <= start + delta THEN head[i] ELSE post[i - (start + delta)]
  <2>1. /\ s \in Seq(Byte) /\ Len(s) = Len(head) + Len(post)
        /\ \A i \in 1..Len(head) + Len(post) :
             s[i] = IF i <= Len(head) THEN head[i] ELSE post[i - Len(head)]
    BY <1>4, <1>5, ConcatProperties
  <2>2. Len(head) = start + delta /\ Len(head) + Len(post) = end + delta
    BY <1>2, <1>4, <1>5
  <2> QED
    BY <2>1, <2>2
<1> HIDE DEF s
<1>7. \A i \in 1..start : s[i] = b[i]
  <2>1. \A i \in 1..start : i \in 1..end + delta /\ i <= start + delta /\ i \in 1..start + delta
    BY <1>2
  <2> QED
    BY <1>3, <1>5, <1>6, <2>1
<1>8. ASSUME NEW i \in 1..delta PROVE s[start + i] = mid[i]
  <2>1. /\ start + i \in 1..end + delta /\ start + i \in 1..start + delta
        /\ start + i <= start + delta /\ ~(start + i <= start) /\ (start + i) - start = i
    BY <1>2
  <2> QED
    BY <1>5, <1>6, <2>1
<1>9. ASSUME NEW i \in start + 1..end PROVE s[i + delta] = b[i]
  <2>1. /\ i + delta \in 1..end + delta /\ ~(i + delta <= start + delta)
        /\ (i + delta) - (start + delta) = i - start /\ i - start \in 1..end - start
        /\ start + (i - start) = i
    BY <1>2
  <2>2. s[i + delta] = post[i - start]
    BY <1>6, <2>1
  <2> QED
    BY <1>4, <2>1, <2>2
<1>10. /\ \A i \in 1..Len(blob) : s[start + i] = blob[i]
       /\ \A i \in Len(blob) + 1..delta : s[start + i] = Zero
  <2>1. /\ \A i \in 1..Len(blob) : i \in 1..delta
        /\ \A i \in Len(blob) + 1..delta : i \in 1..delta
    BY <1>1, <1>2
  <2> QED
    BY <1>2, <1>8, <2>1
<1> QED
  BY <1>6, <1>7, <1>9, <1>10 DEF BytesSpliced, s, head, pre, mid, post, delta

----------------------------------------------------------------------------
(* Mach-O: the anchors the splice works from.                              *)

Anchored(img, le) ==
    /\ le \in Live(img)
    /\ LinkeditLast(img, le) /\ PartsInPlace(img, le) /\ SignatureLast(img, le)

(* The commands a splice keeps: all but the signature's.                   *)
Kept(img) == IF CodeSig(img) = {} THEN img.ncmds ELSE img.ncmds - 1

LEMMA CommandFacts ==
  ASSUME NEW c \in Command
  PROVE  /\ c.cmd \in Tag /\ c.name \in Tag /\ c.size \in Nat /\ c.vmaddr \in Nat
         /\ c.vmsize \in Nat /\ c.fileoff \in Nat /\ c.filesize \in Nat /\ c.sects \in Seq(Sect)
  BY DEF Command

LEMMA MachoTypes ==
  ASSUME NEW img, MachoLinked(img)
  PROVE  /\ img \in MachoImage /\ img.fmt = "macho" /\ img.ncmds \in Nat
         /\ img.bytes \in Seq(Byte) /\ Len(img.bytes) \in Nat
         /\ img.cmds \in Seq(Command) /\ Len(img.cmds) \in Nat /\ img.ncmds <= Len(img.cmds)
         /\ \A i \in Live(img) : img.cmds[i] \in Command
<1>1. /\ img \in MachoImage /\ img.fmt = "macho" /\ img.ncmds \in Nat
      /\ img.bytes \in Seq(Byte) /\ img.cmds \in Seq(Command) /\ img.ncmds <= Len(img.cmds)
  BY DEF MachoLinked, MachoImage
<1>2. Len(img.bytes) \in Nat /\ Len(img.cmds) \in Nat
  BY <1>1
<1>3. \A i \in Live(img) : img.cmds[i] \in Command
  BY <1>1, <1>2 DEF Live
<1> QED
  BY <1>1, <1>2, <1>3

LEMMA OneOf == ASSUME NEW x \in Nat PROVE Max({x}) = x /\ Min({x}) = x
<1>1. \E y \in {x} : \A z \in {x} : y >= z
  OBVIOUS
<1>2. \E y \in {x} : \A z \in {x} : y <= z
  OBVIOUS
<1> QED
  BY <1>1, <1>2 DEF Max, Min

\* Where __LINKEDIT and the signature are found in an image that a linker laid out.
LEMMA Anchors ==
  ASSUME NEW img, MachoLinked(img), NEW le, Anchored(img, le)
  PROVE  /\ le \in Nat /\ le \in 1..img.ncmds /\ le \in 1..Kept(img)
         /\ Linkedit(img) = le
         /\ Kept(img) \in Nat /\ Kept(img) <= img.ncmds
         /\ CodeSig(img) # {} =>
              CodeSig(img) = {img.ncmds} /\ SigAt(img) = img.ncmds /\ Kept(img) = img.ncmds - 1
         /\ \A i \in 1..Kept(img) : i \in Live(img) /\ img.cmds[i].cmd # "signature"
         /\ LinkeditEnd(img) \in Nat /\ img.cmds[le].fileoff <= LinkeditEnd(img)
         /\ LinkeditEnd(img) <= Len(img.bytes)
         /\ CodeSig(img) = {} => LinkeditEnd(img) = Len(img.bytes)
<1> DEFINE n == img.ncmds
           edit == img.cmds[le]
<1>1. n \in Nat /\ le \in 1..n /\ Live(img) = 1..n /\ Len(img.bytes) \in Nat
  BY MachoTypes DEF Anchored, Live
<1>2. edit.cmd = "segment" /\ edit.name = "__LINKEDIT" /\ edit \in Command
      /\ edit.fileoff + edit.filesize = Len(img.bytes)
  BY MachoTypes DEF Anchored, LinkeditLast
<1>3. Linkedit(img) = le
  <2>1. { i \in Live(img) : img.cmds[i].name = "__LINKEDIT" } = {le}
    BY <1>1, <1>2 DEF Anchored, LinkeditLast
  <2> QED
    BY <1>1, <2>1, OneOf DEF Linkedit
<1>4. CASE CodeSig(img) = {}
  <2>1. Kept(img) = n /\ LinkeditEnd(img) = Len(img.bytes)
    BY <1>4 DEF Kept, LinkeditEnd
  <2>2. edit.fileoff <= Len(img.bytes)
    BY <1>1, <1>2, CommandFacts
  <2>3. \A i \in 1..n : img.cmds[i].cmd # "signature"
    BY <1>1, <1>4 DEF CodeSig
  <2> QED
    BY <1>1, <1>3, <1>4, <2>1, <2>2, <2>3
<1>5. CASE CodeSig(img) # {}
  <2>1. /\ CodeSig(img) = {n} /\ edit.fileoff <= LinkeditEnd(img)
        /\ LinkeditEnd(img) <= Len(img.bytes)
    BY <1>5 DEF Anchored, SignatureLast
  <2>2. n \in 1..n /\ img.cmds[n].cmd = "signature" /\ \A i \in 1..n : i # n => img.cmds[i].cmd # "signature"
    BY <1>1, <2>1 DEF CodeSig
  <2>3. SigAt(img) = n /\ Kept(img) = n - 1
    BY <1>1, <1>5, <2>1, OneOf DEF SigAt, Kept
  <2>4. LinkeditEnd(img) \in Nat
    BY <1>1, <1>5, <2>2, <2>3, MachoTypes, CommandFacts DEF LinkeditEnd
  <2>5. le # n
    BY <1>2, <2>2
  <2>6. le \in 1..n - 1 /\ n - 1 \in Nat /\ n - 1 <= n
    BY <1>1, <2>5
  <2>7. \A i \in 1..n - 1 : i \in 1..n /\ i # n
    BY <1>1
  <2>8. \A i \in 1..Kept(img) : i \in Live(img) /\ img.cmds[i].cmd # "signature"
    BY <1>1, <2>2, <2>3, <2>7
  <2>9. le \in Nat /\ le \in 1..n /\ le \in 1..Kept(img) /\ Kept(img) \in Nat /\ Kept(img) <= n
    BY <1>1, <2>3, <2>6
  <2> HIDE DEF n, edit
  <2> QED
    BY <1>3, <1>5, <2>1, <2>3, <2>4, <2>8, <2>9 DEF n, edit
<1> QED
  BY <1>4, <1>5

(* Shifting a command leaves it what it is; the tables and __LINKEDIT      *)
(* move.                                                                   *)
SameCommand(c, d) == d.cmd = c.cmd /\ d.name = c.name /\ d.size = c.size /\ d.sects = c.sects

MovedTable(c, d, delta) ==
    /\ d.vmaddr = c.vmaddr /\ d.vmsize = c.vmsize /\ d.filesize = c.filesize
    /\ d.fileoff = IF c.cmd = "table" /\ c.fileoff # 0 THEN c.fileoff + delta ELSE c.fileoff

MovedLinkedit(c, d, delta, end) ==
    /\ d.fileoff = c.fileoff + delta /\ d.vmaddr = c.vmaddr + delta
    /\ d.fileoff + d.filesize = end + delta /\ d.filesize <= d.vmsize

\* A shifted command keeps its kind, size and sections; its pointers move as a whole.
LEMMA ShiftedFacts ==
  ASSUME NEW img, MachoLinked(img), NEW le, Anchored(img, le), NEW delta \in Nat,
         NEW i \in Live(img)
  PROVE  /\ Shifted(img, i, delta) \in Command
         /\ SameCommand(img.cmds[i], Shifted(img, i, delta))
         /\ i # le => MovedTable(img.cmds[i], Shifted(img, i, delta), delta)
         /\ i = le => MovedLinkedit(img.cmds[i], Shifted(img, i, delta), delta, LinkeditEnd(img))
<1> DEFINE c == img.cmds[i]
           d == Shifted(img, i, delta)
           remaining == LinkeditEnd(img) - c.fileoff
<1>1. c \in Command
  BY MachoTypes
<1> HIDE DEF c
<1>2. /\ c.cmd \in Tag /\ c.name \in Tag /\ c.size \in Nat /\ c.vmaddr \in Nat
      /\ c.vmsize \in Nat /\ c.fileoff \in Nat /\ c.filesize \in Nat /\ c.sects \in Seq(Sect)
  BY <1>1, CommandFacts
<1>3. c.fileoff + delta \in Nat /\ c.vmaddr + delta \in Nat
  BY <1>2
<1>4. Linkedit(img) = le
  BY Anchors
<1>5. CASE i # le
  <2>1. CASE c.cmd = "table" /\ c.fileoff # 0
    <3>1. d = [c EXCEPT !.fileoff = c.fileoff + delta]
      BY <1>4, <1>5, <2>1 DEF Shifted, c
    <3> HIDE DEF d
    <3>2. /\ d \in Command /\ d.cmd = c.cmd /\ d.name = c.name /\ d.size = c.size
          /\ d.sects = c.sects /\ d.vmaddr = c.vmaddr /\ d.vmsize = c.vmsize
          /\ d.filesize = c.filesize /\ d.fileoff = c.fileoff + delta
      BY <1>1, <1>3, <3>1 DEF Command
    <3> QED
      BY <1>5, <2>1, <3>2 DEF SameCommand, MovedTable, c, d
  <2>2. CASE ~(c.cmd = "table" /\ c.fileoff # 0)
    <3>1. d = c
      BY <1>4, <1>5, <2>2 DEF Shifted, c
    <3> QED
      BY <1>1, <1>5, <2>2, <3>1 DEF SameCommand, MovedTable, c
  <2> QED
    BY <2>1, <2>2
<1>6. CASE i = le
  <2>1. /\ c.cmd = "segment" /\ c.fileoff + c.filesize = Len(img.bytes)
    BY <1>6 DEF Anchored, LinkeditLast, c
  <2>2. LinkeditEnd(img) \in Nat /\ c.fileoff <= LinkeditEnd(img)
    BY <1>6, Anchors DEF c
  <2>3. CASE CodeSig(img) = {}
    <3>1. d = [[c EXCEPT !.fileoff = c.fileoff + delta] EXCEPT !.vmaddr = c.vmaddr + delta]
      <4>1. i = Linkedit(img) /\ CodeSig(img) = {} /\ c.cmd # "table"
        BY <1>4, <1>6, <2>1, <2>3
      <4>2. d = [c EXCEPT !.fileoff = @ + delta, !.vmaddr = @ + delta]
        BY <4>1 DEF Shifted, c
      <4> QED
        BY <1>1, <4>2 DEF Command
    <3> HIDE DEF d
    <3>2. /\ d \in Command /\ d.cmd = c.cmd /\ d.name = c.name /\ d.size = c.size
          /\ d.sects = c.sects /\ d.vmaddr = c.vmaddr + delta /\ d.vmsize = c.vmsize
          /\ d.filesize = c.filesize /\ d.fileoff = c.fileoff + delta
      BY <1>1, <1>3, <3>1 DEF Command
    <3>3. LinkeditEnd(img) = Len(img.bytes)
      BY <2>3, Anchors
    <3>4. c.filesize <= c.vmsize
      <4>1. c \in SegmentsOf(img)
        BY <2>1 DEF SegmentsOf, c
      <4> QED
        BY <4>1 DEF MachoLinked, MachoSound
    <3>5. d.fileoff + d.filesize = LinkeditEnd(img) + delta
      <4>1. d.fileoff + d.filesize = (c.fileoff + delta) + c.filesize
        BY <3>2
      <4>2. c.fileoff + c.filesize = LinkeditEnd(img)
        BY <2>1, <3>3
      <4> HIDE DEF c
      <4> QED
        BY <1>2, <4>1, <4>2
    <3> QED
      BY <1>6, <3>2, <3>4, <3>5 DEF SameCommand, MovedLinkedit, c, d
  <2>4. CASE CodeSig(img) # {}
    <3>1. remaining \in Nat /\ RoundUp(remaining, PageSize) \in Nat
          /\ remaining <= RoundUp(remaining, PageSize)
      <4>1. remaining \in Nat
        BY <1>2, <2>2
      <4> HIDE DEF remaining
      <4> QED
        BY <4>1, Pages, RoundUpFacts
    <3> DEFINE up == RoundUp(remaining, PageSize)
    <3>2. d = [[[[c EXCEPT !.fileoff = c.fileoff + delta] EXCEPT !.vmaddr = c.vmaddr + delta]
                   EXCEPT !.filesize = remaining] EXCEPT !.vmsize = up]
      <4> HIDE DEF up
      <4>1. d = [c EXCEPT !.fileoff = @ + delta, !.vmaddr = @ + delta,
                          !.filesize = remaining, !.vmsize = up]
        <5>1. i = Linkedit(img) /\ CodeSig(img) # {} /\ c.cmd # "table"
          BY <1>4, <1>6, <2>1, <2>4
        <5> QED
          BY <5>1 DEF Shifted, c, up
      <4> QED
        BY <1>1, <4>1 DEF Command
    <3> HIDE DEF d, up, remaining
    <3>3. /\ d \in Command /\ d.cmd = c.cmd /\ d.name = c.name /\ d.size = c.size
          /\ d.sects = c.sects /\ d.vmaddr = c.vmaddr + delta /\ d.vmsize = up
          /\ d.filesize = remaining /\ d.fileoff = c.fileoff + delta
      BY <1>1, <1>3, <3>1, <3>2 DEF Command, up
    <3>4. d.fileoff + d.filesize = LinkeditEnd(img) + delta
      BY <1>2, <2>2, <3>3 DEF remaining
    <3>5. d.filesize <= d.vmsize
      BY <3>1, <3>3 DEF up
    <3> QED
      BY <1>6, <3>3, <3>4, <3>5 DEF SameCommand, MovedLinkedit, c, d
  <2> QED
    BY <2>3, <2>4
<1> QED
  BY <1>5, <1>6

\* The new segment starts where __LINKEDIT did, in the file and in memory.
LEMMA SmolFacts ==
  ASSUME NEW img, MachoLinked(img), NEW le, Anchored(img, le),
         NEW blob \in Seq(Byte), NEW kind \in Kinds
  PROVE  LET d == SmolSegment(img, blob, kind)
             edit == img.cmds[le]
         IN  /\ d \in Command /\ d.cmd = "segment" /\ d.name = "SMOL" /\ d.size = NewLcSize
             /\ d.vmaddr = edit.vmaddr /\ d.vmsize = RoundUp(Len(blob), PageSize)
             /\ d.fileoff = edit.fileoff /\ d.filesize = Len(blob)
             /\ d.sects = <<Section(kind, edit.fileoff, Len(blob))>>
<1> DEFINE edit == img.cmds[le]
           size == RoundUp(Len(blob), PageSize)
           sect == Section(kind, edit.fileoff, Len(blob))
           d == SmolSegment(img, blob, kind)
<1>1. edit \in Command
  BY MachoTypes DEF Anchored
<1> HIDE DEF edit
<1>2. edit.vmaddr \in Nat /\ edit.fileoff \in Nat
  BY <1>1, CommandFacts
<1>3. Len(blob) \in Nat /\ size \in Nat
  <2>1. Len(blob) \in Nat
    OBVIOUS
  <2> QED
    BY <2>1, Pages, RoundUpFacts
<1>4. sect \in Sect
  <2>1. kind \in Tag
    BY TagFacts
  <2> QED
    BY <1>2, <1>3, <2>1 DEF Section, Sect
<1>5. Linkedit(img) = le
  BY Anchors
<1> HIDE DEF size, sect
<1>6. <<sect>> \in Seq(Sect) /\ Len(<<sect>>) = 1
  BY <1>4
<1>7. d = Segment("SMOL", edit.vmaddr, size, edit.fileoff, Len(blob), <<sect>>)
  BY <1>5 DEF SmolSegment, edit, size, sect
<1>8. "segment" \in Tag /\ "SMOL" \in Tag
  BY TagFacts
<1>9. d = [cmd |-> "segment", name |-> "SMOL", size |-> NewLcSize,
           vmaddr |-> edit.vmaddr, vmsize |-> size,
           fileoff |-> edit.fileoff, filesize |-> Len(blob), sects |-> <<sect>>]
  BY <1>6, <1>7 DEF Segment, NewLcSize
<1>10. NewLcSize \in Nat
  BY DEF NewLcSize
<1> HIDE DEF d
<1>11. d \in Command
  BY <1>2, <1>3, <1>6, <1>8, <1>9, <1>10 DEF Command
<1> QED
  BY <1>9, <1>11 DEF d, size, sect, edit

----------------------------------------------------------------------------
(* Mach-O: what an injection makes of an image, command by command and     *)
(* byte by byte.  `signed': the producer signed the result.                *)

Grown(img, le, new, blob, kind, signed) ==
    LET m == Kept(img)
        edit == img.cmds[le]
        moved == new.cmds[le + 1]
        delta == RoundUp(Len(blob), PageSize)
        end == LinkeditEnd(img)
        more == IF signed THEN 1 ELSE 0
    IN  /\ new \in MachoImage
        /\ new.ncmds = m + 1 + more /\ new.ncmds <= Len(new.cmds)
        /\ \A i \in 1..le - 1 : new.cmds[i] = Shifted(img, i, delta)
        /\ new.cmds[le] = SmolSegment(img, blob, kind)
        /\ moved.cmd = "segment" /\ moved.name = "__LINKEDIT" /\ moved.sects = <<>>
        /\ moved.size = edit.size
        /\ moved.fileoff = edit.fileoff + delta /\ moved.vmaddr = edit.vmaddr + delta
        /\ moved.fileoff + moved.filesize = Len(new.bytes) /\ moved.filesize <= moved.vmsize
        /\ \A i \in le + 1..m : new.cmds[i + 1] = Shifted(img, i, delta)
        /\ signed => new.cmds[m + 2] = Pointing("signature", "", end + delta, 1)
        /\ Len(new.bytes) = end + delta + more
        /\ \A i \in 1..edit.fileoff : new.bytes[i] = img.bytes[i]
        /\ \A i \in 1..Len(blob) : new.bytes[edit.fileoff + i] = blob[i]
        /\ \A i \in Len(blob) + 1..delta : new.bytes[edit.fileoff + i] = Zero
        /\ \A i \in edit.fileoff + 1..end : new.bytes[i + delta] = img.bytes[i]
        /\ signed => new.bytes[end + delta + 1] = Atom("sig", SmolCount(new), 1, 1)

\* What the splice makes of an image, with the signature zeroed and out of the count.
LEMMA SpliceGrows ==
  ASSUME NEW img, MachoLinked(img), NEW le, Anchored(img, le),
         NEW blob \in Seq(Byte), NEW kind \in Kinds
  PROVE  Grown(img, le, SpliceMacho(img, blob, kind), blob, kind, FALSE)
<1> DEFINE n == img.ncmds
           m == Kept(img)
           edit == img.cmds[le]
           start == edit.fileoff
           end == LinkeditEnd(img)
           delta == RoundUp(Len(blob), PageSize)
           moved == [i \in Live(img) |-> Shifted(img, i, delta)]
           smol == SmolSegment(img, blob, kind)
           cmds == InsertAt(moved, le, smol)
           bytes == SubSeq(img.bytes, 1, start) \o PadTo(blob, PageSize)
                      \o SubSeq(img.bytes, start + 1, end)
           mid == [[[img EXCEPT !.ncmds = n + 1] EXCEPT !.cmds = cmds] EXCEPT !.bytes = bytes]
           new == SpliceMacho(img, blob, kind)
<1>1. /\ img \in MachoImage /\ n \in Nat /\ img.bytes \in Seq(Byte)
      /\ img.cmds \in Seq(Command) /\ \A i \in Live(img) : img.cmds[i] \in Command
  BY MachoTypes
<1>2. /\ le \in Nat /\ le \in 1..n /\ le \in 1..m /\ Linkedit(img) = le
      /\ m \in Nat /\ m <= n /\ Live(img) = 1..n
      /\ CodeSig(img) # {} => CodeSig(img) = {n} /\ m = n - 1
      /\ CodeSig(img) = {} => m = n
      /\ end \in Nat /\ start <= end /\ end <= Len(img.bytes)
  BY Anchors DEF Live, Kept
<1>3. start \in Nat /\ edit.cmd = "segment" /\ edit.name = "__LINKEDIT" /\ edit.sects = <<>>
  BY <1>1, <1>2, CommandFacts DEF Anchored, LinkeditLast
<1>4. Len(blob) \in Nat /\ delta \in Nat
  <2>1. Len(blob) \in Nat
    OBVIOUS
  <2> QED
    BY <2>1, Pages, RoundUpFacts
<1> HIDE DEF n, m, edit, start, end, delta, smol
<1>5. /\ bytes \in Seq(Byte) /\ Len(bytes) = end + delta
      /\ \A i \in 1..start : bytes[i] = img.bytes[i]
      /\ \A i \in 1..Len(blob) : bytes[start + i] = blob[i]
      /\ \A i \in Len(blob) + 1..delta : bytes[start + i] = Zero
      /\ \A i \in start + 1..end : bytes[i + delta] = img.bytes[i]
  <2>1. /\ img.bytes \in Seq(Byte) /\ start \in Nat /\ end \in Nat
        /\ start <= end /\ end <= Len(img.bytes)
    BY <1>1, <1>2, <1>3
  <2> QED
    <3>1. BytesSpliced(img.bytes, blob, start, end, delta, bytes)
      BY <2>1, SplicedBytes DEF delta
    <3> HIDE DEF bytes
    <3> QED
      BY <3>1 DEF BytesSpliced
<1> HIDE DEF bytes
<1>6. /\ \A i \in 1..n : /\ Shifted(img, i, delta) \in Command
                         /\ Shifted(img, i, delta).cmd = img.cmds[i].cmd
      /\ LET d == Shifted(img, le, delta)
         IN  /\ d.cmd = "segment" /\ d.name = "__LINKEDIT" /\ d.sects = <<>>
             /\ d.size = edit.size
             /\ d.fileoff = edit.fileoff + delta /\ d.vmaddr = edit.vmaddr + delta
             /\ d.fileoff + d.filesize = end + delta /\ d.filesize <= d.vmsize
  <2>1. ASSUME NEW i \in 1..n
        PROVE  /\ Shifted(img, i, delta) \in Command
               /\ Shifted(img, i, delta).cmd = img.cmds[i].cmd
    <3>1. i \in Live(img)
      BY <1>2
    <3>2. Shifted(img, i, delta) \in Command /\ SameCommand(img.cmds[i], Shifted(img, i, delta))
      BY <1>4, <3>1, ShiftedFacts
    <3> QED
      BY <3>2 DEF SameCommand
  <2>2. le \in Live(img)
    BY <1>2
  <2>3. LET d == Shifted(img, le, delta)
        IN  /\ d.cmd = edit.cmd /\ d.name = edit.name /\ d.sects = edit.sects
            /\ d.size = edit.size
            /\ d.fileoff = edit.fileoff + delta /\ d.vmaddr = edit.vmaddr + delta
            /\ d.fileoff + d.filesize = end + delta /\ d.filesize <= d.vmsize
    <3>1. /\ SameCommand(img.cmds[le], Shifted(img, le, delta))
          /\ MovedLinkedit(img.cmds[le], Shifted(img, le, delta), delta, LinkeditEnd(img))
      BY <1>4, <2>2, ShiftedFacts
    <3> QED
      BY <3>1 DEF SameCommand, MovedLinkedit, edit, end
  <2> QED
    BY <1>3, <2>1, <2>3
<1>7. moved \in Seq(Command) /\ Len(moved) = n /\ \A i \in 1..n : moved[i] = Shifted(img, i, delta)
  <2>1. moved = [i \in 1..n |-> Shifted(img, i, delta)]
    BY <1>2
  <2> HIDE DEF moved
  <2> QED
    BY <1>1, <1>6, <2>1
<1>8. smol \in Command /\ smol.cmd = "segment"
  BY SmolFacts DEF smol
<1> HIDE DEF moved
<1>9. /\ cmds \in Seq(Command) /\ Len(cmds) = n + 1
      /\ \A j \in 1..le - 1 : cmds[j] = moved[j]
      /\ cmds[le] = smol
      /\ \A j \in le..n : cmds[j + 1] = moved[j]
  <2>1. le \in 1..Len(moved)
    BY <1>2, <1>7
  <2> QED
    <3>1. Inserted(Command, moved, le, smol, cmds)
      BY <1>7, <1>8, <2>1, InsertAtFacts
    <3> HIDE DEF cmds
    <3> QED
      BY <1>7, <3>1 DEF Inserted
<1> HIDE DEF cmds
<1>10. /\ mid \in MachoImage /\ mid.ncmds = n + 1 /\ mid.cmds = cmds /\ mid.bytes = bytes
  <2>1. n + 1 \in Nat
    BY <1>1
  <2> QED
    BY <1>1, <1>5, <1>9, <2>1 DEF MachoImage
<1>11. new = StripSignature(mid)
  <2>1. new = StripSignature([img EXCEPT !.ncmds = @ + 1, !.cmds = cmds, !.bytes = bytes])
    BY <1>2 DEF SpliceMacho, cmds, moved, smol, bytes, start, edit, end, delta
  <2>2. [img EXCEPT !.ncmds = @ + 1, !.cmds = cmds, !.bytes = bytes] = mid
    BY <1>1 DEF MachoImage, n
  <2> QED
    BY <2>1, <2>2
<1> HIDE DEF mid, new
<1>12. /\ \A i \in 1..le - 1 : i \in 1..n /\ i <= m /\ cmds[i] = Shifted(img, i, delta)
       /\ \A i \in le..n : i \in 1..n /\ cmds[i + 1] = Shifted(img, i, delta)
  <2>1. /\ \A i \in 1..le - 1 : i \in 1..n /\ i <= m
        /\ \A i \in le..n : i \in 1..n
    BY <1>1, <1>2
  <2> QED
    BY <1>7, <1>9, <2>1
<1>13. CodeSig(mid) = IF CodeSig(img) = {} THEN {} ELSE {n + 1}
  <2>1. CodeSig(mid) = { i \in 1..n + 1 : cmds[i].cmd = "signature" }
    BY <1>10 DEF CodeSig, Live
  <2>2. \A i \in 1..n : img.cmds[i].cmd = "signature" <=> CodeSig(img) # {} /\ i = n
    BY <1>2 DEF CodeSig
  <2>3. ASSUME NEW i \in 1..n + 1
        PROVE  cmds[i].cmd = "signature" <=> CodeSig(img) # {} /\ i = n + 1
    <3>1. CASE i \in 1..le - 1
      <4>1. i \in 1..n /\ i # n /\ i # n + 1
        BY <1>1, <1>2, <3>1
      <4> QED
        BY <1>6, <1>12, <2>2, <3>1, <4>1
    <3>2. CASE i = le
      <4>1. i # n + 1
        BY <1>1, <1>2, <3>2
      <4> QED
        BY <1>8, <1>9, <3>2, <4>1
    <3>3. CASE i \in le + 1..n + 1
      <4>1. i - 1 \in le..n /\ (i - 1) + 1 = i /\ (i - 1 = n <=> i = n + 1)
        BY <1>1, <1>2, <3>3
      <4>2. i - 1 \in 1..n /\ cmds[i] = Shifted(img, i - 1, delta)
        BY <1>12, <4>1
      <4> QED
        BY <1>6, <2>2, <4>1, <4>2
    <3>4. i \in 1..le - 1 \/ i = le \/ i \in le + 1..n + 1
      BY <1>1, <1>2
    <3> QED
      BY <3>1, <3>2, <3>3, <3>4
  <2>4. n + 1 \in 1..n + 1
    BY <1>1
  <2> QED
    BY <2>1, <2>3, <2>4
<1>14. /\ new \in MachoImage /\ new.bytes = bytes /\ new.ncmds = m + 1
       /\ Len(new.cmds) = n + 1 /\ \A i \in 1..m + 1 : new.cmds[i] = cmds[i]
  <2>1. CASE CodeSig(img) = {}
    <3>1. new = mid
      BY <1>11, <1>13, <2>1 DEF StripSignature
    <3> QED
      BY <1>2, <1>9, <1>10, <2>1, <3>1
  <2>2. CASE CodeSig(img) # {}
    <3>1. CodeSig(mid) = {n + 1} /\ n + 1 \in Nat /\ SigAt(mid) = n + 1
      BY <1>1, <1>13, <2>2, OneOf DEF SigAt
    <3> DEFINE last == [cmds EXCEPT ![n + 1] = ZeroedCommand]
    <3>2. ZeroedCommand \in Command
      <4>1. ZeroedCommand = [cmd |-> "zeroed", name |-> "", size |-> 0, vmaddr |-> 0, vmsize |-> 0,
                             fileoff |-> 0, filesize |-> 0, sects |-> <<>>]
        <5> DEFINE none == Pointing("zeroed", "", 0, 0)
        <5>1. ZeroedCommand = [none EXCEPT !.size = 0]
          BY DEF ZeroedCommand
        <5>2. none = [cmd |-> "zeroed", name |-> "", size |-> 1, vmaddr |-> 0, vmsize |-> 0,
                      fileoff |-> 0, filesize |-> 0, sects |-> <<>>]
          BY DEF Pointing
        <5> HIDE DEF none
        <5> QED
          BY <5>1, <5>2
      <4>2. "zeroed" \in Tag /\ "" \in Tag
        BY DEF Tag
      <4>3. <<>> \in Seq(Sect)
        OBVIOUS
      <4> QED
        BY <4>1, <4>2, <4>3 DEF Command
    <3>3. /\ last \in Seq(Command) /\ Len(last) = n + 1
          /\ \A j \in 1..n + 1 : last[j] = IF j = n + 1 THEN ZeroedCommand ELSE cmds[j]
      <4>1. n + 1 \in 1..Len(cmds)
        BY <1>1, <1>9
      <4> HIDE DEF last
      <4> QED
        BY <1>9, <3>2, <4>1, ExceptSeq DEF last
    <3>4. new = [[mid EXCEPT !.ncmds = n] EXCEPT !.cmds = last]
      <4>1. new = [mid EXCEPT !.ncmds = @ - 1, !.cmds[n + 1] = ZeroedCommand]
        BY <1>11, <3>1 DEF StripSignature
      <4>2. mid.ncmds - 1 = n /\ mid.cmds = cmds
        BY <1>1, <1>10
      <4> QED
        BY <1>10, <4>1, <4>2 DEF MachoImage
    <3> HIDE DEF last
    <3>5. new \in MachoImage /\ new.ncmds = n /\ new.cmds = last /\ new.bytes = bytes
      BY <1>1, <1>10, <3>3, <3>4 DEF MachoImage
    <3>6. \A i \in 1..m + 1 : i \in 1..n + 1 /\ i # n + 1
      BY <1>1, <1>2, <2>2
    <3>7. new.ncmds = m + 1
      BY <1>1, <1>2, <2>2, <3>5
    <3> QED
      BY <3>3, <3>5, <3>6, <3>7
  <2> QED
    BY <2>1, <2>2
<1>15. \A i \in 1..le - 1 : new.cmds[i] = Shifted(img, i, delta)
  <2>1. \A i \in 1..le - 1 : i \in 1..m + 1
    BY <1>2
  <2> QED
    BY <1>12, <1>14, <2>1
<1>16. \A i \in le..m : new.cmds[i + 1] = Shifted(img, i, delta)
  <2>1. \A i \in le..m : i + 1 \in 1..m + 1 /\ i \in le..n
    BY <1>1, <1>2
  <2> QED
    BY <1>12, <1>14, <2>1
<1>17. new.cmds[le] = smol
  <2>1. le \in 1..m + 1
    BY <1>2
  <2> QED
    BY <1>9, <1>14, <2>1
<1>18. new.cmds[le + 1] = Shifted(img, le, delta)
  <2>1. le \in le..m
    BY <1>2
  <2> QED
    BY <1>16, <2>1
<1>19. \A i \in le + 1..m : new.cmds[i + 1] = Shifted(img, i, delta)
  <2>1. \A i \in le + 1..m : i \in le..m
    BY <1>2
  <2> QED
    BY <1>16, <2>1
<1>20. /\ m + 1 + 0 = m + 1 /\ end + delta + 0 = end + delta /\ new.ncmds <= Len(new.cmds)
  BY <1>1, <1>2, <1>4, <1>14
<1>21. /\ new.cmds[le + 1].cmd = "segment" /\ new.cmds[le + 1].name = "__LINKEDIT"
       /\ new.cmds[le + 1].sects = <<>> /\ new.cmds[le + 1].size = edit.size
       /\ new.cmds[le + 1].fileoff = edit.fileoff + delta
       /\ new.cmds[le + 1].vmaddr = edit.vmaddr + delta
       /\ new.cmds[le + 1].fileoff + new.cmds[le + 1].filesize = Len(new.bytes)
       /\ new.cmds[le + 1].filesize <= new.cmds[le + 1].vmsize
  BY <1>5, <1>6, <1>14, <1>18
<1> QED
  BY <1>5, <1>14, <1>15, <1>17, <1>19, <1>20, <1>21, Zenon
     DEF Grown, m, edit, start, end, delta, smol, new

----------------------------------------------------------------------------
(* Mach-O: the signer, and which command of a grown image is which.        *)

(* Where a kept command stands after the new one came before __LINKEDIT.   *)
Place(le, j) == IF j < le THEN j ELSE j + 1

From(img, new, le, delta, j, i) ==
    /\ i = Place(le, j) /\ new.cmds[i] \in Command
    /\ SameCommand(img.cmds[j], new.cmds[i]) /\ MovedTable(img.cmds[j], new.cmds[i], delta)

\* The commands of the grown image: the new segment, __LINKEDIT, the signature, the others.
LEMMA GrownCases ==
  ASSUME NEW img, MachoLinked(img), NEW le, Anchored(img, le),
         NEW blob \in Seq(Byte), NEW kind \in Kinds, NEW new, NEW signed \in BOOLEAN,
         Grown(img, le, new, blob, kind, signed)
  PROVE  LET m == Kept(img)
             delta == RoundUp(Len(blob), PageSize)
         IN  /\ le \in Live(new) /\ le + 1 \in Live(new)
             /\ signed => m + 2 \in Live(new)
             /\ \A i \in Live(new) : new.cmds[i] \in Command
             /\ \A i \in Live(new) :
                  i = le \/ i = le + 1 \/ (signed /\ i = m + 2)
                    \/ \E j \in 1..m : j # le /\ From(img, new, le, delta, j, i)
             /\ \A j \in 1..m :
                  j # le => Place(le, j) \in Live(new) /\ From(img, new, le, delta, j, Place(le, j))
<1> DEFINE m == Kept(img)
           delta == RoundUp(Len(blob), PageSize)
           n == new.ncmds
<1>1. /\ le \in Nat /\ m \in Nat /\ le \in 1..m /\ \A j \in 1..m : j \in Live(img)
  BY Anchors
<1>2. delta \in Nat
  <2>1. Len(blob) \in Nat
    OBVIOUS
  <2> QED
    BY <2>1, Pages, RoundUpFacts
<1>3. /\ new \in MachoImage /\ n = m + 1 + (IF signed THEN 1 ELSE 0) /\ n <= Len(new.cmds)
      /\ \A i \in 1..le - 1 : new.cmds[i] = Shifted(img, i, delta)
      /\ \A i \in le + 1..m : new.cmds[i + 1] = Shifted(img, i, delta)
  BY DEF Grown
<1>4. Live(new) = 1..n
  BY DEF Live
<1> HIDE DEF m, delta, n
<1>5. \A i \in Live(new) : new.cmds[i] \in Command
  <2>1. new.cmds \in Seq(Command) /\ Len(new.cmds) \in Nat
    BY <1>3 DEF MachoImage
  <2>2. n \in Nat
    BY <1>1, <1>3
  <2>3. \A i \in 1..n : i \in 1..Len(new.cmds)
    BY <1>3, <2>1, <2>2
  <2> QED
    BY <1>4, <2>1, <2>3
<1>6. /\ le \in Live(new) /\ le + 1 \in Live(new)
      /\ signed => m + 2 \in Live(new)
  BY <1>1, <1>3, <1>4
<1>7. ASSUME NEW j \in 1..m, j # le
      PROVE  Place(le, j) \in Live(new) /\ From(img, new, le, delta, j, Place(le, j))
  <2>1. Place(le, j) \in Live(new) /\ new.cmds[Place(le, j)] = Shifted(img, j, delta)
    <3>1. CASE j < le
      <4>1. j \in 1..le - 1 /\ j \in 1..n
        BY <1>1, <1>3, <3>1
      <4> QED
        BY <1>3, <1>4, <3>1, <4>1 DEF Place
    <3>2. CASE ~(j < le)
      <4>1. j \in le + 1..m /\ j + 1 \in 1..n
        BY <1>1, <1>3, <1>7, <3>2
      <4> QED
        BY <1>3, <1>4, <3>2, <4>1 DEF Place
    <3> QED
      BY <3>1, <3>2
  <2>2. j \in Live(img)
    BY <1>1
  <2>3. /\ Shifted(img, j, delta) \in Command /\ SameCommand(img.cmds[j], Shifted(img, j, delta))
        /\ MovedTable(img.cmds[j], Shifted(img, j, delta), delta)
    BY <1>2, <1>7, <2>2, ShiftedFacts
  <2> QED
    BY <2>1, <2>3 DEF From
<1>8. ASSUME NEW i \in Live(new)
      PROVE  i = le \/ i = le + 1 \/ (signed /\ i = m + 2)
               \/ \E j \in 1..m : j # le /\ From(img, new, le, delta, j, i)
  <2>1. CASE i \in 1..le - 1
    <3>1. i \in 1..m /\ i # le /\ Place(le, i) = i
      BY <1>1, <2>1 DEF Place
    <3> QED
      BY <1>7, <3>1
  <2>2. CASE i \in le + 2..m + 1
    <3>1. i - 1 \in 1..m /\ i - 1 # le /\ Place(le, i - 1) = i
      BY <1>1, <2>2 DEF Place
    <3> QED
      BY <1>7, <3>1
  <2>3. i \in 1..le - 1 \/ i = le \/ i = le + 1 \/ i \in le + 2..m + 1 \/ (signed /\ i = m + 2)
    <3>1. i \in 1..n
      BY <1>4
    <3>2. CASE signed
      BY <1>1, <1>3, <3>1, <3>2
    <3>3. CASE ~signed
      BY <1>1, <1>3, <3>1, <3>3
    <3> QED
      BY <3>2, <3>3
  <2> QED
    BY <2>1, <2>2, <2>3
<1> QED
  BY <1>5, <1>6, <1>7, <1>8 DEF m, delta

LEMMA SmolCountFacts ==
  ASSUME NEW img, img.ncmds \in Nat
  PROVE  SmolCount(img) \in Nat
<1> DEFINE smol == { i \in Live(img) : img.cmds[i].name = "SMOL" }
<1>1. smol \subseteq 1..img.ncmds
  BY DEF Live
<1>2. IsFiniteSet(1..img.ncmds)
  BY FS_Interval
<1>3. IsFiniteSet(smol)
  BY <1>1, <1>2, FS_Subset
<1> QED
  BY <1>3, FS_CardinalityType DEF SmolCount

LEMMA PointingFacts ==
  ASSUME NEW at \in Nat
  PROVE  LET c == Pointing("signature", "", at, 1)
         IN  /\ c \in Command /\ c.cmd = "signature" /\ c.name = "" /\ c.size = SigLcSize
             /\ c.sects = <<>> /\ c.fileoff = at
<1> DEFINE c == Pointing("signature", "", at, 1)
<1>1. c = [cmd |-> "signature", name |-> "", size |-> 1, vmaddr |-> 0, vmsize |-> 0,
           fileoff |-> at, filesize |-> 1, sects |-> <<>>]
  BY DEF Pointing
<1>2. "signature" \in Tag /\ "" \in Tag
  BY TagFacts
<1>3. <<>> \in Seq(Sect)
  OBVIOUS
<1> HIDE DEF c
<1>4. c \in Command
  BY <1>1, <1>2, <1>3 DEF Command
<1>5. /\ c.cmd = "signature" /\ c.name = "" /\ c.size = 1 /\ c.sects = <<>>
      /\ c.fileoff = at
  BY <1>1
<1> QED
  BY <1>4, <1>5 DEF c, SigLcSize

\* No command but the moved one is named __LINKEDIT.
LEMMA GrownLinkedit ==
  ASSUME NEW img, MachoLinked(img), NEW le, Anchored(img, le),
         NEW blob \in Seq(Byte), NEW kind \in Kinds, NEW new, NEW signed \in BOOLEAN,
         Grown(img, le, new, blob, kind, signed)
  PROVE  /\ \A i \in Live(new) \ {le + 1} : new.cmds[i].name # "__LINKEDIT"
         /\ new.cmds[le + 1].name = "__LINKEDIT" /\ Linkedit(new) = le + 1
<1> DEFINE m == Kept(img)
           delta == RoundUp(Len(blob), PageSize)
<1>1. /\ le \in Live(new) /\ le + 1 \in Live(new)
      /\ \A i \in Live(new) : i = le \/ i = le + 1 \/ (signed /\ i = m + 2)
           \/ \E j \in 1..m : j # le /\ From(img, new, le, delta, j, i)
  BY GrownCases
<1>2. /\ new.cmds[le] = SmolSegment(img, blob, kind)
      /\ new.cmds[le + 1].name = "__LINKEDIT"
      /\ signed => new.cmds[m + 2] = Pointing("signature", "", LinkeditEnd(img) + delta, 1)
  BY DEF Grown
<1> HIDE DEF m, delta
<1>3. new.cmds[le].name # "__LINKEDIT"
  <2>1. new.cmds[le].name = "SMOL"
    BY <1>2, SmolFacts, ZenonT(30)
  <2> QED
    BY <2>1
<1>4. signed => new.cmds[m + 2].name # "__LINKEDIT"
  <2>1. \A at : Pointing("signature", "", at, 1).name = ""
    BY DEF Pointing
  <2> QED
    BY <1>2, <2>1
<1>5. ASSUME NEW j \in 1..m, j # le, NEW i, From(img, new, le, delta, j, i)
      PROVE  new.cmds[i].name # "__LINKEDIT"
  <2>1. j \in Live(img)
    BY Anchors DEF m
  <2>2. img.cmds[j].name # "__LINKEDIT"
    BY <1>5, <2>1 DEF Anchored, LinkeditLast
  <2> QED
    BY <1>5, <2>2 DEF From, SameCommand
<1>6. \A i \in Live(new) \ {le + 1} : new.cmds[i].name # "__LINKEDIT"
  BY <1>1, <1>3, <1>4, <1>5
<1>7. Linkedit(new) = le + 1
  <2>1. { i \in Live(new) : new.cmds[i].name = "__LINKEDIT" } = {le + 1}
    <3>1. le + 1 \in Live(new)
      BY <1>1
    <3> QED
      BY <1>2, <1>6, <3>1
  <2>2. le + 1 \in Nat
    BY Anchors
  <2> QED
    BY <2>1, <2>2, OneOf DEF Linkedit
<1> QED
  BY <1>2, <1>6, <1>7

\* What the signer makes of the spliced image.
LEMMA ResignGrows ==
  ASSUME NEW img, MachoLinked(img), NEW le, Anchored(img, le),
         NEW blob \in Seq(Byte), NEW kind \in Kinds, NEW mid,
         Grown(img, le, mid, blob, kind, FALSE)
  PROVE  Grown(img, le, Resign(mid), blob, kind, TRUE)
<1> DEFINE m == Kept(img)
           edit == img.cmds[le]
           delta == RoundUp(Len(blob), PageSize)
           end == LinkeditEnd(img)
           at == Len(mid.bytes)
           old == mid.cmds[le + 1]
           atom == Atom("sig", SmolCount(mid), 1, 1)
           size == (at + 1) - old.fileoff
           up == RoundUp(size, PageSize)
           extended == [[old EXCEPT !.filesize = size] EXCEPT !.vmsize = up]
           replaced == [mid.cmds EXCEPT ![le + 1] = extended]
           kept == SubSeq(replaced, 1, mid.ncmds)
           sig == Pointing("signature", "", at, 1)
           cmds == Append(kept, sig)
           bytes == mid.bytes \o <<atom>>
           new == Resign(mid)
<1>1. /\ le \in Nat /\ m \in Nat /\ le \in 1..m /\ end \in Nat
  BY Anchors
<1>2. Len(blob) \in Nat /\ delta \in Nat /\ Len(blob) <= delta
  <2>1. Len(blob) \in Nat
    OBVIOUS
  <2> QED
    BY <2>1, Pages, RoundUpFacts
<1>3. /\ mid \in MachoImage /\ mid.ncmds = m + 1 + 0 /\ mid.ncmds <= Len(mid.cmds)
      /\ \A i \in 1..le - 1 : mid.cmds[i] = Shifted(img, i, delta)
      /\ mid.cmds[le] = SmolSegment(img, blob, kind)
      /\ old.cmd = "segment" /\ old.name = "__LINKEDIT" /\ old.sects = <<>>
      /\ old.size = edit.size
      /\ old.fileoff = edit.fileoff + delta /\ old.vmaddr = edit.vmaddr + delta
      /\ old.fileoff + old.filesize = Len(mid.bytes)
      /\ \A i \in le + 1..m : mid.cmds[i + 1] = Shifted(img, i, delta)
      /\ Len(mid.bytes) = end + delta + 0
  BY DEF Grown
<1>4. /\ \A i \in 1..edit.fileoff : mid.bytes[i] = img.bytes[i]
      /\ \A i \in 1..Len(blob) : mid.bytes[edit.fileoff + i] = blob[i]
      /\ \A i \in Len(blob) + 1..delta : mid.bytes[edit.fileoff + i] = Zero
      /\ \A i \in edit.fileoff + 1..end : mid.bytes[i + delta] = img.bytes[i]
  BY DEF Grown
<1>5. Linkedit(mid) = le + 1 /\ le + 1 \in Live(mid) /\ old \in Command
  <2>1. FALSE \in BOOLEAN
    OBVIOUS
  <2>2. Linkedit(mid) = le + 1
    BY <2>1, GrownLinkedit, ZenonT(30)
  <2>3. le + 1 \in Live(mid) /\ \A i \in Live(mid) : mid.cmds[i] \in Command
    BY <2>1, GrownCases
  <2> QED
    BY <2>2, <2>3
<1>6. edit.fileoff \in Nat /\ edit.fileoff <= end
  <2>1. edit \in Command
    BY MachoTypes DEF Anchored
  <2> QED
    BY <2>1, CommandFacts, Anchors
<1>7. /\ mid.ncmds = m + 1 /\ mid.ncmds \in Nat /\ at \in Nat /\ at = end + delta
      /\ mid.bytes \in Seq(Byte) /\ mid.cmds \in Seq(Command) /\ Len(mid.cmds) \in Nat
      /\ Live(mid) = 1..m + 1
  <2>1. mid.bytes \in Seq(Byte) /\ mid.cmds \in Seq(Command)
    BY <1>3 DEF MachoImage
  <2> QED
    BY <1>1, <1>2, <1>3, <2>1, SMTT(30) DEF Live
<1> HIDE DEF m, edit, delta, end, at, old
<1>8. /\ size \in Nat /\ up \in Nat /\ size <= up
  <2>1. size \in Nat
    BY <1>1, <1>2, <1>3, <1>6, <1>7
  <2> HIDE DEF size
  <2> QED
    BY <2>1, Pages, RoundUpFacts
<1> HIDE DEF size, up
<1>9. /\ extended \in Command /\ extended.cmd = "segment" /\ extended.name = "__LINKEDIT"
      /\ extended.sects = <<>> /\ extended.size = edit.size
      /\ extended.fileoff = edit.fileoff + delta /\ extended.vmaddr = edit.vmaddr + delta
      /\ extended.filesize = size /\ extended.vmsize = up
  BY <1>3, <1>5, <1>8 DEF Command
<1> HIDE DEF extended
<1>10. /\ replaced \in Seq(Command) /\ Len(replaced) = Len(mid.cmds)
       /\ \A j \in 1..Len(mid.cmds) : replaced[j] = IF j = le + 1 THEN extended ELSE mid.cmds[j]
  <2>1. le + 1 \in 1..Len(mid.cmds)
    BY <1>1, <1>3, <1>7
  <2> HIDE DEF replaced
  <2> QED
    BY <1>7, <1>9, <2>1, ExceptSeq DEF replaced
<1> HIDE DEF replaced
<1>11. /\ kept \in Seq(Command) /\ Len(kept) = m + 1
       /\ \A j \in 1..m + 1 : kept[j] = IF j = le + 1 THEN extended ELSE mid.cmds[j]
  <2>1. \A j \in 1..m + 1 : j \in 1..Len(mid.cmds)
    BY <1>1, <1>3, <1>7
  <2>2. \A j \in 1..m + 1 : replaced[j] \in Command
    BY <1>10, <2>1
  <2>3. kept = SubSeq(replaced, 1, m + 1)
    BY <1>7
  <2>4. /\ kept \in Seq(Command)
        /\ Len(kept) = IF 1 <= m + 1 THEN (m + 1) - 1 + 1 ELSE 0
        /\ \A j \in 1..(m + 1) - 1 + 1 : kept[j] = replaced[1 + j - 1]
    <3>1. 1 \in Int /\ m + 1 \in Int
      BY <1>1
    <3> HIDE DEF kept
    <3> QED
      BY <2>2, <2>3, <3>1, SubSeqProperties
  <2> HIDE DEF kept
  <2>5. Len(kept) = m + 1
    BY <1>1, <2>4
  <2>6. ASSUME NEW j \in 1..m + 1
        PROVE  kept[j] = IF j = le + 1 THEN extended ELSE mid.cmds[j]
    <3>1. j \in 1..(m + 1) - 1 + 1 /\ 1 + j - 1 = j
      BY <1>1
    <3>2. kept[j] = replaced[j]
      BY <2>4, <3>1
    <3> QED
      BY <1>10, <2>1, <3>2
  <2> QED
    BY <2>4, <2>5, <2>6
<1>12. sig \in Command
  BY <1>7, PointingFacts
<1> HIDE DEF kept, sig
<1>13. /\ cmds \in Seq(Command) /\ Len(cmds) = m + 2 /\ cmds[m + 2] = sig
       /\ \A j \in 1..m + 1 : cmds[j] = IF j = le + 1 THEN extended ELSE mid.cmds[j]
  <2>1. /\ Append(kept, sig) \in Seq(Command) /\ Len(Append(kept, sig)) = Len(kept) + 1
        /\ \A j \in 1..Len(kept) : Append(kept, sig)[j] = kept[j]
        /\ Append(kept, sig)[Len(kept) + 1] = sig
    BY <1>11, <1>12, AppendProperties
  <2>2. Len(kept) + 1 = m + 2
    BY <1>1, <1>11
  <2> QED
    BY <1>11, <2>1, <2>2
<1> HIDE DEF cmds
<1>14. <<atom>> \in Seq(Byte) /\ Len(<<atom>>) = 1 /\ <<atom>>[1] = atom
  <2>1. "sig" \in Tag
    BY TagFacts
  <2>2. SmolCount(mid) \in Addons \union Nat
    BY <1>7, SmolCountFacts
  <2>3. atom \in Byte
    BY <2>1, <2>2, AtomFacts
  <2> QED
    BY <2>3
<1> HIDE DEF atom
<1>15. /\ bytes \in Seq(Byte) /\ Len(bytes) = at + 1 /\ bytes[at + 1] = atom
       /\ \A j \in 1..at : bytes[j] = mid.bytes[j]
  <2> DEFINE one == <<atom>>
  <2>1. one \in Seq(Byte) /\ Len(one) = 1 /\ one[1] = atom
    BY <1>14
  <2> HIDE DEF one
  <2>2. /\ mid.bytes \o one \in Seq(Byte) /\ Len(mid.bytes \o one) = Len(mid.bytes) + Len(one)
        /\ \A j \in 1..Len(mid.bytes) + Len(one) :
             (mid.bytes \o one)[j] = IF j <= Len(mid.bytes) THEN mid.bytes[j]
                                     ELSE one[j - Len(mid.bytes)]
    BY <1>7, <2>1, ConcatProperties
  <2>3. Len(mid.bytes) = at /\ Len(mid.bytes) + Len(one) = at + 1
    BY <2>1 DEF at
  <2>4. \A j \in 1..at : (mid.bytes \o one)[j] = mid.bytes[j]
    BY <1>7, <2>2, <2>3
  <2>5. (mid.bytes \o one)[at + 1] = atom
    BY <1>7, <2>1, <2>2, <2>3
  <2> QED
    BY <2>2, <2>3, <2>4, <2>5 DEF one
<1>16. new = [[[mid EXCEPT !.cmds = cmds] EXCEPT !.ncmds = m + 2] EXCEPT !.bytes = bytes]
  <2>1. SignatureAtoms(mid) = <<atom>> /\ Len(SignatureAtoms(mid)) = 1
    BY <1>14 DEF SignatureAtoms, atom
  <2>2. [old EXCEPT !.filesize = size, !.vmsize = up] = extended
    BY <1>5 DEF extended, Command
  <2>3. new = [mid EXCEPT !.cmds = cmds, !.ncmds = @ + 1, !.bytes = bytes]
    <3>1. at + Len(SignatureAtoms(mid)) - old.fileoff = size
      <4>1. old.fileoff \in Nat
        BY <1>5, CommandFacts
      <4>2. \A x, y \in Nat : x + 1 - y = (x + 1) - y
        OBVIOUS
      <4>3. at + 1 - old.fileoff = (at + 1) - old.fileoff
        BY <1>7, <4>1, <4>2, Zenon
      <4> QED
        BY <2>1, <4>3 DEF size
    <3>2. new = [mid EXCEPT
            !.cmds = Append(SubSeq([mid.cmds EXCEPT ![le + 1] =
                       [old EXCEPT !.filesize = size, !.vmsize = RoundUp(size, PageSize)]],
                       1, mid.ncmds), Pointing("signature", "", at, 1)),
            !.ncmds = @ + 1, !.bytes = mid.bytes \o <<atom>>]
      BY <1>5, <2>1, <3>1 DEF Resign, at, old
    <3> QED
      BY <2>2, <3>2 DEF cmds, kept, replaced, sig, up, bytes
  <2>4. mid.ncmds + 1 = m + 2
    BY <1>1, <1>7
  <2> HIDE DEF new, bytes
  <2> QED
    BY <1>3, <2>3, <2>4 DEF MachoImage
<1> HIDE DEF new, bytes
<1>17. new \in MachoImage /\ new.cmds = cmds /\ new.ncmds = m + 2 /\ new.bytes = bytes
  <2>1. m + 2 \in Nat
    BY <1>1
  <2> QED
    BY <1>3, <1>13, <1>15, <1>16, <2>1 DEF MachoImage
<1>18. \A j \in 1..m + 1 : j # le + 1 => new.cmds[j] = mid.cmds[j]
  BY <1>13, <1>17
<1>19. new.cmds[le + 1] = extended
  <2>1. le + 1 \in 1..m + 1
    BY <1>1
  <2> QED
    BY <1>13, <1>17, <2>1
<1>20. /\ \A i \in 1..le - 1 : new.cmds[i] = Shifted(img, i, delta)
       /\ new.cmds[le] = SmolSegment(img, blob, kind)
       /\ \A i \in le + 1..m : new.cmds[i + 1] = Shifted(img, i, delta)
  <2>1. /\ \A i \in 1..le - 1 : i \in 1..m + 1 /\ i # le + 1
        /\ le \in 1..m + 1 /\ le # le + 1
        /\ \A i \in le + 1..m : i + 1 \in 1..m + 1 /\ i + 1 # le + 1
    BY <1>1
  <2> QED
    BY <1>3, <1>18, <2>1
<1>21. /\ extended.fileoff + extended.filesize = Len(new.bytes) /\ extended.filesize <= extended.vmsize
       /\ Len(new.bytes) = end + delta + 1
       /\ new.ncmds = m + 1 + 1 /\ new.ncmds <= Len(new.cmds)
  <2>1. Len(new.bytes) = at + 1 /\ Len(new.cmds) = m + 2
    BY <1>13, <1>15, <1>17
  <2>2. extended.fileoff + extended.filesize = at + 1
    BY <1>1, <1>2, <1>3, <1>6, <1>7, <1>9 DEF size
  <2> QED
    BY <1>1, <1>7, <1>8, <1>9, <1>17, <2>1, <2>2
<1>22. /\ \A i \in 1..edit.fileoff : new.bytes[i] = img.bytes[i]
       /\ \A i \in 1..Len(blob) : new.bytes[edit.fileoff + i] = blob[i]
       /\ \A i \in Len(blob) + 1..delta : new.bytes[edit.fileoff + i] = Zero
       /\ \A i \in edit.fileoff + 1..end : new.bytes[i + delta] = img.bytes[i]
  <2>1. /\ \A i \in 1..edit.fileoff : i \in 1..at
        /\ \A i \in 1..Len(blob) : edit.fileoff + i \in 1..at
        /\ \A i \in Len(blob) + 1..delta : edit.fileoff + i \in 1..at
        /\ \A i \in edit.fileoff + 1..end : i + delta \in 1..at
    <3>1. at \in Nat /\ at = end + delta
      BY <1>7
    <3> QED
      BY <1>1, <1>2, <1>6, <3>1, SMTT(30)
  <2> QED
    BY <1>4, <1>15, <1>17, <2>1
<1>23. new.bytes[end + delta + 1] = Atom("sig", SmolCount(new), 1, 1)
  <2>1. SmolCount(new) = SmolCount(mid)
    <3>1. Live(new) = 1..m + 2
      BY <1>17 DEF Live
    <3>2. \A j \in 1..m + 1 : new.cmds[j].name = mid.cmds[j].name
      BY <1>3, <1>9, <1>18, <1>19 DEF old
    <3>3. new.cmds[m + 2].name # "SMOL"
      <4>1. sig.name = ""
        BY DEF sig, Pointing
      <4> QED
        BY <1>13, <1>17, <4>1
    <3>4. { i \in Live(new) : new.cmds[i].name = "SMOL" } = { i \in Live(mid) : mid.cmds[i].name = "SMOL" }
      <4>1. \A i \in 1..m + 2 : i \in 1..m + 1 \/ i = m + 2
        BY <1>1
      <4>2. \A i \in 1..m + 1 : i \in 1..m + 2
        BY <1>1
      <4> QED
        BY <1>7, <3>1, <3>2, <3>3, <4>1, <4>2
    <3> QED
      BY <3>4 DEF SmolCount
  <2> QED
    BY <1>7, <1>15, <1>17, <2>1 DEF atom
<1>24. new.cmds[m + 2] = Pointing("signature", "", end + delta, 1)
  BY <1>7, <1>13, <1>17 DEF sig
<1> QED
  BY <1>9, <1>17, <1>19, <1>20, <1>21, <1>22, <1>23, <1>24, Zenon
     DEF Grown, m, edit, delta, end, new

----------------------------------------------------------------------------
(* Mach-O: the sections, the length of the commands and the signature of   *)
(* a grown image.                                                          *)

LEMMA SectionTypes ==
  ASSUME NEW img \in MachoImage, img.ncmds <= Len(img.cmds)
  PROVE  \A s \in AllSections(img) : s \in Sect /\ s.off \in Nat /\ s.size \in Nat
<1>1. ASSUME NEW i \in Live(img), NEW s \in Range(img.cmds[i].sects)
      PROVE  s \in Sect
  <2>1. img.cmds \in Seq(Command) /\ i \in 1..Len(img.cmds)
    BY DEF MachoImage, Live
  <2>2. img.cmds[i].sects \in Seq(Sect)
    BY <2>1, CommandFacts
  <2> QED
    BY <2>2 DEF Range
<1>2. \A s \in Sect : s.off \in Nat /\ s.size \in Nat
  BY DEF Sect
<1> QED
  BY <1>1, <1>2 DEF AllSections

(* The parts of a grown image, one by one.                                 *)
SmolOf(img, le, new, blob, kind) ==
    LET d == new.cmds[le]
        edit == img.cmds[le]
    IN  /\ d.cmd = "segment" /\ d.name = "SMOL" /\ d.size = NewLcSize
        /\ d.vmaddr = edit.vmaddr /\ d.vmsize = RoundUp(Len(blob), PageSize)
        /\ d.fileoff = edit.fileoff /\ d.filesize = Len(blob)
        /\ d.sects = <<Section(kind, edit.fileoff, Len(blob))>>

SignatureOf(img, new, blob) ==
    LET at == Kept(img) + 2
    IN  /\ new.ncmds = at
        /\ new.cmds[at].cmd = "signature" /\ new.cmds[at].name = ""
        /\ new.cmds[at].size = SigLcSize /\ new.cmds[at].sects = <<>>
        /\ new.cmds[at].fileoff = LinkeditEnd(img) + RoundUp(Len(blob), PageSize)
        /\ Len(new.bytes) = LinkeditEnd(img) + RoundUp(Len(blob), PageSize) + 1

NoSignatureOf(img, new, blob) ==
    /\ new.ncmds = Kept(img) + 1
    /\ Len(new.bytes) = LinkeditEnd(img) + RoundUp(Len(blob), PageSize)

\* The new segment and the signature of a grown image, field by field.
LEMMA GrownParts ==
  ASSUME NEW img, MachoLinked(img), NEW le, Anchored(img, le),
         NEW blob \in Seq(Byte), NEW kind \in Kinds, NEW new, NEW signed \in BOOLEAN,
         Grown(img, le, new, blob, kind, signed)
  PROVE  /\ SmolOf(img, le, new, blob, kind)
         /\ signed => SignatureOf(img, new, blob)
         /\ ~signed => NoSignatureOf(img, new, blob)
<1> DEFINE d == SmolSegment(img, blob, kind)
           edit == img.cmds[le]
           delta == RoundUp(Len(blob), PageSize)
           end == LinkeditEnd(img)
           m == Kept(img)
<1>1. /\ d.cmd = "segment" /\ d.name = "SMOL" /\ d.size = NewLcSize
      /\ d.vmaddr = edit.vmaddr /\ d.vmsize = delta
      /\ d.fileoff = edit.fileoff /\ d.filesize = Len(blob)
      /\ d.sects = <<Section(kind, edit.fileoff, Len(blob))>>
  BY SmolFacts
<1>2. new.cmds[le] = d
  BY DEF Grown
<1> HIDE DEF d
<1>3. SmolOf(img, le, new, blob, kind)
  BY <1>1, <1>2 DEF SmolOf
<1>4. end \in Nat /\ m \in Nat /\ delta \in Nat
  <2>1. Len(blob) \in Nat
    OBVIOUS
  <2> QED
    BY <2>1, Pages, RoundUpFacts, Anchors
<1>5. /\ new.ncmds = m + 1 + (IF signed THEN 1 ELSE 0)
      /\ signed => new.cmds[m + 2] = Pointing("signature", "", end + delta, 1)
      /\ Len(new.bytes) = end + delta + (IF signed THEN 1 ELSE 0)
  BY DEF Grown
<1> HIDE DEF end, delta, m
<1>6. ASSUME signed PROVE SignatureOf(img, new, blob)
  <2> DEFINE c == Pointing("signature", "", end + delta, 1)
  <2>1. end + delta \in Nat
    BY <1>4
  <2>2. /\ c.cmd = "signature" /\ c.name = "" /\ c.size = SigLcSize
        /\ c.sects = <<>> /\ c.fileoff = end + delta
    BY <2>1, PointingFacts
  <2>3. new.cmds[m + 2] = c
    BY <1>5, <1>6
  <2> HIDE DEF c
  <2>4. new.ncmds = m + 2 /\ Len(new.bytes) = end + delta + 1
    <3>1. m + 1 + 1 = m + 2
      BY <1>4
    <3> QED
      BY <1>5, <1>6, <3>1
  <2> QED
    BY <2>2, <2>3, <2>4 DEF SignatureOf, end, delta, m
<1>7. ASSUME ~signed PROVE NoSignatureOf(img, new, blob)
  <2>1. new.ncmds = m + 1 /\ Len(new.bytes) = end + delta
    <3>1. m + 1 + 0 = m + 1 /\ end + delta + 0 = end + delta
      BY <1>4
    <3> QED
      BY <1>5, <1>7, <3>1
  <2> QED
    BY <2>1 DEF NoSignatureOf, end, delta, m
<1> QED
  BY <1>3, <1>6, <1>7

\* The grown image has one section more.
LEMMA GrownSections ==
  ASSUME NEW img, MachoLinked(img), NEW le, Anchored(img, le),
         NEW blob \in Seq(Byte), NEW kind \in Kinds, NEW new, NEW signed \in BOOLEAN,
         Grown(img, le, new, blob, kind, signed)
  PROVE  AllSections(new)
           = AllSections(img) \union {Section(kind, img.cmds[le].fileoff, Len(blob))}
<1> DEFINE m == Kept(img)
           delta == RoundUp(Len(blob), PageSize)
           sect == Section(kind, img.cmds[le].fileoff, Len(blob))
<1>1. /\ le \in Live(new) /\ le + 1 \in Live(new)
      /\ \A i \in Live(new) : i = le \/ i = le + 1 \/ (signed /\ i = m + 2)
           \/ \E j \in 1..m : j # le /\ From(img, new, le, delta, j, i)
      /\ \A j \in 1..m :
           j # le => Place(le, j) \in Live(new) /\ From(img, new, le, delta, j, Place(le, j))
  BY GrownCases
<1>2. /\ le \in 1..m /\ m \in Nat /\ m <= img.ncmds
      /\ CodeSig(img) # {} => CodeSig(img) = {img.ncmds} /\ m = img.ncmds - 1
      /\ \A j \in 1..m : j \in Live(img)
  BY Anchors
<1>3. Range(new.cmds[le].sects) = {sect}
  <2>1. new.cmds[le].sects = <<sect>>
    BY GrownParts DEF SmolOf
  <2> HIDE DEF sect
  <2> QED
    BY <2>1 DEF Range
<1>4. new.cmds[le + 1].sects = <<>>
  BY DEF Grown
<1>5. signed => new.cmds[m + 2].sects = <<>>
  <2>1. signed => new.cmds[m + 2] = Pointing("signature", "", LinkeditEnd(img) + delta, 1)
    BY DEF Grown
  <2>2. \A at : Pointing("signature", "", at, 1).sects = <<>>
    BY DEF Pointing
  <2> QED
    BY <2>1, <2>2
<1>6. Range(<<>>) = {}
  BY DEF Range
<1>7. \A j \in Live(img) : j \in 1..m \/ img.cmds[j].sects = <<>>
  <2>1. ASSUME NEW j \in Live(img), j \notin 1..m PROVE img.cmds[j].sects = <<>>
    <3>1. j \in 1..img.ncmds /\ img.ncmds \in Nat
      BY MachoTypes DEF Live
    <3>2. CodeSig(img) # {}
      BY <2>1, <3>1 DEF Kept, m
    <3>3. j = img.ncmds
      BY <1>2, <2>1, <3>1, <3>2
    <3>4. img.cmds[j].cmd = "signature"
      BY <1>2, <3>2, <3>3 DEF CodeSig
    <3>5. img.cmds[j].cmd # "segment"
      BY <3>4
    <3> QED
      BY <3>5 DEF MachoLinked
  <2> QED
    BY <2>1
<1>8. img.cmds[le].sects = <<>>
  BY DEF Anchored, LinkeditLast
<1> HIDE DEF m, delta, sect
<1>9. ASSUME NEW s \in AllSections(new) PROVE s \in AllSections(img) \union {sect}
  <2>1. PICK i \in Live(new) : s \in Range(new.cmds[i].sects)
    BY DEF AllSections
  <2>2. i # le => \E j \in 1..m : j # le /\ From(img, new, le, delta, j, i)
    BY <1>1, <1>4, <1>5, <1>6, <2>1
  <2>3. CASE i # le
    <3>1. PICK j \in 1..m : From(img, new, le, delta, j, i)
      BY <2>2, <2>3
    <3>2. j \in Live(img) /\ s \in Range(img.cmds[j].sects)
      BY <1>2, <2>1, <3>1 DEF From, SameCommand
    <3> QED
      BY <3>2 DEF AllSections
  <2> QED
    BY <1>3, <2>1, <2>3
<1>10. ASSUME NEW s \in AllSections(img) PROVE s \in AllSections(new)
  <2>1. PICK j \in Live(img) : s \in Range(img.cmds[j].sects)
    BY DEF AllSections
  <2>2. j \in 1..m /\ j # le
    BY <1>6, <1>7, <1>8, <2>1
  <2>3. Place(le, j) \in Live(new) /\ s \in Range(new.cmds[Place(le, j)].sects)
    BY <1>1, <2>1, <2>2 DEF From, SameCommand
  <2> QED
    BY <2>3 DEF AllSections
<1>11. sect \in AllSections(new)
  BY <1>1, <1>3 DEF AllSections
<1> QED
  BY <1>9, <1>10, <1>11 DEF sect

\* The first section lies before __LINKEDIT.
LEMMA FirstSectionFacts ==
  ASSUME NEW img, MachoLinked(img), NEW le, Anchored(img, le)
  PROVE  /\ { s.off : s \in AllSections(img) } \ {0} \in SUBSET Nat
         /\ FirstSection(img) \in { s.off : s \in AllSections(img) } \ {0}
         /\ FirstSection(img) \in Nat \ {0}
         /\ \A y \in { s.off : s \in AllSections(img) } \ {0} : FirstSection(img) <= y
         /\ FirstSection(img) <= img.cmds[le].fileoff /\ img.cmds[le].fileoff \in Nat
<1> DEFINE T == { s.off : s \in AllSections(img) } \ {0}
<1>1. \A s \in AllSections(img) : s \in Sect /\ s.off \in Nat /\ s.size \in Nat
  BY MachoTypes, SectionTypes
<1>2. PICK s \in AllSections(img) : s.off # 0
  BY DEF MachoLinked
<1>3. T \in SUBSET Nat /\ T # {} /\ s.off \in T
  BY <1>1, <1>2
<1>4. Min(T) \in T /\ \A y \in T : Min(T) <= y
  BY <1>3, MinFacts
<1>5. img.cmds[le].fileoff \in Nat
  BY MachoTypes, CommandFacts DEF Anchored
<1>6. s.off + s.size <= img.cmds[le].fileoff
  BY <1>2 DEF Anchored, PartsInPlace
<1>7. s.off <= img.cmds[le].fileoff
  BY <1>1, <1>5, <1>6
<1>8. Min(T) \in Nat \ {0} /\ s.off \in Nat
  BY <1>3, <1>4
<1>9. Min(T) <= img.cmds[le].fileoff
  BY <1>3, <1>4, <1>5, <1>7, <1>8
<1> QED
  BY <1>3, <1>4, <1>5, <1>8, <1>9 DEF FirstSection

\* No section comes to lie before the first one.
LEMMA GrownFirst ==
  ASSUME NEW img, MachoLinked(img), NEW le, Anchored(img, le),
         NEW blob \in Seq(Byte), NEW kind \in Kinds, NEW new, NEW signed \in BOOLEAN,
         Grown(img, le, new, blob, kind, signed)
  PROVE  FirstSection(new) = FirstSection(img)
<1> DEFINE T == { s.off : s \in AllSections(img) } \ {0}
           U == { s.off : s \in AllSections(new) } \ {0}
           start == img.cmds[le].fileoff
<1>1. T \in SUBSET Nat /\ FirstSection(img) \in T /\ FirstSection(img) \in Nat \ {0}
      /\ (\A y \in T : FirstSection(img) <= y)
      /\ FirstSection(img) <= start /\ start \in Nat
  BY FirstSectionFacts
<1>2. U = T \union {start}
  <2>1. Section(kind, start, Len(blob)).off = start /\ start # 0
    BY <1>1 DEF Section
  <2> QED
    BY <2>1, GrownSections
<1> HIDE DEF T, U, start
<1>3. U \in SUBSET Nat /\ FirstSection(img) \in U /\ \A y \in U : FirstSection(img) <= y
  BY <1>1, <1>2
<1>4. Min(U) \in U /\ \A y \in U : Min(U) <= y
  BY <1>3, MinFacts
<1>5. Min(U) \in Nat /\ Min(U) <= FirstSection(img) /\ FirstSection(img) <= Min(U)
  BY <1>3, <1>4
<1>6. Min(U) = FirstSection(img)
  BY <1>1, <1>5
<1> QED
  BY <1>6 DEF FirstSection, U

SigRoom(img) == IF CodeSig(img) = {} THEN 0 ELSE SigLcSize

\* The commands grow by the new one; a signature's command gives its room back.
LEMMA GrownWalk ==
  ASSUME NEW img, MachoLinked(img), NEW le, Anchored(img, le),
         NEW blob \in Seq(Byte), NEW kind \in Kinds, NEW new, NEW signed \in BOOLEAN,
         Grown(img, le, new, blob, kind, signed)
  PROVE  /\ EndOfLc(img) \in Nat /\ EndOfLc(new) \in Nat
         /\ EndOfLc(new) + SigRoom(img)
              = EndOfLc(img) + NewLcSize + (IF signed THEN SigLcSize ELSE 0)
<1> DEFINE m == Kept(img)
           F == LcEnds(img)
           G == LcEnds(new)
           delta == RoundUp(Len(blob), PageSize)
           edit == img.cmds[le]
<1>1. /\ le \in Nat /\ le \in 1..m /\ m \in Nat /\ m <= img.ncmds
      /\ CodeSig(img) # {} => CodeSig(img) = {img.ncmds} /\ m = img.ncmds - 1
      /\ \A j \in 1..m : j \in Live(img)
  BY Anchors
<1>2. /\ img \in MachoImage /\ img.ncmds \in Nat /\ img.ncmds <= Len(img.cmds)
      /\ \A i \in Live(img) : img.cmds[i].size \in Nat
  BY MachoTypes, CommandFacts
<1>3. /\ new \in MachoImage /\ new.ncmds = m + 1 + (IF signed THEN 1 ELSE 0)
      /\ new.ncmds <= Len(new.cmds)
      /\ new.cmds[le] = SmolSegment(img, blob, kind) /\ new.cmds[le + 1].size = edit.size
      /\ signed => new.cmds[m + 2] = Pointing("signature", "", LinkeditEnd(img) + delta, 1)
  BY DEF Grown
<1>4. /\ F[0] = HeaderSize
      /\ \A n \in 0..img.ncmds : F[n] \in Nat
      /\ \A n \in 1..img.ncmds : F[n] = F[n - 1] + img.cmds[n].size
  BY <1>2, LcEndsFacts
<1>5. /\ G[0] = HeaderSize
      /\ \A n \in 0..new.ncmds : G[n] \in Nat
      /\ \A n \in 1..new.ncmds : G[n] = G[n - 1] + new.cmds[n].size
  BY <1>3, LcEndsFacts
<1>6. \A j \in 1..m : /\ j < le => new.cmds[j].size = img.cmds[j].size
                      /\ j > le => new.cmds[j + 1].size = img.cmds[j].size
  <2>1. \A j \in 1..m : j # le => From(img, new, le, delta, j, Place(le, j))
    BY GrownCases
  <2>2. \A j \in 1..m : /\ j < le => Place(le, j) = j
                        /\ j > le => Place(le, j) = j + 1
    BY <1>1 DEF Place
  <2>3. ASSUME NEW j \in 1..m, j # le
        PROVE  new.cmds[Place(le, j)].size = img.cmds[j].size
    BY <2>1, <2>3 DEF From, SameCommand
  <2>4. \A j \in 1..m : (j < le => j # le) /\ (j > le => j # le)
    BY <1>1
  <2> QED
    BY <2>2, <2>3, <2>4
<1>7. new.cmds[le].size = NewLcSize
  BY GrownParts DEF SmolOf
<1>8. /\ signed => new.cmds[m + 2].size = SigLcSize /\ new.ncmds = m + 2
      /\ ~signed => new.ncmds = m + 1
  <2>1. (signed => SignatureOf(img, new, blob)) /\ (~signed => NoSignatureOf(img, new, blob))
    BY GrownParts
  <2> QED
    BY <2>1 DEF SignatureOf, NoSignatureOf
<1>9. CodeSig(img) # {} => img.cmds[img.ncmds].size = SigLcSize
  BY DEF Anchored, SignatureLast
<1>10. CodeSig(img) = {} => m = img.ncmds
  BY DEF Kept
<1>11. edit.size \in Nat
  BY <1>1, <1>2
<1>12. SigLcSize = 1 /\ NewLcSize = 2
  BY DEF SigLcSize, NewLcSize
<1>13. EndOfLc(img) = F[img.ncmds] /\ EndOfLc(new) = G[new.ncmds]
  BY DEF EndOfLc
<1>14. img.ncmds \in 1..img.ncmds /\ img.ncmds - 1 \in 0..img.ncmds
  BY <1>1, <1>2
<1>15. /\ m + 1 <= new.ncmds /\ new.ncmds \in Nat
       /\ signed => new.ncmds = m + 2
       /\ ~signed => new.ncmds = m + 1
  BY <1>1, <1>8
<1> HIDE DEF m, F, G, edit, delta
<1>16. \A i \in 0..le - 1 : G[i + 0] = F[i] + 0
  <2>1. 0 \in Nat /\ le - 1 \in Nat /\ 0 \in Int
    BY <1>1
  <2>2. \A i \in 0..le - 1 : F[i] \in Nat /\ G[i + 0] \in Nat
    BY <1>1, <1>2, <1>4, <1>5, <1>15
  <2>3. G[0 + 0] = F[0] + 0
    BY <1>4, <1>5 DEF HeaderSize
  <2>4. ASSUME NEW i \in 0 + 1..le - 1
        PROVE  \E size \in Nat : F[i] = F[i - 1] + size /\ G[i + 0] = G[(i - 1) + 0] + size
    <3>1. i \in 1..m /\ i \in 1..img.ncmds /\ i \in 1..new.ncmds /\ i < le /\ i + 0 = i
          /\ (i - 1) + 0 = i - 1
      BY <1>1, <1>2, <1>15
    <3>2. F[i] = F[i - 1] + img.cmds[i].size /\ G[i] = G[i - 1] + img.cmds[i].size
      BY <1>4, <1>5, <1>6, <3>1
    <3>3. img.cmds[i].size \in Nat
      BY <1>1, <1>2, <3>1
    <3> QED
      BY <3>1, <3>2, <3>3
  <2>5. InStep(F, G, 0, le - 1, 0, 0)
    BY <2>2, <2>3, <2>4 DEF InStep
  <2>6. Parallel(F, G, 0, le - 1, 0, 0)
    BY <2>1, <2>5, SameSteps, Zenon
  <2> QED
    BY <2>6 DEF Parallel
<1>17. G[le + 1] = F[le] + NewLcSize
  <2>1. le - 1 \in 0..le - 1 /\ (le - 1) + 0 = le - 1 /\ le - 1 \in 0..img.ncmds
    BY <1>1, <1>2
  <2>2. F[le - 1] \in Nat
    BY <1>4, <2>1
  <2>3. G[le - 1] = F[le - 1]
    BY <1>16, <2>1, <2>2
  <2>4. le \in 1..new.ncmds /\ le + 1 \in 1..new.ncmds /\ le \in 1..img.ncmds /\ (le + 1) - 1 = le
    BY <1>1, <1>2, <1>15
  <2>5. G[le] = G[le - 1] + NewLcSize /\ G[le + 1] = G[le] + edit.size
    BY <1>3, <1>5, <1>7, <2>4
  <2>6. F[le] = F[le - 1] + edit.size
    BY <1>4, <2>4 DEF edit
  <2> QED
    BY <1>11, <1>12, <2>2, <2>3, <2>5, <2>6
<1>18. \A i \in le..m : G[i + 1] = F[i] + NewLcSize
  <2>1. le \in Nat /\ m \in Nat /\ 1 \in Nat /\ NewLcSize \in Int
    BY <1>1, <1>12
  <2>2. \A i \in le..m : F[i] \in Nat /\ G[i + 1] \in Nat
    <3>1. \A i \in le..m : i \in 0..img.ncmds /\ i + 1 \in 0..new.ncmds
      BY <1>1, <1>2, <1>15
    <3> QED
      BY <1>4, <1>5, <3>1
  <2>4. ASSUME NEW i \in le + 1..m
        PROVE  \E size \in Nat : F[i] = F[i - 1] + size /\ G[i + 1] = G[(i - 1) + 1] + size
    <3>1. i \in 1..m /\ i \in 1..img.ncmds /\ i + 1 \in 1..new.ncmds /\ i > le
          /\ (i + 1) - 1 = i /\ (i - 1) + 1 = i
      BY <1>1, <1>2, <1>15
    <3>2. F[i] = F[i - 1] + img.cmds[i].size /\ G[i + 1] = G[i] + img.cmds[i].size
      BY <1>4, <1>5, <1>6, <3>1
    <3>3. img.cmds[i].size \in Nat
      BY <1>1, <1>2, <3>1
    <3> QED
      BY <3>1, <3>2, <3>3
  <2>5. InStep(F, G, le, m, 1, NewLcSize)
    BY <1>17, <2>2, <2>4 DEF InStep
  <2>6. Parallel(F, G, le, m, 1, NewLcSize)
    BY <2>1, <2>5, SameSteps, Zenon
  <2> QED
    BY <2>6 DEF Parallel
<1>19. G[m + 1] = F[m] + NewLcSize /\ F[m] \in Nat
  <2>1. m \in le..m /\ m \in 0..img.ncmds
    BY <1>1, <1>2
  <2> QED
    BY <1>4, <1>18, <2>1
<1>20. G[new.ncmds] = F[m] + NewLcSize + (IF signed THEN SigLcSize ELSE 0)
  <2>1. CASE signed
    <3>1. m + 2 \in 1..new.ncmds /\ (m + 2) - 1 = m + 1
      BY <1>1, <1>15, <2>1
    <3>2. G[m + 2] = G[m + 1] + SigLcSize
      BY <1>5, <1>8, <2>1, <3>1
    <3> QED
      BY <1>12, <1>15, <1>19, <2>1, <3>2
  <2>2. CASE ~signed
    BY <1>12, <1>15, <1>19, <2>2
  <2> QED
    BY <2>1, <2>2
<1>21. F[img.ncmds] = F[m] + SigRoom(img)
  <2>1. CASE CodeSig(img) = {}
    BY <1>10, <1>19, <2>1 DEF SigRoom
  <2>2. CASE CodeSig(img) # {}
    BY <1>1, <1>4, <1>9, <1>14, <2>2 DEF SigRoom
  <2> QED
    BY <2>1, <2>2
<1> QED
  BY <1>12, <1>13, <1>19, <1>20, <1>21 DEF SigRoom

Unsigned(blob) == \A i \in 1..Len(blob) : blob[i][1] # "sig"

SignedAt(img, signed, end) ==
    /\ CodeSig(img) = IF signed THEN {img.ncmds} ELSE {}
    /\ LinkeditEnd(img) = end
    /\ Len(img.bytes) = end + (IF signed THEN 1 ELSE 0)
    /\ SigAtoms(img) = IF signed THEN {Len(img.bytes)} ELSE {}

\* What a grown image says of its signature: none, or the fresh one, last in every respect.
LEMMA GrownSignature ==
  ASSUME NEW img, MachoLinked(img), NEW le, Anchored(img, le),
         NEW blob \in Seq(Byte), NEW kind \in Kinds, NEW new, NEW signed \in BOOLEAN,
         Grown(img, le, new, blob, kind, signed),
         Unsigned(blob)
  PROVE  SignedAt(new, signed, LinkeditEnd(img) + RoundUp(Len(blob), PageSize))
<1> DEFINE m == Kept(img)
           delta == RoundUp(Len(blob), PageSize)
           end == LinkeditEnd(img)
           start == img.cmds[le].fileoff
<1>1. /\ le \in Nat /\ le \in 1..m /\ m \in Nat /\ end \in Nat /\ start <= end
      /\ \A i \in 1..m : img.cmds[i].cmd # "signature"
      /\ end <= Len(img.bytes) /\ Len(img.bytes) \in Nat
  BY Anchors, MachoTypes
<1>2. Len(blob) \in Nat /\ delta \in Nat /\ Len(blob) <= delta
  <2>1. Len(blob) \in Nat
    OBVIOUS
  <2> QED
    BY <2>1, Pages, RoundUpFacts
<1>3. start \in Nat
  BY FirstSectionFacts
<1>4. /\ \A i \in Live(new) : i = le \/ i = le + 1 \/ (signed /\ i = m + 2)
           \/ \E j \in 1..m : j # le /\ From(img, new, le, delta, j, i)
      /\ signed => m + 2 \in Live(new)
  BY GrownCases
<1>5. /\ new \in MachoImage /\ new.ncmds = m + 1 + (IF signed THEN 1 ELSE 0)
      /\ new.cmds[le] = SmolSegment(img, blob, kind) /\ new.cmds[le + 1].cmd = "segment"
      /\ signed => new.cmds[m + 2] = Pointing("signature", "", end + delta, 1)
      /\ Len(new.bytes) = end + delta + (IF signed THEN 1 ELSE 0)
  BY DEF Grown
<1>0. /\ signed => new.ncmds = m + 2 /\ Len(new.bytes) = end + delta + 1
      /\ ~signed => Len(new.bytes) = end + delta
  <2>1. (signed => SignatureOf(img, new, blob)) /\ (~signed => NoSignatureOf(img, new, blob))
    BY GrownParts
  <2> QED
    BY <2>1 DEF SignatureOf, NoSignatureOf
<1>6. /\ \A i \in 1..start : new.bytes[i] = img.bytes[i]
      /\ \A i \in 1..Len(blob) : new.bytes[start + i] = blob[i]
      /\ \A i \in Len(blob) + 1..delta : new.bytes[start + i] = Zero
      /\ \A i \in start + 1..end : new.bytes[i + delta] = img.bytes[i]
      /\ signed => new.bytes[end + delta + 1] = Atom("sig", SmolCount(new), 1, 1)
  BY DEF Grown
<1>7. \A i \in SigAtoms(img) : i > end
  BY DEF Anchored, SignatureLast
<1> HIDE DEF m, delta, end, start
<1>8. new.cmds[le].cmd # "signature" /\ new.cmds[le + 1].cmd # "signature"
  <2>1. new.cmds[le].cmd = "segment"
    BY GrownParts DEF SmolOf
  <2> QED
    BY <1>5, <2>1
<1>9. \A i, j : j \in 1..m /\ From(img, new, le, delta, j, i) => new.cmds[i].cmd # "signature"
  BY <1>1 DEF From, SameCommand
<1>10. CodeSig(new) = IF signed THEN {new.ncmds} ELSE {}
  <2>1. CASE signed
    <3>1. new.ncmds = m + 2
      BY <1>0, <2>1
    <3>2. new.cmds[m + 2].cmd = "signature"
      <4>1. Pointing("signature", "", end + delta, 1).cmd = "signature"
        BY DEF Pointing
      <4> QED
        BY <1>5, <2>1, <4>1
    <3>3. \A i \in Live(new) : new.cmds[i].cmd = "signature" => i = m + 2
      BY <1>4, <1>8, <1>9
    <3>4. CodeSig(new) = {m + 2}
      BY <1>4, <2>1, <3>2, <3>3 DEF CodeSig
    <3> QED
      BY <2>1, <3>1, <3>4
  <2>2. CASE ~signed
    BY <1>4, <1>8, <1>9, <2>2 DEF CodeSig
  <2> QED
    BY <2>1, <2>2
<1>11. LinkeditEnd(new) = end + delta
  <2>1. CASE signed
    <3>1. new.ncmds = m + 2 /\ new.ncmds \in Nat
      BY <1>0, <1>1, <2>1
    <3>2. SigAt(new) = m + 2
      BY <1>10, <2>1, <3>1, OneOf DEF SigAt
    <3>3. new.cmds[m + 2].fileoff = end + delta
      <4>1. Pointing("signature", "", end + delta, 1).fileoff = end + delta
        BY DEF Pointing
      <4> QED
        BY <1>5, <2>1, <4>1
    <3>4. CodeSig(new) # {}
      BY <1>10, <2>1
    <3> QED
      BY <3>2, <3>3, <3>4 DEF LinkeditEnd
  <2>2. CASE ~signed
    BY <1>0, <1>10, <2>2 DEF LinkeditEnd
  <2> QED
    BY <2>1, <2>2
<1>12. \A i \in 1..end : img.bytes[i][1] # "sig"
  <2>1. \A i \in 1..end : i \in DOMAIN img.bytes /\ ~(i > end)
    <3>1. img.bytes \in Seq(Byte)
      BY MachoTypes
    <3> QED
      BY <1>1, <3>1
  <2> QED
    BY <1>7, <2>1 DEF SigAtoms
<1>13. \A i \in 1..end + delta : new.bytes[i][1] # "sig"
  <2>1. SUFFICES ASSUME NEW i \in 1..end + delta PROVE new.bytes[i][1] # "sig"
    OBVIOUS
  <2>2. CASE i \in 1..start
    <3>1. i \in 1..end
      BY <1>1, <1>3, <2>2
    <3> QED
      BY <1>6, <1>12, <2>2, <3>1
  <2>3. CASE i - start \in 1..Len(blob)
    <3>1. start + (i - start) = i
      BY <1>3
    <3>2. new.bytes[i] = blob[i - start]
      BY <1>6, <2>3, <3>1
    <3> QED
      BY <2>3, <3>2 DEF Unsigned
  <2>4. CASE i - start \in Len(blob) + 1..delta
    <3>1. start + (i - start) = i
      BY <1>3
    <3>2. new.bytes[i] = Zero
      BY <1>6, <2>4, <3>1
    <3>3. Zero[1] = "zero"
      BY DEF Zero, Atom
    <3> QED
      BY <3>2, <3>3
  <2>5. CASE i - delta \in start + 1..end
    <3>1. (i - delta) + delta = i /\ i - delta \in 1..end
      BY <1>1, <1>2, <1>3, <2>5
    <3>2. new.bytes[i] = img.bytes[i - delta]
      BY <1>6, <2>5, <3>1
    <3> QED
      BY <1>12, <3>1, <3>2
  <2> QED
    BY <1>1, <1>2, <1>3, <2>2, <2>3, <2>4, <2>5
<1>14. SigAtoms(new) = IF signed THEN {Len(new.bytes)} ELSE {}
  <2>1. new.bytes \in Seq(Byte) /\ DOMAIN new.bytes = 1..Len(new.bytes)
    <3>1. new.bytes \in Seq(Byte)
      BY <1>5 DEF MachoImage
    <3> QED
      BY <3>1
  <2>2. CASE signed
    <3>1. Len(new.bytes) = end + delta + 1
      BY <1>0, <2>2
    <3>2. new.bytes[end + delta + 1][1] = "sig"
      BY <1>6, <2>2 DEF Atom
    <3>3. \A i \in 1..end + delta + 1 : i \in 1..end + delta \/ i = end + delta + 1
      BY <1>1, <1>2
    <3>4. end + delta + 1 \in 1..end + delta + 1
      BY <1>1, <1>2
    <3> QED
      BY <1>13, <2>1, <2>2, <3>1, <3>2, <3>3, <3>4 DEF SigAtoms
  <2>3. CASE ~signed
    <3>1. Len(new.bytes) = end + delta
      BY <1>0, <2>3
    <3> QED
      BY <1>13, <2>1, <2>3, <3>1 DEF SigAtoms
  <2> QED
    BY <2>2, <2>3
<1>15. Len(new.bytes) = (end + delta) + (IF signed THEN 1 ELSE 0)
  BY <1>5
<1> QED
  BY <1>10, <1>11, <1>14, <1>15 DEF SignedAt, end, delta

----------------------------------------------------------------------------
(* Mach-O: a grown image is laid out as a linker would have done it.       *)

LEMMA AlignedSum ==
  ASSUME NEW a \in Nat, NEW b \in Nat, NEW n \in Nat \ {0}, a % n = 0, b % n = 0
  PROVE  (a + b) % n = 0
<1>1. a = n * (a \div n) /\ b = n * (b \div n) /\ a \div n \in Nat /\ b \div n \in Nat
  OBVIOUS
<1> DEFINE q == (a \div n) + (b \div n)
<1>2. a + b = n * q /\ q \in Nat
  BY <1>1
<1> HIDE DEF q
<1>3. (n * q) % n = 0
  <2> DEFINE p == n * q
             k == p \div n
             r == p % n
  <2>1. p \in Nat
    BY <1>2
  <2> HIDE DEF p
  <2>2. p = n * k + r /\ r \in Nat /\ r < n /\ k \in Int
    BY <2>1
  <2> HIDE DEF k, r
  <2>3. r = n * (q - k)
    BY <1>2, <2>2 DEF p
  <2>4. CASE q - k >= 1
    <3>1. n * (q - k) >= n
      BY <1>2, <2>2, <2>4
    <3> QED
      BY <2>2, <2>3, <3>1
  <2>5. CASE q - k <= -1
    <3>1. n * (q - k) <= -n
      BY <1>2, <2>2, <2>5
    <3> QED
      BY <2>2, <2>3, <3>1
  <2>6. CASE q - k = 0
    BY <2>3, <2>6 DEF r, p
  <2> QED
    BY <1>2, <2>2, <2>4, <2>5, <2>6 DEF p
<1> QED
  BY <1>2, <1>3

LEMMA SameFields ==
  ASSUME NEW c \in Command, NEW d \in Command, SameCommand(c, d),
         d.vmaddr = c.vmaddr, d.vmsize = c.vmsize, d.fileoff = c.fileoff, d.filesize = c.filesize
  PROVE  d = c
  BY DEF Command, SameCommand

\* Sizes, places and lengths that the arithmetic of a splice is about.
LEMMA GrownNumbers ==
  ASSUME NEW img, MachoLinked(img), NEW le, Anchored(img, le),
         NEW blob \in Seq(Byte), NEW kind \in Kinds, NEW new, NEW signed \in BOOLEAN,
         Grown(img, le, new, blob, kind, signed)
  PROVE  LET edit == img.cmds[le]
             moved == new.cmds[le + 1]
             delta == RoundUp(Len(blob), PageSize)
         IN  /\ edit \in Command /\ edit.fileoff \in Nat /\ edit.vmaddr \in Nat
             /\ edit.fileoff % PageSize = 0 /\ edit.vmaddr % PageSize = 0
             /\ Len(blob) \in Nat /\ delta \in Nat /\ Len(blob) <= delta /\ delta % PageSize = 0
             /\ moved \in Command /\ moved.filesize \in Nat /\ moved.vmsize \in Nat
             /\ moved.cmd = "segment" /\ moved.name = "__LINKEDIT" /\ moved.sects = <<>>
             /\ moved.fileoff = edit.fileoff + delta /\ moved.vmaddr = edit.vmaddr + delta
             /\ moved.fileoff + moved.filesize = Len(new.bytes)
             /\ moved.filesize <= moved.vmsize
             /\ new.bytes \in Seq(Byte) /\ Len(new.bytes) \in Nat
             /\ moved.fileoff % PageSize = 0 /\ moved.vmaddr % PageSize = 0
<1> DEFINE edit == img.cmds[le]
           moved == new.cmds[le + 1]
           delta == RoundUp(Len(blob), PageSize)
<1>1. edit \in Command /\ edit.fileoff \in Nat /\ edit.vmaddr \in Nat
  <2>1. edit \in Command
    BY MachoTypes DEF Anchored
  <2> QED
    BY <2>1, CommandFacts
<1>2. Len(blob) \in Nat /\ delta \in Nat /\ Len(blob) <= delta /\ delta % PageSize = 0
  <2>1. Len(blob) \in Nat
    OBVIOUS
  <2> QED
    BY <2>1, Pages, RoundUpFacts
<1>3. moved \in Command /\ moved.filesize \in Nat /\ moved.vmsize \in Nat
  <2>1. moved \in Command
    BY GrownCases
  <2> QED
    BY <2>1, CommandFacts
<1>4. edit.fileoff % PageSize = 0 /\ edit.vmaddr % PageSize = 0
  <2>1. edit \in SegmentsOf(img)
    BY DEF SegmentsOf, Anchored, LinkeditLast
  <2> QED
    BY <2>1 DEF MachoLinked, MachoSound
<1>5. /\ moved.cmd = "segment" /\ moved.name = "__LINKEDIT" /\ moved.sects = <<>>
      /\ moved.fileoff = edit.fileoff + delta /\ moved.vmaddr = edit.vmaddr + delta
      /\ moved.fileoff + moved.filesize = Len(new.bytes)
      /\ moved.filesize <= moved.vmsize
  BY DEF Grown
<1>6. new.bytes \in Seq(Byte) /\ Len(new.bytes) \in Nat
  <2>1. new.bytes \in Seq(Byte)
    BY DEF Grown, MachoImage
  <2> QED
    BY <2>1
<1> HIDE DEF edit, moved, delta
<1>7. moved.fileoff % PageSize = 0 /\ moved.vmaddr % PageSize = 0
  BY <1>1, <1>2, <1>4, <1>5, Pages, AlignedSum
<1> QED
  BY <1>1, <1>2, <1>3, <1>4, <1>5, <1>6, <1>7 DEF edit, moved, delta

\* The segments of the grown image: the new one, __LINKEDIT, and those that were before it.
LEMMA GrownSegments ==
  ASSUME NEW img, MachoLinked(img), NEW le, Anchored(img, le),
         NEW blob \in Seq(Byte), NEW kind \in Kinds, NEW new, NEW signed \in BOOLEAN,
         Grown(img, le, new, blob, kind, signed)
  PROVE  \A i \in Live(new) : new.cmds[i].cmd = "segment" =>
           \/ i = le \/ i = le + 1
           \/ /\ new.cmds[i] \in SegmentsOf(img) /\ new.cmds[i] \in Command
              /\ new.cmds[i].fileoff + new.cmds[i].filesize <= img.cmds[le].fileoff
              /\ new.cmds[i].vmaddr + new.cmds[i].vmsize <= img.cmds[le].vmaddr
<1> DEFINE m == Kept(img)
           delta == RoundUp(Len(blob), PageSize)
<1>1. /\ \A i \in Live(new) : i = le \/ i = le + 1 \/ (signed /\ i = m + 2)
           \/ \E j \in 1..m : j # le /\ From(img, new, le, delta, j, i)
  BY GrownCases
<1>2. signed => new.cmds[m + 2].cmd = "signature"
  <2>1. signed => SignatureOf(img, new, blob)
    BY GrownParts
  <2> QED
    BY <2>1 DEF SignatureOf
<1>3. \A j \in 1..m : j \in Live(img)
  BY Anchors
<1> HIDE DEF m, delta
<1>4. SUFFICES ASSUME NEW i \in Live(new), new.cmds[i].cmd = "segment", i # le, i # le + 1
               PROVE  /\ new.cmds[i] \in SegmentsOf(img) /\ new.cmds[i] \in Command
                      /\ new.cmds[i].fileoff + new.cmds[i].filesize <= img.cmds[le].fileoff
                      /\ new.cmds[i].vmaddr + new.cmds[i].vmsize <= img.cmds[le].vmaddr
  OBVIOUS
<1>5. PICK j \in 1..m : j # le /\ From(img, new, le, delta, j, i)
  BY <1>1, <1>2, <1>4
<1>6. /\ SameCommand(img.cmds[j], new.cmds[i]) /\ MovedTable(img.cmds[j], new.cmds[i], delta)
      /\ new.cmds[i] \in Command
  BY <1>5 DEF From
<1>7. img.cmds[j].cmd = "segment" /\ img.cmds[j].cmd # "table"
  BY <1>4, <1>6 DEF SameCommand
<1>8. j \in Live(img) /\ img.cmds[j] \in Command
  BY <1>3, MachoTypes
<1>9. new.cmds[i] = img.cmds[j]
  <2>1. /\ new.cmds[i].vmaddr = img.cmds[j].vmaddr /\ new.cmds[i].vmsize = img.cmds[j].vmsize
        /\ new.cmds[i].fileoff = img.cmds[j].fileoff
        /\ new.cmds[i].filesize = img.cmds[j].filesize
    BY <1>6, <1>7 DEF MovedTable
  <2> QED
    BY <1>6, <1>8, <2>1, SameFields
<1>10. new.cmds[i] \in SegmentsOf(img)
  BY <1>7, <1>8, <1>9 DEF SegmentsOf
<1>11. /\ new.cmds[i].fileoff + new.cmds[i].filesize <= img.cmds[le].fileoff
       /\ new.cmds[i].vmaddr + new.cmds[i].vmsize <= img.cmds[le].vmaddr
  BY <1>5, <1>7, <1>8, <1>9 DEF Anchored, LinkeditLast
<1> QED
  BY <1>6, <1>10, <1>11

\* The segments of a grown image are aligned, in the file, and apart.
LEMMA GrownSound ==
  ASSUME NEW img, MachoLinked(img), NEW le, Anchored(img, le),
         NEW blob \in Seq(Byte), NEW kind \in Kinds, NEW new, NEW signed \in BOOLEAN,
         Grown(img, le, new, blob, kind, signed),
         EndOfLc(new) <= FirstSection(new)
  PROVE  MachoSound(new)
<1> DEFINE edit == img.cmds[le]
           moved == new.cmds[le + 1]
           d == new.cmds[le]
           delta == RoundUp(Len(blob), PageSize)
           end == LinkeditEnd(img)
           len == Len(new.bytes)
           Good(s) == /\ s.fileoff % PageSize = 0 /\ s.vmaddr % PageSize = 0
                      /\ s.filesize <= s.vmsize
                      /\ s.fileoff + s.filesize <= len
           Disjoint(s, t) == /\ Apart(s.vmaddr, s.vmsize, t.vmaddr, t.vmsize)
                             /\ Apart(s.fileoff, s.filesize, t.fileoff, t.filesize)
           Before(s) == /\ s \in SegmentsOf(img) /\ s \in Command
                        /\ s.fileoff + s.filesize <= edit.fileoff
                        /\ s.vmaddr + s.vmsize <= edit.vmaddr
<1>1. /\ edit.fileoff \in Nat /\ edit.vmaddr \in Nat
      /\ edit.fileoff % PageSize = 0 /\ edit.vmaddr % PageSize = 0
      /\ Len(blob) \in Nat /\ delta \in Nat /\ Len(blob) <= delta
      /\ moved.filesize \in Nat /\ moved.vmsize \in Nat
      /\ moved.fileoff = edit.fileoff + delta /\ moved.vmaddr = edit.vmaddr + delta
      /\ moved.fileoff + moved.filesize = len /\ moved.filesize <= moved.vmsize
      /\ len \in Nat
      /\ moved.fileoff % PageSize = 0 /\ moved.vmaddr % PageSize = 0
  BY GrownNumbers
<1>2. /\ d.fileoff = edit.fileoff /\ d.filesize = Len(blob)
      /\ d.vmaddr = edit.vmaddr /\ d.vmsize = delta
  BY GrownParts DEF SmolOf
<1>3. \A s \in SegmentsOf(new) : s = d \/ s = moved \/ Before(s)
  BY GrownSegments DEF SegmentsOf
<1>4. /\ \A s \in SegmentsOf(img) : /\ s.fileoff % PageSize = 0 /\ s.vmaddr % PageSize = 0
                                    /\ s.filesize <= s.vmsize
      /\ \A s, t \in SegmentsOf(img) : s = t \/ Disjoint(s, t)
  BY DEF MachoLinked, MachoSound
<1> HIDE DEF edit, moved, d, delta, end, len
<1>5. edit.fileoff + delta <= len
  BY <1>1
<1>6. Good(d) /\ Good(moved)
  <2>1. d.fileoff + d.filesize <= len
    BY <1>1, <1>2, <1>5
  <2> QED
    BY <1>1, <1>2, <2>1
<1>7. ASSUME NEW s, Before(s)
      PROVE  Good(s) /\ Disjoint(s, d) /\ Disjoint(d, s) /\ Disjoint(s, moved) /\ Disjoint(moved, s)
  <2>1. s.fileoff \in Nat /\ s.filesize \in Nat /\ s.vmaddr \in Nat /\ s.vmsize \in Nat
    BY <1>7, CommandFacts
  <2>2. s.fileoff + s.filesize <= edit.fileoff /\ s.vmaddr + s.vmsize <= edit.vmaddr
    BY <1>7
  <2>3. s.fileoff + s.filesize <= len
    BY <1>1, <1>5, <2>1, <2>2
  <2>4. s.fileoff + s.filesize <= moved.fileoff /\ s.vmaddr + s.vmsize <= moved.vmaddr
    <3>1. /\ edit.fileoff <= moved.fileoff /\ edit.vmaddr <= moved.vmaddr
          /\ moved.fileoff \in Nat /\ moved.vmaddr \in Nat
          /\ edit.fileoff \in Nat /\ edit.vmaddr \in Nat
      BY <1>1
    <3> QED
      BY <2>1, <2>2, <3>1, SMTT(30)
  <2> QED
    BY <1>2, <1>4, <1>7, <2>2, <2>3, <2>4 DEF Apart
<1>8. Disjoint(d, moved) /\ Disjoint(moved, d)
  <2>1. d.fileoff + d.filesize <= moved.fileoff /\ d.vmaddr + d.vmsize <= moved.vmaddr
    BY <1>1, <1>2
  <2> QED
    BY <2>1 DEF Apart
<1>9. \A s \in SegmentsOf(new) : Good(s)
  BY <1>3, <1>6, <1>7
<1>10. ASSUME NEW s \in SegmentsOf(new), NEW t \in SegmentsOf(new), s # t PROVE Disjoint(s, t)
  <2>1. CASE Before(s) /\ Before(t)
    BY <1>4, <1>10, <2>1
  <2>2. CASE Before(s) /\ t \in {d, moved}
    BY <1>7, <2>2
  <2>3. CASE Before(t) /\ s \in {d, moved}
    BY <1>7, <2>3
  <2>4. CASE s \in {d, moved} /\ t \in {d, moved}
    BY <1>8, <1>10, <2>4
  <2> QED
    BY <1>3, <2>1, <2>2, <2>3, <2>4
<1> QED
  BY <1>9, <1>10 DEF MachoSound, len

\* __LINKEDIT is still the last segment.
LEMMA GrownLast ==
  ASSUME NEW img, MachoLinked(img), NEW le, Anchored(img, le),
         NEW blob \in Seq(Byte), NEW kind \in Kinds, NEW new, NEW signed \in BOOLEAN,
         Grown(img, le, new, blob, kind, signed)
  PROVE  LinkeditLast(new, le + 1)
<1> DEFINE edit == img.cmds[le]
           moved == new.cmds[le + 1]
           d == new.cmds[le]
           delta == RoundUp(Len(blob), PageSize)
<1>1. /\ edit.fileoff \in Nat /\ edit.vmaddr \in Nat
      /\ Len(blob) \in Nat /\ delta \in Nat /\ Len(blob) <= delta
      /\ moved.cmd = "segment" /\ moved.name = "__LINKEDIT" /\ moved.sects = <<>>
      /\ moved.fileoff = edit.fileoff + delta /\ moved.vmaddr = edit.vmaddr + delta
      /\ moved.fileoff + moved.filesize = Len(new.bytes)
  BY GrownNumbers
<1>2. /\ d.fileoff = edit.fileoff /\ d.filesize = Len(blob)
      /\ d.vmaddr = edit.vmaddr /\ d.vmsize = delta
  BY GrownParts DEF SmolOf
<1>3. \A i \in Live(new) : new.cmds[i].cmd = "segment" =>
           \/ i = le \/ i = le + 1
           \/ /\ new.cmds[i] \in Command
              /\ new.cmds[i].fileoff + new.cmds[i].filesize <= edit.fileoff
              /\ new.cmds[i].vmaddr + new.cmds[i].vmsize <= edit.vmaddr
  BY GrownSegments
<1>4. \A i \in Live(new) \ {le + 1} : new.cmds[i].name # "__LINKEDIT"
  BY GrownLinkedit
<1> HIDE DEF edit, moved, delta
<1>5. ASSUME NEW i \in Live(new) \ {le + 1}, new.cmds[i].cmd = "segment"
      PROVE  /\ new.cmds[i].fileoff + new.cmds[i].filesize <= moved.fileoff
             /\ new.cmds[i].vmaddr + new.cmds[i].vmsize <= moved.vmaddr
  <2>1. CASE i = le
    BY <1>1, <1>2, <2>1
  <2>2. CASE i # le
    <3> DEFINE c == new.cmds[i]
    <3>1. /\ c \in Command /\ c.fileoff + c.filesize <= edit.fileoff
          /\ c.vmaddr + c.vmsize <= edit.vmaddr
      BY <1>3, <1>5, <2>2
    <3> HIDE DEF c
    <3>2. c.fileoff \in Nat /\ c.filesize \in Nat /\ c.vmaddr \in Nat /\ c.vmsize \in Nat
      BY <3>1, CommandFacts
    <3>3. c.fileoff + c.filesize <= moved.fileoff /\ c.vmaddr + c.vmsize <= moved.vmaddr
      BY <1>1, <3>1, <3>2, SMTT(30)
    <3> QED
      BY <3>3 DEF c
  <2> QED
    BY <2>1, <2>2
<1> QED
  BY <1>1, <1>4, <1>5 DEF LinkeditLast, moved

\* Sections are still before it and its tables inside.
LEMMA GrownPlaces ==
  ASSUME NEW img, MachoLinked(img), NEW le, Anchored(img, le),
         NEW blob \in Seq(Byte), NEW kind \in Kinds, NEW new, NEW signed \in BOOLEAN,
         Grown(img, le, new, blob, kind, signed),
         Unsigned(blob)
  PROVE  PartsInPlace(new, le + 1)
<1> DEFINE edit == img.cmds[le]
           moved == new.cmds[le + 1]
           delta == RoundUp(Len(blob), PageSize)
           m == Kept(img)
           end == LinkeditEnd(img)
<1>1. /\ edit.fileoff \in Nat /\ Len(blob) \in Nat /\ delta \in Nat /\ Len(blob) <= delta
      /\ moved.cmd = "segment" /\ moved.fileoff = edit.fileoff + delta
  BY GrownNumbers
<1>2. LinkeditEnd(new) = end + delta
  BY GrownSignature DEF SignedAt
<1>3. end \in Nat /\ \A j \in 1..m : j \in Live(img)
  BY Anchors
<1>4. ASSUME NEW s \in AllSections(new)
      PROVE  s.off = 0 \/ s.off + s.size <= moved.fileoff
  <2>1. CASE s \in AllSections(img)
    <3>1. s.off \in Nat /\ s.size \in Nat
      BY <2>1, SectionTypes, MachoTypes
    <3>2. s.off = 0 \/ s.off + s.size <= edit.fileoff
      BY <2>1 DEF Anchored, PartsInPlace
    <3> HIDE DEF edit, moved, delta
    <3> QED
      BY <1>1, <3>1, <3>2
  <2>2. CASE s = Section(kind, edit.fileoff, Len(blob))
    <3>1. s.off = edit.fileoff /\ s.size = Len(blob)
      BY <2>2 DEF Section
    <3> HIDE DEF edit, moved, delta
    <3> QED
      BY <1>1, <3>1
  <2> QED
    BY <2>1, <2>2, GrownSections
<1>5. ASSUME NEW i \in Live(new), new.cmds[i].cmd = "table", new.cmds[i].fileoff # 0
      PROVE  /\ moved.fileoff <= new.cmds[i].fileoff
             /\ new.cmds[i].fileoff + new.cmds[i].filesize <= end + delta
  <2>1. \A k \in Live(new) : k = le \/ k = le + 1 \/ (signed /\ k = m + 2)
           \/ \E j \in 1..m : j # le /\ From(img, new, le, delta, j, k)
    BY GrownCases
  <2>2. i # le /\ i # le + 1 /\ ~(signed /\ i = m + 2)
    <3>1. new.cmds[le].cmd = "segment"
      BY GrownParts DEF SmolOf
    <3>2. signed => SignatureOf(img, new, blob)
      BY GrownParts
    <3>3. signed => new.cmds[m + 2].cmd = "signature"
      BY <3>2 DEF SignatureOf
    <3> QED
      BY <1>1, <1>5, <3>1, <3>3
  <2>3. PICK j \in 1..m : From(img, new, le, delta, j, i)
    BY <2>1, <2>2
  <2> DEFINE c == img.cmds[j]
             e == new.cmds[i]
  <2>4. j \in Live(img) /\ c \in Command /\ SameCommand(c, e) /\ MovedTable(c, e, delta)
    BY <1>3, <2>3, MachoTypes DEF From
  <2>5. c.cmd = "table" /\ c.fileoff # 0 /\ e.fileoff = c.fileoff + delta /\ e.filesize = c.filesize
    BY <1>5, <2>4 DEF SameCommand, MovedTable
  <2>6. edit.fileoff <= c.fileoff /\ c.fileoff + c.filesize <= end
    BY <2>4, <2>5 DEF Anchored, PartsInPlace
  <2>7. c.fileoff \in Nat /\ c.filesize \in Nat
    BY <2>4, CommandFacts
  <2> HIDE DEF c, e, edit, moved, end, delta
  <2>8. moved.fileoff <= e.fileoff /\ e.fileoff + e.filesize <= end + delta
    BY <1>1, <1>3, <2>5, <2>6, <2>7
  <2> QED
    BY <2>8 DEF e
<1> QED
  BY <1>2, <1>4, <1>5 DEF PartsInPlace

\* A signature is still last.
LEMMA GrownSigned ==
  ASSUME NEW img, MachoLinked(img), NEW le, Anchored(img, le),
         NEW blob \in Seq(Byte), NEW kind \in Kinds, NEW new, NEW signed \in BOOLEAN,
         Grown(img, le, new, blob, kind, signed),
         Unsigned(blob)
  PROVE  SignatureLast(new, le + 1)
<1> DEFINE start == img.cmds[le].fileoff
           delta == RoundUp(Len(blob), PageSize)
           end == LinkeditEnd(img)
<1>1. /\ CodeSig(new) = IF signed THEN {new.ncmds} ELSE {}
      /\ LinkeditEnd(new) = end + delta
      /\ Len(new.bytes) = LinkeditEnd(new) + (IF signed THEN 1 ELSE 0)
      /\ SigAtoms(new) = IF signed THEN {Len(new.bytes)} ELSE {}
  <2>1. SignedAt(new, signed, end + delta)
    BY GrownSignature
  <2> QED
    BY <2>1 DEF SignedAt
<1>2. start \in Nat /\ delta \in Nat /\ new.cmds[le + 1].fileoff = start + delta
      /\ Len(new.bytes) \in Nat
  BY GrownNumbers
<1>3. end \in Nat /\ start <= end
  BY Anchors
<1>4. signed => new.cmds[new.ncmds].size = SigLcSize
  <2>1. signed => SignatureOf(img, new, blob)
    BY GrownParts
  <2> QED
    BY <2>1 DEF SignatureOf
<1> HIDE DEF start, delta, end
<1>5. LinkeditEnd(new) \in Nat /\ start + delta <= LinkeditEnd(new)
  BY <1>1, <1>2, <1>3
<1>6. CASE signed
  <2>1. Len(new.bytes) = LinkeditEnd(new) + 1
    BY <1>1, <1>6
  <2>2. LinkeditEnd(new) <= Len(new.bytes) /\ Len(new.bytes) > LinkeditEnd(new)
    BY <1>5, <2>1
  <2> QED
    BY <1>1, <1>2, <1>4, <1>5, <1>6, <2>2 DEF SignatureLast
<1>7. CASE ~signed
  BY <1>1, <1>7 DEF SignatureLast
<1> QED
  BY <1>6, <1>7

\* The grown image is as a linker would have laid it out, one command more before __LINKEDIT.
LEMMA GrownLinked ==
  ASSUME NEW img, MachoLinked(img), NEW le, Anchored(img, le),
         NEW blob \in Seq(Byte), NEW kind \in Kinds, NEW new, NEW signed \in BOOLEAN,
         Grown(img, le, new, blob, kind, signed),
         Unsigned(blob),
         EndOfLc(new) <= FirstSection(new)
  PROVE  MachoLinked(new) /\ Anchored(new, le + 1)
<1> DEFINE m == Kept(img)
           delta == RoundUp(Len(blob), PageSize)
<1>1. LinkeditLast(new, le + 1) /\ PartsInPlace(new, le + 1) /\ SignatureLast(new, le + 1)
  BY GrownLast, GrownPlaces, GrownSigned
<1>2. /\ le + 1 \in Live(new)
      /\ \A i \in Live(new) : i = le \/ i = le + 1 \/ (signed /\ i = m + 2)
           \/ \E j \in 1..m : j # le /\ From(img, new, le, delta, j, i)
  BY GrownCases
<1>3. Anchored(new, le + 1)
  BY <1>1, <1>2 DEF Anchored
<1>4. new \in MachoImage /\ new.ncmds <= Len(new.cmds) /\ new.cmds[le + 1].size = img.cmds[le].size
  BY DEF Grown
<1>5. MachoSound(new)
  BY GrownSound
<1>6. \E s \in AllSections(new) : s.off # 0
  <2>1. \E s \in AllSections(img) : s.off # 0
    BY DEF MachoLinked
  <2> QED
    BY <2>1, GrownSections
<1>7. \A j \in Live(img) : /\ img.cmds[j].size > 0
                           /\ img.cmds[j].cmd # "segment" => img.cmds[j].sects = <<>>
  BY DEF MachoLinked
<1>8. le \in Live(img) /\ \A j \in 1..m : j \in Live(img)
  BY Anchors DEF Anchored
<1>9. ASSUME NEW i \in Live(new)
      PROVE  /\ new.cmds[i].size > 0
             /\ new.cmds[i].cmd # "segment" => new.cmds[i].sects = <<>>
  <2>1. CASE i = le
    <3>1. new.cmds[le].cmd = "segment" /\ new.cmds[le].size = NewLcSize
      BY GrownParts DEF SmolOf
    <3> QED
      BY <2>1, <3>1 DEF NewLcSize
  <2>2. CASE i = le + 1
    <3>1. new.cmds[le + 1].cmd = "segment"
      BY <1>1 DEF LinkeditLast
    <3> QED
      BY <1>4, <1>7, <1>8, <2>2, <3>1
  <2>3. CASE signed /\ i = m + 2
    <3>1. SignatureOf(img, new, blob)
      BY <2>3, GrownParts
    <3>2. new.cmds[m + 2].size = SigLcSize /\ new.cmds[m + 2].sects = <<>>
      BY <3>1 DEF SignatureOf
    <3> QED
      BY <2>3, <3>2 DEF SigLcSize
  <2>4. CASE \E j \in 1..m : From(img, new, le, delta, j, i)
    BY <1>7, <1>8, <2>4 DEF From, SameCommand
  <2> QED
    BY <1>2, <2>1, <2>2, <2>3, <2>4
<1>10. MachoLinked(new)
  BY <1>1, <1>2, <1>4, <1>5, <1>6, <1>9 DEF MachoLinked
<1> QED
  BY <1>3, <1>10

----------------------------------------------------------------------------
(* Mach-O: the loader's view of a grown image.                             *)

SameFront(img, new, end) ==
    \A off, size \in Nat : off + size <= end =>
      Slice(new.bytes, off, size) = Slice(img.bytes, off, size)

\* What lies before __LINKEDIT is where it was; what lies in it moved along.
LEMMA GrownContent ==
  ASSUME NEW img, MachoLinked(img), NEW le, Anchored(img, le),
         NEW blob \in Seq(Byte), NEW kind \in Kinds, NEW new, NEW signed \in BOOLEAN,
         Grown(img, le, new, blob, kind, signed)
  PROVE  /\ SameFront(img, new, img.cmds[le].fileoff)
         /\ \A off, size \in Nat :
              img.cmds[le].fileoff <= off /\ off + size <= LinkeditEnd(img) =>
                Slice(new.bytes, off + RoundUp(Len(blob), PageSize), size)
                  = Slice(img.bytes, off, size)
         /\ Slice(new.bytes, img.cmds[le].fileoff, Len(blob)) = blob
<1> DEFINE start == img.cmds[le].fileoff
           delta == RoundUp(Len(blob), PageSize)
           end == LinkeditEnd(img)
           room == Len(new.bytes)
<1>1. /\ start \in Nat /\ Len(blob) \in Nat /\ delta \in Nat /\ Len(blob) <= delta
      /\ new.bytes \in Seq(Byte) /\ room \in Nat
  BY GrownNumbers
<1>2. end \in Nat /\ start <= end /\ end <= Len(img.bytes)
  BY Anchors
<1>3. img.bytes \in Seq(Byte) /\ Len(img.bytes) \in Nat
  BY MachoTypes
<1>4. end + delta <= room
  <2>1. room = end + delta + (IF signed THEN 1 ELSE 0)
    BY DEF Grown
  <2> HIDE DEF room, end, delta
  <2> QED
    BY <1>1, <1>2, <2>1
<1>5. /\ \A i \in 1..start : new.bytes[i] = img.bytes[i]
      /\ \A i \in 1..Len(blob) : new.bytes[start + i] = blob[i]
      /\ \A i \in start + 1..end : new.bytes[i + delta] = img.bytes[i]
  BY DEF Grown
<1> HIDE DEF start, delta, end
<1>6. ASSUME NEW off \in Nat, NEW size \in Nat, off + size <= start
      PROVE  Slice(new.bytes, off, size) = Slice(img.bytes, off, size)
  <2>1. off + size <= room /\ off + size <= Len(img.bytes)
    BY <1>1, <1>2, <1>3, <1>4, <1>6
  <2>2. \A k \in 1..size : off + k \in 1..start
    BY <1>1, <1>6
  <2>3. SameRun(new.bytes, off, img.bytes, off, size)
    BY <1>5, <2>2 DEF SameRun
  <2> QED
    BY <1>1, <1>3, <2>1, <2>3, SameSlice
<1>7. ASSUME NEW off \in Nat, NEW size \in Nat, start <= off, off + size <= end
      PROVE  Slice(new.bytes, off + delta, size) = Slice(img.bytes, off, size)
  <2>1. (off + delta) + size <= room /\ off + size <= Len(img.bytes) /\ off + delta \in Nat
    BY <1>1, <1>2, <1>3, <1>4, <1>7
  <2>2. \A k \in 1..size : off + k \in start + 1..end /\ (off + k) + delta = (off + delta) + k
    BY <1>1, <1>2, <1>7
  <2>3. SameRun(new.bytes, off + delta, img.bytes, off, size)
    BY <1>5, <2>2 DEF SameRun
  <2> QED
    BY <1>1, <1>3, <2>1, <2>3, SameSlice
<1>8. Slice(new.bytes, start, Len(blob)) = blob
  <2>1. start + Len(blob) <= room /\ 0 + Len(blob) <= Len(blob) /\ 0 \in Nat
    BY <1>1, <1>2, <1>4
  <2>2. SameRun(new.bytes, start, blob, 0, Len(blob))
    BY <1>1, <1>5 DEF SameRun
  <2>3. Slice(new.bytes, start, Len(blob)) = Slice(blob, 0, Len(blob))
    BY <1>1, <2>1, <2>2, SameSlice
  <2>4. Slice(blob, 0, Len(blob)) = blob
    BY <1>1 DEF Slice
  <2> QED
    BY <2>3, <2>4
<1> QED
  BY <1>6, <1>7, <1>8 DEF SameFront, start, delta, end

\* The loader sees in the grown image what it saw before.
LEMMA GrownView ==
  ASSUME NEW img, MachoLinked(img), NEW le, Anchored(img, le),
         NEW blob \in Seq(Byte), NEW kind \in Kinds, NEW new, NEW signed \in BOOLEAN,
         Grown(img, le, new, blob, kind, signed)
  PROVE  LoaderView(new) = LoaderView(img)
<1> DEFINE m == Kept(img)
           start == img.cmds[le].fileoff
           delta == RoundUp(Len(blob), PageSize)
           end == LinkeditEnd(img)
           Plain(i) == { t \in AllSections(i) : ~Added(t.name) }
           Shown(i, s) == <<s.name, s.off, Content(i, s.off, s.size)>>
           Tables(i) == { i.cmds[j] : j \in { k \in Live(i) : i.cmds[k].cmd = "table" } }
           Entry(i, c) == <<c.name, c.fileoff = 0, Content(i, c.fileoff, c.filesize)>>
<1>1. img.fmt = "macho" /\ new.fmt = "macho"
  BY MachoTypes DEF Grown, MachoImage
<1>2. /\ LoaderView(img) = { Shown(img, s) : s \in Plain(img) }
                             \union { Entry(img, c) : c \in Tables(img) }
      /\ LoaderView(new) = { Shown(new, s) : s \in Plain(new) }
                             \union { Entry(new, c) : c \in Tables(new) }
  BY <1>1 DEF LoaderView
<1>3. Plain(new) = Plain(img)
  <2>1. Added(Section(kind, start, Len(blob)).name)
    BY DEF Section, Added
  <2> QED
    BY <2>1, GrownSections
<1>4. /\ \A off, size \in Nat : off + size <= start =>
           Slice(new.bytes, off, size) = Slice(img.bytes, off, size)
      /\ \A off, size \in Nat : start <= off /\ off + size <= end =>
           Slice(new.bytes, off + delta, size) = Slice(img.bytes, off, size)
  BY GrownContent DEF SameFront
<1>5. ASSUME NEW s \in Plain(img) PROVE Shown(new, s) = Shown(img, s)
  <2>1. s.off \in Nat /\ s.size \in Nat
    BY SectionTypes, MachoTypes
  <2>2. s.off = 0 \/ s.off + s.size <= start
    BY DEF Anchored, PartsInPlace
  <2> QED
    BY <1>4, <2>1, <2>2 DEF Content
<1>6. ASSUME NEW j \in 1..m, NEW i, From(img, new, le, delta, j, i), img.cmds[j].cmd = "table"
      PROVE  Entry(new, new.cmds[i]) = Entry(img, img.cmds[j])
  <2> DEFINE c == img.cmds[j]
             e == new.cmds[i]
  <2>1. j \in Live(img) /\ c \in Command
    BY Anchors, MachoTypes
  <2>2. SameCommand(c, e) /\ MovedTable(c, e, delta) /\ c.cmd = "table"
    BY <1>6 DEF From
  <2>3. c.fileoff # 0 => start <= c.fileoff /\ c.fileoff + c.filesize <= end
    BY <2>1, <2>2 DEF Anchored, PartsInPlace
  <2>4. c.fileoff \in Nat /\ c.filesize \in Nat
    BY <2>1, CommandFacts
  <2>5. delta \in Nat
    BY GrownNumbers
  <2> HIDE DEF c, e, start, end, delta
  <2>6. e.name = c.name /\ e.filesize = c.filesize
    BY <2>2 DEF SameCommand, MovedTable
  <2>7. CASE c.fileoff = 0
    <3>1. e.fileoff = 0
      BY <2>2, <2>7 DEF MovedTable
    <3> QED
      BY <2>6, <2>7, <3>1 DEF Content, c, e
  <2>8. CASE c.fileoff # 0
    <3>1. e.fileoff = c.fileoff + delta
      BY <2>2, <2>8 DEF MovedTable
    <3>2. e.fileoff # 0
      BY <2>4, <2>5, <2>8, <3>1
    <3>3. Slice(new.bytes, c.fileoff + delta, c.filesize) = Slice(img.bytes, c.fileoff, c.filesize)
      BY <1>4, <2>3, <2>4, <2>8
    <3>4. Content(new, e.fileoff, e.filesize) = Content(img, c.fileoff, c.filesize)
      BY <2>6, <2>8, <3>1, <3>2, <3>3 DEF Content
    <3> QED
      BY <2>6, <2>8, <3>2, <3>4 DEF c, e
  <2> QED
    BY <2>7, <2>8
<1>7. /\ \A i \in Live(new) : i = le \/ i = le + 1 \/ (signed /\ i = m + 2)
           \/ \E j \in 1..m : j # le /\ From(img, new, le, delta, j, i)
      /\ \A j \in 1..m :
           j # le => Place(le, j) \in Live(new) /\ From(img, new, le, delta, j, Place(le, j))
  BY GrownCases
<1>8. \A i \in Live(new) : new.cmds[i].cmd = "table" =>
        \E j \in 1..m : From(img, new, le, delta, j, i) /\ img.cmds[j].cmd = "table"
  <2>1. new.cmds[le].cmd = "segment"
    BY GrownParts DEF SmolOf
  <2>2. new.cmds[le + 1].cmd = "segment"
    BY DEF Grown
  <2>3. signed => SignatureOf(img, new, blob)
    BY GrownParts
  <2>4. signed => new.cmds[m + 2].cmd = "signature"
    BY <2>3 DEF SignatureOf
  <2> QED
    BY <1>7, <2>1, <2>2, <2>4 DEF From, SameCommand
<1>9. \A j \in Live(img) : img.cmds[j].cmd = "table" =>
        j \in 1..m /\ \E i \in Live(new) : From(img, new, le, delta, j, i)
  <2>1. SUFFICES ASSUME NEW j \in Live(img), img.cmds[j].cmd = "table"
                 PROVE  j \in 1..m /\ \E i \in Live(new) : From(img, new, le, delta, j, i)
    OBVIOUS
  <2>2. j # le
    BY <2>1 DEF Anchored, LinkeditLast
  <2>3. j \in 1..m
    <3>1. j \in 1..img.ncmds /\ img.ncmds \in Nat
      BY MachoTypes DEF Live
    <3>2. CASE CodeSig(img) = {}
      BY <3>1, <3>2 DEF Kept
    <3>3. CASE CodeSig(img) # {}
      <4>1. CodeSig(img) = {img.ncmds} /\ m = img.ncmds - 1
        BY <3>3, Anchors
      <4>2. j # img.ncmds
        BY <2>1, <4>1 DEF CodeSig
      <4> QED
        BY <3>1, <4>1, <4>2
    <3> QED
      BY <3>2, <3>3
  <2> QED
    BY <1>7, <2>2, <2>3
<1> HIDE DEF m, start, delta, end, Shown, Entry
<1>10. ASSUME NEW c \in Tables(new)
       PROVE  \E e \in Tables(img) : Entry(new, c) = Entry(img, e)
  <2>1. PICK i \in Live(new) : new.cmds[i].cmd = "table" /\ c = new.cmds[i]
    OBVIOUS
  <2>2. PICK j \in 1..m : From(img, new, le, delta, j, i) /\ img.cmds[j].cmd = "table"
    BY <1>8, <2>1
  <2>3. j \in Live(img)
    BY Anchors DEF m
  <2> QED
    BY <1>6, <2>1, <2>2, <2>3
<1>11. ASSUME NEW e \in Tables(img)
       PROVE  \E c \in Tables(new) : Entry(new, c) = Entry(img, e)
  <2>1. PICK j \in Live(img) : img.cmds[j].cmd = "table" /\ e = img.cmds[j]
    OBVIOUS
  <2>2. j \in 1..m
    BY <1>9, <2>1
  <2>3. PICK i \in Live(new) : From(img, new, le, delta, j, i)
    BY <1>9, <2>1
  <2>4. new.cmds[i].cmd = "table"
    BY <2>1, <2>3 DEF From, SameCommand
  <2> QED
    BY <1>6, <2>1, <2>2, <2>3, <2>4
<1>12. { Shown(new, s) : s \in Plain(new) } = { Shown(img, s) : s \in Plain(img) }
  BY <1>3, <1>5
<1> HIDE DEF Tables
<1>13. { Entry(new, c) : c \in Tables(new) } = { Entry(img, c) : c \in Tables(img) }
  BY <1>10, <1>11
<1> QED
  BY <1>2, <1>12, <1>13

----------------------------------------------------------------------------
(* Mach-O chains: what a reader finds.                                     *)

(* The injected segments stand in a row before __LINKEDIT, oldest first,   *)
(* each with its one section and the blob that went in.                    *)
MachoChain(img, base, chain) ==
    /\ \A i \in Live(img) :
         img.cmds[i].name = "SMOL" <=> i \in base + 1..base + Len(chain)
    /\ \A j \in 1..Len(chain) : \E off \in Nat :
         /\ base + j \in Live(img)
         /\ img.cmds[base + j].sects = <<Section(chain[j].kind, off, chain[j].len)>>
         /\ off + chain[j].len <= img.cmds[base + Len(chain) + 1].fileoff
         /\ Slice(img.bytes, off, chain[j].len) = BlobOf(chain[j])

\* The reader of a Mach-O finds the first section of a kind that went in.
LEMMA MachoReadable ==
  ASSUME NEW img, MachoLinked(img), NEW base \in Nat, NEW chain \in Seq(Packing),
         MachoChain(img, base, chain), Walkable(img)
  PROVE  Readable(img, chain)
<1> SUFFICES ASSUME NEW kind \in Kinds
             PROVE  IF OfKind(chain, kind) = {} THEN Find(img, kind) = <<>>
                    ELSE \E n \in Nat : Find(img, kind)
                           = BlobOf(chain[Min(OfKind(chain, kind))]) \o Zeros(n)
  BY DEF Readable
<1> DEFINE of == OfKind(chain, kind)
           Holds(i) == /\ img.cmds[i].name = "SMOL"
                       /\ \E s \in Range(img.cmds[i].sects) : s.name = kind
           hits == { i \in Live(img) : /\ i <= MaxLoadCommands /\ Holds(i)
                                       /\ \A j \in 1..i : img.cmds[j].size # 0 }
<1>1. /\ Len(chain) \in Nat /\ DOMAIN chain = 1..Len(chain)
      /\ img.fmt = "macho" /\ img.ncmds \in Nat /\ Live(img) = 1..img.ncmds
  BY MachoTypes DEF Live
<1>2. \A i \in Live(img) : \A j \in 1..i : img.cmds[j].size # 0
  <2>1. \A i \in Live(img) : \A j \in 1..i : j \in Live(img)
    BY <1>1
  <2>2. \A j \in Live(img) : img.cmds[j].size > 0
    BY DEF MachoLinked
  <2>3. \A j \in Live(img) : img.cmds[j].size # 0
    BY <2>2
  <2> QED
    BY <2>1, <2>3
<1>3. \A j \in 1..Len(chain) :
        /\ base + j \in Live(img) /\ img.cmds[base + j].name = "SMOL"
        /\ base + j <= MaxLoadCommands
        /\ (\E s \in Range(img.cmds[base + j].sects) : s.name = kind) <=> chain[j].kind = kind
  <2>1. SUFFICES ASSUME NEW j \in 1..Len(chain)
                 PROVE  /\ base + j \in Live(img) /\ img.cmds[base + j].name = "SMOL"
                        /\ base + j <= MaxLoadCommands
                        /\ (\E s \in Range(img.cmds[base + j].sects) : s.name = kind)
                             <=> chain[j].kind = kind
    OBVIOUS
  <2>2. PICK off \in Nat :
          /\ base + j \in Live(img)
          /\ img.cmds[base + j].sects = <<Section(chain[j].kind, off, chain[j].len)>>
    BY DEF MachoChain
  <2>3. base + j \in base + 1..base + Len(chain)
    BY <1>1
  <2> DEFINE sect == Section(chain[j].kind, off, chain[j].len)
  <2>4. Range(<<sect>>) = {sect}
    BY DEF Range
  <2>5. sect.name = chain[j].kind
    BY DEF Section
  <2>6. base + j <= MaxLoadCommands
    BY <1>1, <2>2, <2>3 DEF MachoChain, Walkable
  <2> QED
    BY <2>2, <2>3, <2>4, <2>5, <2>6 DEF MachoChain
<1>4. hits = { base + j : j \in of }
  <2>1. ASSUME NEW i \in hits PROVE \E j \in of : i = base + j
    <3>1. i \in base + 1..base + Len(chain) /\ Holds(i)
      BY DEF MachoChain
    <3>2. i - base \in 1..Len(chain) /\ i = base + (i - base)
      BY <1>1, <3>1
    <3>3. chain[i - base].kind = kind
      BY <1>3, <3>1, <3>2
    <3>4. i - base \in of
      BY <1>1, <3>2, <3>3 DEF OfKind
    <3> QED
      BY <3>2, <3>4
  <2>2. ASSUME NEW j \in of PROVE base + j \in hits
    <3>1. j \in 1..Len(chain) /\ chain[j].kind = kind
      BY <1>1 DEF OfKind
    <3> QED
      BY <1>2, <1>3, <3>1
  <2> QED
    BY <2>1, <2>2
<1> DEFINE sect == CHOOSE s \in Range(img.cmds[Min(hits)].sects) : s.name = kind
<1>5. Find(img, kind) = IF hits = {} THEN <<>> ELSE Slice(img.bytes, sect.off, sect.size)
  BY <1>1 DEF Find, FindMacho
<1> HIDE DEF hits
<1>6. CASE of = {}
  <2>1. hits = {}
    BY <1>4, <1>6
  <2> QED
    BY <1>5, <1>6, <2>1
<1>7. CASE of # {}
  <2> DEFINE first == Min(of)
  <2>1. hits # {} /\ first \in 1..Len(chain) /\ Min(hits) = base + first /\ chain[first].kind = kind
    <3>1. hits # {} /\ first \in 1..Len(chain) /\ Min(hits) = base + first /\ first \in of
      BY <1>4, <1>7, FirstHit
    <3> QED
      BY <3>1 DEF OfKind
  <2> HIDE DEF first
  <2>2. PICK off \in Nat :
          /\ img.cmds[base + first].sects = <<Section(chain[first].kind, off, chain[first].len)>>
          /\ Slice(img.bytes, off, chain[first].len) = BlobOf(chain[first])
    BY <2>1 DEF MachoChain
  <2>3. sect = Section(kind, off, chain[first].len)
    <3> DEFINE one == Section(kind, off, chain[first].len)
    <3>1. Range(<<one>>) = {one} /\ one.name = kind
      BY DEF Range, Section
    <3> HIDE DEF one
    <3>2. Range(img.cmds[Min(hits)].sects) = {one}
      BY <2>1, <2>2, <3>1 DEF one
    <3> QED
      BY <3>1, <3>2 DEF one
  <2>4. Find(img, kind) = BlobOf(chain[first])
    <3>1. \A k, o, z : Section(k, o, z).off = o /\ Section(k, o, z).size = z
      BY DEF Section
    <3> HIDE DEF sect
    <3> QED
      BY <1>5, <2>1, <2>2, <2>3, <3>1
  <2>5. BlobOf(chain[first]) = BlobOf(chain[first]) \o Zeros(0)
    <3>1. chain[first] \in Packing
      BY <2>1
    <3>2. BlobOf(chain[first]) \in Seq(Byte)
      BY <3>1, BlobOfFacts
    <3>3. Zeros(0) = <<>>
      BY DEF Zeros
    <3> QED
      BY <3>2, <3>3
  <2> QED
    BY <1>7, <2>4, <2>5 DEF first
<1> QED
  BY <1>6, <1>7

\* One more injection, one more segment at the end of the row.
LEMMA MachoChainStep ==
  ASSUME NEW img, MachoLinked(img), NEW base \in Nat, NEW chain \in Seq(Packing),
         NEW le, le = base + Len(chain) + 1, Anchored(img, le),
         MachoChain(img, base, chain), NEW p \in Packing, NEW new, NEW signed \in BOOLEAN,
         Grown(img, le, new, BlobOf(p), p.kind, signed)
  PROVE  MachoChain(new, base, Append(chain, p))
<1> DEFINE blob == BlobOf(p)
           n == Len(chain)
           more == Append(chain, p)
           m == Kept(img)
           delta == RoundUp(Len(blob), PageSize)
           start == img.cmds[le].fileoff
<1>1. blob \in Seq(Byte) /\ Len(blob) = p.len /\ p.kind \in Kinds /\ p.len \in Nat
  BY BlobOfFacts DEF Packing
<1>2. /\ more \in Seq(Packing) /\ Len(more) = n + 1 /\ n \in Nat /\ more[n + 1] = p
      /\ \A j \in 1..n : more[j] = chain[j]
  BY AppendProperties
<1>3. /\ start \in Nat /\ delta \in Nat /\ Len(blob) <= delta
      /\ new.cmds[le + 1].fileoff = start + delta /\ new.cmds[le + 1].name = "__LINKEDIT"
  BY <1>1, GrownNumbers, SMTT(30)
<1>4. /\ le \in Live(new) /\ le + 1 \in Live(new)
      /\ \A i \in Live(new) : i = le \/ i = le + 1 \/ (signed /\ i = m + 2)
           \/ \E j \in 1..m : j # le /\ From(img, new, le, delta, j, i)
      /\ \A j \in 1..m :
           j # le => Place(le, j) \in Live(new) /\ From(img, new, le, delta, j, Place(le, j))
  BY <1>1, GrownCases
<1>5. /\ new.cmds[le].name = "SMOL"
      /\ new.cmds[le].sects = <<Section(p.kind, start, Len(blob))>>
  BY <1>1, GrownParts DEF SmolOf
<1>6. signed => new.ncmds = m + 2 /\ new.cmds[m + 2].name # "SMOL"
  <2>1. signed => SignatureOf(img, new, blob)
    BY <1>1, GrownParts
  <2> QED
    BY <2>1 DEF SignatureOf
<1>7. /\ le \in Nat /\ m \in Nat /\ le \in 1..m /\ \A j \in 1..m : j \in Live(img)
  BY Anchors
<1>8. /\ \A off, size \in Nat : off + size <= start =>
           Slice(new.bytes, off, size) = Slice(img.bytes, off, size)
      /\ Slice(new.bytes, start, Len(blob)) = blob
  <2>1. \A off, size \in Nat : off + size <= start =>
           Slice(new.bytes, off, size) = Slice(img.bytes, off, size)
    <3>1. SameFront(img, new, img.cmds[le].fileoff)
      BY <1>1, GrownContent
    <3> QED
      BY <3>1 DEF SameFront
  <2>2. Slice(new.bytes, start, Len(blob)) = blob
    BY <1>1, GrownContent
  <2> QED
    BY <2>1, <2>2
<1>9. /\ \A i \in Live(img) : img.cmds[i].name = "SMOL" <=> i \in base + 1..base + n
      /\ \A j \in 1..n : \E off \in Nat :
           /\ img.cmds[base + j].sects = <<Section(chain[j].kind, off, chain[j].len)>>
           /\ off + chain[j].len <= start
           /\ Slice(img.bytes, off, chain[j].len) = BlobOf(chain[j])
  BY DEF MachoChain
<1> HIDE DEF blob, n, more, m, delta, start
<1>10. le = base + n + 1
  BY DEF n
<1>11. ASSUME NEW i \in Live(new)
       PROVE  new.cmds[i].name = "SMOL" <=> i \in base + 1..base + (n + 1)
  <2>1. CASE i = le
    BY <1>2, <1>5, <1>10, <2>1
  <2>2. CASE i = le + 1
    BY <1>2, <1>3, <1>10, <2>2, SMTT(30)
  <2>3. CASE signed /\ i = m + 2
    <3>1. i \notin base + 1..base + (n + 1)
      BY <1>2, <1>7, <1>10, <2>3
    <3> QED
      BY <1>6, <2>3, <3>1
  <2>4. CASE \E j \in 1..m : j # le /\ From(img, new, le, delta, j, i)
    <3>1. PICK j \in 1..m : j # le /\ From(img, new, le, delta, j, i)
      BY <2>4
    <3>2. new.cmds[i].name = img.cmds[j].name /\ i = Place(le, j)
      BY <3>1 DEF From, SameCommand
    <3>3. i \in base + 1..base + (n + 1) <=> j \in base + 1..base + n
      BY <1>2, <1>7, <1>10, <3>1, <3>2 DEF Place
    <3> QED
      BY <1>7, <1>9, <3>2, <3>3
  <2> QED
    BY <1>4, <2>1, <2>2, <2>3, <2>4
<1>12. ASSUME NEW j \in 1..n + 1
       PROVE  \E off \in Nat :
                /\ base + j \in Live(new)
                /\ new.cmds[base + j].sects = <<Section(more[j].kind, off, more[j].len)>>
                /\ off + more[j].len <= new.cmds[base + (n + 1) + 1].fileoff
                /\ Slice(new.bytes, off, more[j].len) = BlobOf(more[j])
  <2>1. base + (n + 1) + 1 = le + 1 /\ base + (n + 1) = le
    BY <1>2, <1>10
  <2>2. CASE j = n + 1
    <3>1. start + p.len <= start + delta
      BY <1>1, <1>3
    <3> QED
      BY <1>1, <1>2, <1>3, <1>4, <1>5, <1>8, <2>1, <2>2, <3>1 DEF blob
  <2>3. CASE j # n + 1
    <3>1. j \in 1..n /\ base + j \in 1..m /\ base + j # le /\ base + j < le
      BY <1>2, <1>7, <1>10, <2>3
    <3>2. Place(le, base + j) = base + j
      BY <3>1 DEF Place
    <3>3. base + j \in Live(new) /\ new.cmds[base + j].sects = img.cmds[base + j].sects
      BY <1>4, <3>1, <3>2 DEF From, SameCommand
    <3>4. PICK off \in Nat :
            /\ img.cmds[base + j].sects = <<Section(chain[j].kind, off, chain[j].len)>>
            /\ off + chain[j].len <= start
            /\ Slice(img.bytes, off, chain[j].len) = BlobOf(chain[j])
      BY <1>9, <3>1
    <3>5. chain[j].len \in Nat
      <4>1. chain[j] \in Packing
        BY <3>1 DEF n
      <4> QED
        BY <4>1, BlobOfFacts
    <3>6. Slice(new.bytes, off, chain[j].len) = BlobOf(chain[j])
      BY <1>8, <3>4, <3>5
    <3>7. off + chain[j].len <= start + delta
      BY <1>3, <3>4, <3>5
    <3> QED
      BY <1>2, <1>3, <2>1, <3>1, <3>3, <3>4, <3>6, <3>7
  <2> QED
    BY <2>2, <2>3
<1> QED
  BY <1>2, <1>11, <1>12 DEF MachoChain, more

----------------------------------------------------------------------------
(* Mach-O chains: the room they take, and what an injection keeps.         *)

LEMMA NoSigInBlob ==
  ASSUME NEW p \in Packing
  PROVE  Unsigned(BlobOf(p))
<1>1. Len(BlobOf(p)) = p.len /\ p.kind \in Kinds
  BY BlobOfFacts DEF Packing
<1>2. \A i \in 1..p.len : BlobOf(p)[i] = Atom(p.kind, p.addon, i, p.len)
  BY DEF BlobOf, Blob
<1>3. p.kind # "sig"
  BY <1>1 DEF Kinds
<1> QED
  BY <1>1, <1>2, <1>3 DEF Atom, Unsigned

(* What the next injection takes beside its own command: the place for the *)
(* signature's, unless the image has one that is given back.               *)
Pending(machine, img) ==
    IF machine = "macos" /\ CodeSig(img) = {} THEN SigLcSize ELSE 0

MachoGood(machine, stub, img, chain) ==
    /\ MachoLinked(img)
    /\ \E base \in Nat : /\ Anchored(img, base + Len(chain) + 1)
                         /\ MachoChain(img, base, chain)
    /\ FirstSection(img) = FirstSection(stub)
    /\ EndOfLc(img) + Pending(machine, img)
         <= EndOfLc(stub) + Len(chain) * NewLcSize + Pending(machine, stub)

Fresh(machine, img) ==
    IF machine = "macos"
    THEN /\ CodeSig(img) = {img.ncmds}
         /\ SigAtoms(img) = {Len(img.bytes)}
         /\ LinkeditEnd(img) = Len(img.bytes) - 1
         /\ Last(img.bytes) = Atom("sig", SmolCount(img), 1, 1)
    ELSE CodeSig(img) = {} /\ SigAtoms(img) = {}

LEMMA EndTypes ==
  ASSUME NEW img, MachoLinked(img)
  PROVE  EndOfLc(img) \in Nat /\ FirstSection(img) \in Nat
<1>1. PICK le : Anchored(img, le)
  BY DEF MachoLinked, Anchored
<1>2. FirstSection(img) \in Nat
  BY <1>1, FirstSectionFacts
<1>3. img \in MachoImage /\ img.ncmds <= Len(img.cmds) /\ img.ncmds \in Nat
  BY MachoTypes
<1>4. img.ncmds \in 0..img.ncmds
  BY <1>3
<1> QED
  BY <1>2, <1>3, <1>4, LcEndsFacts DEF EndOfLc

\* The range guard never stops an image with room in its slack.
LEMMA InOrder ==
  ASSUME NEW img, MachoLinked(img), SlackFits(img)
  PROVE  InFileOrder(img)
<1>1. PICK le : Anchored(img, le)
  BY DEF MachoLinked, Anchored
<1>2. /\ Linkedit(img) = le /\ img.cmds[le].fileoff <= LinkeditEnd(img)
      /\ LinkeditEnd(img) <= Len(img.bytes)
  BY <1>1, Anchors
<1>3. /\ FirstSection(img) \in Nat /\ FirstSection(img) <= img.cmds[le].fileoff
      /\ img.cmds[le].fileoff \in Nat
  BY <1>1, FirstSectionFacts
<1>4. EndOfLc(img) \in Nat
  BY EndTypes
<1>5. FirstSection(img) - EndOfLc(img) >= NewLcSize /\ NewLcSize = 2
  BY DEF SlackFits, NewLcSize
<1>6. EndOfLc(img) + NewLcSize <= img.cmds[le].fileoff
  BY <1>3, <1>4, <1>5
<1> QED
  BY <1>2, <1>6 DEF InFileOrder

\* An injection into a good image gives a good image that is signed afresh or not at all.
LEMMA MachoInject ==
  ASSUME NEW machine, NEW stub, MachoLinked(stub), NEW img, NEW chain \in Seq(Packing),
         MachoGood(machine, stub, img, chain), NEW p \in Packing, SlackFits(img),
         machine = "macos" => CanSign(SpliceMacho(img, BlobOf(p), p.kind)),
         NEW new, new = IF machine = "macos" THEN Resign(SpliceMacho(img, BlobOf(p), p.kind))
                        ELSE SpliceMacho(img, BlobOf(p), p.kind)
  PROVE  /\ MachoGood(machine, stub, new, Append(chain, p))
         /\ LoaderView(new) = LoaderView(img)
         /\ Fresh(machine, new)
<1> DEFINE blob == BlobOf(p)
           mid == SpliceMacho(img, BlobOf(p), p.kind)
<1>1. blob \in Seq(Byte) /\ p.kind \in Kinds /\ Unsigned(blob)
  BY BlobOfFacts, NoSigInBlob DEF Packing
<1>2. PICK base \in Nat : Anchored(img, base + Len(chain) + 1) /\ MachoChain(img, base, chain)
  BY DEF MachoGood
<1> DEFINE le == base + Len(chain) + 1
<1>3. MachoLinked(img) /\ Anchored(img, le) /\ le = base + Len(chain) + 1
  BY <1>2 DEF MachoGood
<1>4. PICK signed \in BOOLEAN : signed <=> machine = "macos"
  OBVIOUS
<1>0. FALSE \in BOOLEAN
  OBVIOUS
<1>5. FirstSection(img) = FirstSection(stub)
      /\ EndOfLc(img) + Pending(machine, img)
           <= EndOfLc(stub) + Len(chain) * NewLcSize + Pending(machine, stub)
  BY DEF MachoGood
<1> HIDE DEF blob, le, mid
<1>6. Grown(img, le, mid, blob, p.kind, FALSE)
  BY <1>1, <1>3, SpliceGrows DEF mid, blob
<1>7. Grown(img, le, new, blob, p.kind, signed)
  <2>1. CASE signed
    <3>1. new = Resign(mid) /\ signed = TRUE
      BY <1>4, <2>1 DEF mid
    <3>2. Grown(img, le, Resign(mid), blob, p.kind, TRUE)
      BY <1>1, <1>3, <1>6, ResignGrows
    <3> QED
      BY <3>1, <3>2
  <2>2. CASE ~signed
    <3>1. new = mid /\ signed = FALSE
      BY <1>4, <2>2 DEF mid
    <3> QED
      BY <1>6, <3>1
  <2> QED
    BY <2>1, <2>2
<1>8. /\ FirstSection(mid) = FirstSection(img) /\ EndOfLc(mid) \in Nat /\ EndOfLc(img) \in Nat
      /\ EndOfLc(mid) + SigRoom(img) = EndOfLc(img) + NewLcSize + 0
  BY <1>0, <1>1, <1>3, <1>6, GrownFirst, GrownWalk, ZenonT(60)
<1>9. /\ FirstSection(new) = FirstSection(img) /\ EndOfLc(new) \in Nat
      /\ EndOfLc(new) + SigRoom(img)
           = EndOfLc(img) + NewLcSize + (IF signed THEN SigLcSize ELSE 0)
  BY <1>1, <1>3, <1>4, <1>7, GrownFirst, GrownWalk
<1>10. FirstSection(img) \in Nat /\ EndOfLc(stub) \in Nat /\ Len(chain) \in Nat
  BY <1>3, EndTypes
<1>11. NewLcSize = 2 /\ SigLcSize = 1 /\ SigRoom(img) \in {0, 1}
  BY DEF NewLcSize, SigLcSize, SigRoom
<1>12. EndOfLc(new) <= FirstSection(new)
  <2>1. CASE signed
    <3>1. EndOfLc(mid) + 1 <= FirstSection(mid)
      BY <1>4, <1>11, <2>1 DEF CanSign, mid
    <3>2. EndOfLc(new) = EndOfLc(mid) + 1
      BY <1>8, <1>9, <1>11, <2>1
    <3> QED
      BY <1>8, <1>9, <3>1, <3>2
  <2>2. CASE ~signed
    <3>1. EndOfLc(img) + 2 <= FirstSection(img)
      BY <1>8, <1>10, <1>11 DEF SlackFits
    <3>2. EndOfLc(new) <= EndOfLc(img) + 2
      BY <1>8, <1>9, <1>11, <2>2
    <3> QED
      BY <1>8, <1>9, <1>10, <3>1, <3>2
  <2> QED
    BY <2>1, <2>2
<1>13. MachoLinked(new) /\ Anchored(new, le + 1)
  BY <1>1, <1>3, <1>4, <1>7, <1>12, GrownLinked
<1>14. LoaderView(new) = LoaderView(img)
  BY <1>1, <1>3, <1>4, <1>7, GrownView
<1>15. MachoChain(new, base, Append(chain, p))
  BY <1>2, <1>3, <1>4, <1>7, MachoChainStep DEF blob
<1>16. /\ CodeSig(new) = IF signed THEN {new.ncmds} ELSE {}
       /\ Len(new.bytes) = LinkeditEnd(new) + (IF signed THEN 1 ELSE 0)
       /\ SigAtoms(new) = IF signed THEN {Len(new.bytes)} ELSE {}
  <2>1. SignedAt(new, signed, LinkeditEnd(img) + RoundUp(Len(blob), PageSize))
    BY <1>1, <1>3, <1>4, <1>7, GrownSignature
  <2> QED
    BY <2>1 DEF SignedAt
<1>17. Fresh(machine, new)
  <2>1. CASE signed
    <3>1. LinkeditEnd(new) \in Nat
      BY <1>13, Anchors
    <3>2. Len(new.bytes) = LinkeditEnd(new) + 1
      BY <1>16, <2>1
    <3>3. LinkeditEnd(new) = Len(new.bytes) - 1
      BY <3>1, <3>2
    <3>4. new.bytes[Len(new.bytes)] = Atom("sig", SmolCount(new), 1, 1)
      BY <1>7, <1>16, <2>1, <3>2 DEF Grown
    <3> QED
      BY <1>4, <1>16, <2>1, <3>3, <3>4 DEF Fresh, Last
  <2>2. CASE ~signed
    BY <1>4, <1>16, <2>2 DEF Fresh
  <2> QED
    BY <2>1, <2>2
<1>18. Len(Append(chain, p)) = Len(chain) + 1
  OBVIOUS
<1>19. EndOfLc(new) + Pending(machine, new)
         <= EndOfLc(stub) + (Len(chain) + 1) * NewLcSize + Pending(machine, stub)
  <2>1. Pending(machine, stub) \in Nat
    BY <1>11 DEF Pending
  <2>2. Pending(machine, new) = 0
    BY <1>4, <1>16 DEF Pending
  <2>3. EndOfLc(new) <= EndOfLc(img) + Pending(machine, img) + 2
    <3>1. CASE signed
      <4>1. Pending(machine, img) = 1 - SigRoom(img)
        BY <1>4, <1>11, <3>1 DEF Pending, SigRoom
      <4> QED
        BY <1>8, <1>9, <1>11, <3>1, <4>1
    <3>2. CASE ~signed
      <4>1. Pending(machine, img) = 0
        BY <1>4, <3>2 DEF Pending
      <4> QED
        BY <1>8, <1>9, <1>11, <3>2, <4>1
    <3> QED
      BY <3>1, <3>2
  <2>4. Pending(machine, img) \in Nat
    BY <1>11 DEF Pending
  <2> QED
    BY <1>5, <1>8, <1>9, <1>10, <1>11, <2>1, <2>2, <2>3, <2>4, SMTT(30)
<1>20. base + Len(Append(chain, p)) + 1 = le + 1
  BY <1>3, <1>10, <1>18
<1>21. MachoGood(machine, stub, new, Append(chain, p))
  BY <1>5, <1>9, <1>13, <1>15, <1>18, <1>19, <1>20 DEF MachoGood
<1> QED
  BY <1>14, <1>17, <1>21

\* What is refused for want of room would not have fitted the stub.
LEMMA MachoTight ==
  ASSUME NEW machine, NEW stub, MachoLinked(stub), NEW img, NEW chain \in Seq(Packing),
         MachoGood(machine, stub, img, chain), NEW p \in Packing,
         \/ ~SlackFits(img)
         \/ machine = "macos" /\ ~CanSign(SpliceMacho(img, BlobOf(p), p.kind))
  PROVE  FirstSection(stub) - EndOfLc(stub)
           < (Len(chain) + 1) * NewLcSize + Pending(machine, stub)
<1> DEFINE mid == SpliceMacho(img, BlobOf(p), p.kind)
<1>1. MachoLinked(img) /\ FirstSection(img) = FirstSection(stub)
      /\ EndOfLc(img) + Pending(machine, img)
           <= EndOfLc(stub) + Len(chain) * NewLcSize + Pending(machine, stub)
  BY DEF MachoGood
<1>2. /\ EndOfLc(img) \in Nat /\ FirstSection(img) \in Nat
      /\ EndOfLc(stub) \in Nat /\ FirstSection(stub) \in Nat /\ Len(chain) \in Nat
  BY <1>1, EndTypes
<1>3. NewLcSize = 2 /\ SigLcSize = 1
  BY DEF NewLcSize, SigLcSize
<1>4. Pending(machine, img) \in Nat /\ Pending(machine, stub) \in Nat
  BY <1>3 DEF Pending
<1>5. FirstSection(img) < EndOfLc(img) + Pending(machine, img) + 2
  <2>1. CASE ~SlackFits(img)
    BY <1>2, <1>3, <1>4, <2>1 DEF SlackFits
  <2>2. CASE machine = "macos" /\ ~CanSign(mid)
    <3>1. PICK base \in Nat : Anchored(img, base + Len(chain) + 1)
      BY DEF MachoGood
    <3> DEFINE le == base + Len(chain) + 1
               blob == BlobOf(p)
    <3>2. blob \in Seq(Byte) /\ p.kind \in Kinds /\ Anchored(img, le)
      BY <3>1, BlobOfFacts DEF Packing
    <3>3. FALSE \in BOOLEAN
      OBVIOUS
    <3> HIDE DEF le
    <3>4. Grown(img, le, mid, blob, p.kind, FALSE)
      BY <1>1, <3>2, SpliceGrows
    <3> HIDE DEF blob, mid
    <3>5. /\ FirstSection(mid) = FirstSection(img) /\ EndOfLc(mid) \in Nat
          /\ EndOfLc(mid) + SigRoom(img) = EndOfLc(img) + NewLcSize + 0
      BY <1>1, <3>2, <3>3, <3>4, GrownFirst, GrownWalk
    <3>6. SigRoom(img) \in {0, 1} /\ Pending(machine, img) = 1 - SigRoom(img)
      BY <2>2 DEF SigRoom, Pending, SigLcSize
    <3>7. ~(EndOfLc(mid) + 1 <= FirstSection(mid))
      BY <1>3, <2>2 DEF CanSign
    <3> QED
      BY <1>2, <1>3, <3>5, <3>6, <3>7
  <2> QED
    BY <2>1, <2>2
<1> QED
  BY <1>1, <1>2, <1>3, <1>4, <1>5

----------------------------------------------------------------------------
(* Chains of commands.                                                     *)

LinkedInv ==
    /\ origin.fmt = "elf" => ElfLinked(image) /\ ElfChain(origin, image, packed)
    /\ origin.fmt = "pe" => PeLinked(image) /\ PeChain(origin, image, packed)
    /\ origin.fmt = "macho" => MachoGood(host, origin, image, packed)

IInv ==
    /\ host \in Hosts /\ origin \in Stubs /\ verdict \in Verdicts
    /\ packed \in Seq(Packing) /\ Len(packed) <= MaxChain
    /\ image.fmt = origin.fmt
    /\ LinkedInv
    /\ LoaderViewKept /\ SignatureFresh /\ RefusedOnlyWhenTight

LEMMA StubFacts ==
  ASSUME NEW stub \in Stubs
  PROVE  /\ stub.fmt \in Formats /\ Raw(stub)
         /\ stub.fmt = "macho" => MachoLinked(stub)
         /\ stub.fmt = "elf" => ElfLinked(stub) /\ stub \in ElfImage
         /\ stub.fmt = "pe" => PeLinked(stub) /\ stub \in PeImage
<1>1. /\ stub.fmt \in Formats /\ Raw(stub)
      /\ stub.fmt = "macho" => MachoLinked(stub)
      /\ stub.fmt = "elf" => ElfLinked(stub)
      /\ stub.fmt = "pe" => PeLinked(stub)
  BY StubsAssumption
<1> QED
  BY <1>1 DEF ElfLinked, PeLinked

\* A stub starts an empty chain, in each of the formats.
LEMMA RawMacho ==
  ASSUME NEW machine, NEW stub, MachoLinked(stub), Raw(stub)
  PROVE  MachoGood(machine, stub, stub, <<>>)
<1>1. PICK le : Anchored(stub, le)
  BY DEF MachoLinked, Anchored
<1>2. le \in Nat /\ le \in 1..stub.ncmds
  BY <1>1, Anchors
<1>3. Len(<<>>) = 0
  OBVIOUS
<1>4. PICK base \in Nat : le = base + Len(<<>>) + 1
  <2>1. le - 1 \in Nat /\ le = (le - 1) + 0 + 1
    BY <1>2
  <2> QED
    BY <1>3, <2>1
<1>5. \A i \in Live(stub) : stub.cmds[i].name # "SMOL"
  BY MachoTypes DEF Raw
<1>6. base + 1..base + Len(<<>>) = {} /\ 1..Len(<<>>) = {}
  BY <1>3
<1>7. MachoChain(stub, base, <<>>)
  BY <1>5, <1>6 DEF MachoChain
<1>8. EndOfLc(stub) \in Nat /\ Pending(machine, stub) \in Nat
  BY EndTypes DEF Pending, SigLcSize
<1>9. EndOfLc(stub) + Pending(machine, stub)
        <= EndOfLc(stub) + Len(<<>>) * NewLcSize + Pending(machine, stub)
  BY <1>3, <1>8 DEF NewLcSize
<1> QED
  BY <1>1, <1>4, <1>7, <1>9 DEF MachoGood

LEMMA RawElf ==
  ASSUME NEW stub, ElfLinked(stub), Raw(stub)
  PROVE  ElfChain(stub, stub, <<>>)
<1>1. stub.fmt = "elf" /\ DOMAIN stub.sects = 1..Len(stub.sects) /\ Len(stub.sects) \in Nat
  <2>1. stub.sects \in Seq(ElfSect) /\ stub.fmt = "elf"
    BY DEF ElfLinked, ElfImage, ElfSect
  <2> QED
    BY <2>1
<1>2. Len(<<>>) = 0 /\ 1..Len(<<>>) = {} /\ Len(stub.sects) = Len(stub.sects) + Len(<<>>)
  BY <1>1
<1>3. stub.strndx \in 1..Len(stub.sects)
  BY <1>1 DEF ElfLinked
<1> QED
  BY <1>1, <1>2, <1>3 DEF ElfChain, Raw

LEMMA RawPe ==
  ASSUME NEW stub, PeLinked(stub), Raw(stub)
  PROVE  PeChain(stub, stub, <<>>)
<1>1. stub.fmt = "pe" /\ DOMAIN stub.sects = 1..Len(stub.sects) /\ Len(stub.sects) \in Nat
  <2>1. stub.sects \in Seq(PeSect) /\ stub.fmt = "pe"
    BY DEF PeLinked, PeImage, PeSect
  <2> QED
    BY <2>1
<1>2. Len(<<>>) = 0 /\ 1..Len(<<>>) = {} /\ Len(stub.sects) = Len(stub.sects) + Len(<<>>)
  BY <1>1
<1>3. \A i \in 1..Len(stub.sects) : stub.sects[i].name \notin Kinds
  <2>1. \A i \in 1..Len(stub.sects) : stub.sects[i] \in Range(stub.sects)
    BY <1>1 DEF Range
  <2> QED
    BY <1>1, <2>1 DEF Raw, Added
<1> QED
  BY <1>2, <1>3 DEF PeChain

LEMMA InitInductive == Init => IInv
<1> SUFFICES ASSUME Init PROVE IInv
  OBVIOUS
<1>1. /\ host \in Hosts /\ origin \in Stubs /\ image = origin
      /\ packed = <<>> /\ verdict = "ok"
  BY DEF Init
<1>2. packed \in Seq(Packing) /\ Len(packed) = 0 /\ 0 <= MaxChain
  BY <1>1, ChainAssumption
<1>3. LinkedInv
  BY <1>1, StubFacts, RawElf, RawPe, RawMacho DEF LinkedInv
<1>4. LoaderViewKept /\ SignatureFresh /\ RefusedOnlyWhenTight
  BY <1>1 DEF LoaderViewKept, SignatureFresh, RefusedOnlyWhenTight
<1> QED
  BY <1>1, <1>2, <1>3, <1>4 DEF IInv, Verdicts

\* A command that goes through, format by format.
LEMMA InjectInductive ==
  ASSUME IInv, Len(packed) < MaxChain, NEW p \in Packing,
         Inject(p.kind, p.addon, BlobOf(p))
  PROVE  IInv'
<1> DEFINE blob == BlobOf(p)
<1>1. blob \in Seq(Byte) /\ Len(blob) = p.len /\ Len(blob) # 0 /\ p.kind \in Kinds
  BY BlobOfFacts DEF Packing
<1>2. /\ InjectVerdict(image, blob, p.kind) = "ok" /\ image' = Injected(image, blob, p.kind)
      /\ packed' = Append(packed, [kind |-> p.kind, addon |-> p.addon, len |-> Len(blob)])
      /\ verdict' = "ok" /\ host' = host /\ origin' = origin
  BY DEF Inject
<1>3. p = [kind |-> p.kind, addon |-> p.addon, len |-> Len(blob)]
  BY <1>1 DEF Packing
<1>4. /\ packed' = Append(packed, p) /\ packed' \in Seq(Packing)
      /\ Len(packed') = Len(packed) + 1 /\ Len(packed) \in Nat
  BY <1>2, <1>3, AppendProperties DEF IInv
<1>5. Len(packed') <= MaxChain
  BY <1>4, ChainAssumption
<1>6. /\ host \in Hosts /\ origin \in Stubs /\ image.fmt = origin.fmt
      /\ LoaderView(image) = LoaderView(origin) /\ packed \in Seq(Packing)
  BY DEF IInv, LoaderViewKept
<1> HIDE DEF blob
<1>7. RefusedOnlyWhenTight'
  BY <1>2 DEF RefusedOnlyWhenTight
<1>8. SUFFICES /\ image'.fmt = image.fmt /\ LoaderView(image') = LoaderView(image)
               /\ LinkedInv' /\ SignatureFresh'
  BY <1>2, <1>4, <1>5, <1>6, <1>7 DEF IInv, Verdicts, LoaderViewKept
<1>9. CASE origin.fmt = "elf"
  <2>1. image.fmt = "elf" /\ ElfLinked(image) /\ ElfChain(origin, image, packed)
    BY <1>6, <1>9 DEF IInv, LinkedInv
  <2>2. image' = InjectElf(image, blob, p.kind)
    BY <1>2, <2>1 DEF Injected
  <2>3. ElfLinked(image') /\ LoaderView(image') = LoaderView(image)
    BY <1>1, <2>1, <2>2, ElfStep
  <2>4. ElfChain(origin, image', packed')
    <3>1. origin \in ElfImage
      BY <1>6, <1>9, StubFacts
    <3> QED
      BY <1>4, <1>6, <2>1, <2>2, <3>1, ElfChainStep DEF blob
  <2>5. image'.fmt = "elf"
    BY <2>3 DEF ElfLinked, ElfImage
  <2> QED
    BY <1>2, <1>9, <2>1, <2>3, <2>4, <2>5 DEF LinkedInv, SignatureFresh
<1>10. CASE origin.fmt = "pe"
  <2>1. image.fmt = "pe" /\ PeLinked(image) /\ PeChain(origin, image, packed)
    BY <1>6, <1>10 DEF IInv, LinkedInv
  <2>2. image' = InjectPe(image, blob, p.kind) /\ HeaderRoom(image)
    BY <1>2, <2>1 DEF Injected, InjectVerdict
  <2>3. PeLinked(image') /\ LoaderView(image') = LoaderView(image)
    BY <1>1, <2>1, <2>2, PeStep
  <2>4. PeChain(origin, image', packed')
    <3>1. origin \in PeImage
      BY <1>6, <1>10, StubFacts
    <3> QED
      BY <1>4, <1>6, <2>1, <2>2, <3>1, PeChainStep DEF blob
  <2>5. image'.fmt = "pe"
    BY <2>3 DEF PeLinked, PeImage
  <2> QED
    BY <1>2, <1>10, <2>1, <2>3, <2>4, <2>5 DEF LinkedInv, SignatureFresh
<1>11. CASE origin.fmt = "macho"
  <2> DEFINE mid == SpliceMacho(image, BlobOf(p), p.kind)
  <2>1. image.fmt = "macho" /\ MachoGood(host, origin, image, packed) /\ MachoLinked(origin)
    BY <1>6, <1>11, StubFacts DEF IInv, LinkedInv
  <2>2. /\ SlackFits(image)
        /\ host = "macos" => CanSign(mid)
    BY <1>2, <2>1 DEF InjectVerdict, blob
  <2>3. image' = IF host = "macos" THEN Resign(mid) ELSE mid
    BY <1>2, <2>1 DEF Injected, blob
  <2> HIDE DEF mid
  <2>4. /\ MachoGood(host, origin, image', Append(packed, p))
        /\ LoaderView(image') = LoaderView(image) /\ Fresh(host, image')
    BY <1>6, <2>1, <2>2, <2>3, MachoInject DEF mid
  <2>5. image'.fmt = "macho"
    BY <2>4, MachoTypes DEF MachoGood
  <2>6. SignatureFresh'
    BY <1>2, <2>4 DEF SignatureFresh, Fresh
  <2> QED
    BY <1>2, <1>4, <1>11, <2>1, <2>4, <2>5, <2>6 DEF LinkedInv
<1> QED
  BY <1>6, <1>9, <1>10, <1>11, StubFacts DEF Formats

\* A refusal changes nothing, and its reason is the one the stub gives.
LEMMA RefuseInductive ==
  ASSUME IInv, NEW why \in Verdicts, Refuse(why),
         \/ why \in {"template", "size"}
         \/ \E p \in Packing : why = InjectVerdict(image, BlobOf(p), p.kind)
  PROVE  IInv'
<1>1. /\ verdict' = why /\ host' = host /\ origin' = origin /\ image' = image
      /\ packed' = packed
  BY DEF Refuse
<1>2. /\ LinkedInv' /\ LoaderViewKept' /\ SignatureFresh'
  <2>1. LinkedInv /\ LoaderViewKept /\ SignatureFresh
    BY DEF IInv
  <2>2. LinkedInv'
    BY <1>1, <2>1 DEF LinkedInv
  <2>3. LoaderViewKept'
    BY <1>1, <2>1 DEF LoaderViewKept
  <2>4. SignatureFresh'
    BY <1>1, <2>1 DEF SignatureFresh
  <2> QED
    BY <2>2, <2>3, <2>4
<1>3. RefusedOnlyWhenTight'
  <2>1. why # "layout"
    <3>1. ASSUME NEW p \in Packing, why = InjectVerdict(image, BlobOf(p), p.kind), why = "layout"
          PROVE  FALSE
      <4>1. image.fmt = "macho" /\ SlackFits(image) /\ ~InFileOrder(image)
        BY <3>1 DEF InjectVerdict
      <4>2. MachoLinked(image)
        BY <4>1 DEF IInv, LinkedInv, MachoGood
      <4> QED
        BY <4>1, <4>2, InOrder
    <3> QED
      BY <3>1
  <2>2. ASSUME image.fmt = "macho", why \in {"slack", "signer"}
        PROVE  FirstSection(origin) - EndOfLc(origin)
                 < (Len(packed) + 1) * NewLcSize + Pending(host, origin)
    <3>1. PICK p \in Packing : why = InjectVerdict(image, BlobOf(p), p.kind)
      BY <2>2
    <3>2. \/ ~SlackFits(image)
          \/ host = "macos" /\ ~CanSign(SpliceMacho(image, BlobOf(p), p.kind))
      BY <2>2, <3>1 DEF InjectVerdict
    <3>3. MachoGood(host, origin, image, packed) /\ origin \in Stubs /\ origin.fmt = "macho"
          /\ packed \in Seq(Packing)
      BY <2>2 DEF IInv, LinkedInv
    <3>4. MachoLinked(origin)
      BY <3>3, StubFacts
    <3> QED
      BY <3>2, <3>3, <3>4, MachoTight
  <2>3. ASSUME image.fmt = "pe", why = "slack"
        PROVE  origin.headers < origin.table + Len(origin.sects) + Len(packed) + 1
    <3>1. PICK p \in Packing : why = InjectVerdict(image, BlobOf(p), p.kind)
      BY <2>3
    <3>2. ~HeaderRoom(image)
      BY <2>3, <3>1 DEF InjectVerdict
    <3>3. PeChain(origin, image, packed) /\ origin \in Stubs /\ origin.fmt = "pe"
          /\ packed \in Seq(Packing)
      BY <2>3 DEF IInv, LinkedInv
    <3>4. origin \in PeImage
      BY <3>3, StubFacts
    <3>5. origin.headers \in Nat /\ origin.table \in Nat /\ Len(origin.sects) \in Nat
          /\ Len(packed) \in Nat
      BY <3>3, <3>4 DEF PeImage
    <3>6. ~(origin.table + (Len(origin.sects) + Len(packed)) + 1 <= origin.headers)
      BY <3>2, <3>3 DEF HeaderRoom, PeChain
    <3> QED
      BY <3>5, <3>6
  <2> QED
    BY <1>1, <2>1, <2>2, <2>3 DEF RefusedOnlyWhenTight, Pending
<1> QED
  BY <1>1, <1>2, <1>3 DEF IInv

\* A command goes through or is refused.
LEMMA CommandInductive ==
  ASSUME IInv, Len(packed) < MaxChain, NEW kind \in Kinds, NEW a \in Addons,
         NEW len \in BlobLens,
         Inject(kind, a, Blob(kind, a, len)) \/ Blocked(kind, Blob(kind, a, len))
  PROVE  IInv'
<1> DEFINE p == [kind |-> kind, addon |-> a, len |-> len]
<1>1. p \in Packing /\ p.kind = kind /\ p.addon = a
  BY DEF Packing
<1>2. BlobOf(p) = Blob(kind, a, len)
  BY DEF BlobOf
<1> HIDE DEF p
<1>3. CASE Inject(kind, a, Blob(kind, a, len))
  BY <1>1, <1>2, <1>3, InjectInductive
<1>4. CASE Blocked(kind, Blob(kind, a, len))
  <2>1. Refuse(InjectVerdict(image, BlobOf(p), p.kind))
    BY <1>1, <1>2, <1>4 DEF Blocked
  <2>2. InjectVerdict(image, BlobOf(p), p.kind) \in Verdicts
    <3>1. image.fmt \in Formats
      BY StubFacts DEF IInv
    <3> QED
      BY <3>1 DEF InjectVerdict, Verdicts, Formats
  <2> QED
    BY <1>1, <2>1, <2>2, RefuseInductive
<1> QED
  BY <1>3, <1>4

LEMMA NextInductive == ASSUME IInv, [Next]_vars PROVE IInv'
<1>1. CASE CompressNode /\ Len(packed) < MaxChain
  <2>1. PICK a \in Addons, len \in BlobLens :
          Inject("pressed", a, Blob("pressed", a, len)) \/ Blocked("pressed", Blob("pressed", a, len))
    BY <1>1 DEF CompressNode, BuildSection
  <2>2. "pressed" \in Kinds
    BY DEF Kinds
  <2> QED
    BY <1>1, <2>1, <2>2, CommandInductive
<1>2. CASE CompressFfi /\ Len(packed) < MaxChain
  <2>1. PICK a \in Addons, len \in BlobLens :
          \/ Inject("ffi", a, Blob("ffi", a, len)) \/ Blocked("ffi", Blob("ffi", a, len))
          \/ Refuse("template") \/ Refuse("size")
    BY <1>2 DEF CompressFfi, BuildFfiSection
  <2>2. "ffi" \in Kinds /\ "template" \in Verdicts /\ "size" \in Verdicts
    BY DEF Kinds, Verdicts
  <2>3. CASE Refuse("template")
    BY <2>2, <2>3, RefuseInductive
  <2>4. CASE Refuse("size")
    BY <2>2, <2>4, RefuseInductive
  <2> QED
    BY <1>2, <2>1, <2>2, <2>3, <2>4, CommandInductive
<1>3. CASE UNCHANGED vars
  BY <1>3 DEF vars, IInv, LinkedInv, LoaderViewKept, SignatureFresh, RefusedOnlyWhenTight
<1> QED
  BY <1>1, <1>2, <1>3 DEF Next

\* Whatever chain of commands ran, the image is laid out as a linker would have, the sections
\* that went in stand in order, and the room they took is accounted for.
THEOREM Inductive == Spec => []IInv
  BY InitInductive, NextInductive, PTL DEF Spec

\* Every variable keeps its type, and a Mach-O header counts only commands that are there.
THEOREM TypeCorrect == Spec => []TypeOK
<1>1. ASSUME IInv PROVE TypeOK
  <2>1. packed \in SeqOf([kind : Kinds, addon : Addons, len : BlobLens], MaxChain)
    <3>1. packed \in Seq(Packing) /\ Len(packed) \in Nat /\ Len(packed) <= MaxChain
      BY <1>1 DEF IInv
    <3>2. packed \in [1..Len(packed) -> Packing] /\ Len(packed) \in 0..MaxChain
      BY <3>1, ChainAssumption
    <3> QED
      BY <3>2 DEF SeqOf, Packing
  <2>2. ASSUME image.fmt = "macho"
        PROVE  /\ image.ncmds \in 1..Len(image.cmds)
               /\ \A i \in Live(image) : image.cmds[i].size > 0
    <3>1. MachoLinked(image)
      BY <1>1, <2>2 DEF IInv, LinkedInv, MachoGood
    <3>2. PICK le : Anchored(image, le)
      BY <3>1 DEF MachoLinked, Anchored
    <3>3. le \in 1..image.ncmds
      BY <3>1, <3>2, Anchors
    <3>4. image.ncmds \in Nat /\ Len(image.cmds) \in Nat /\ image.ncmds <= Len(image.cmds)
      BY <3>1, MachoTypes
    <3>5. image.ncmds \in 1..Len(image.cmds)
      BY <3>3, <3>4
    <3> QED
      BY <3>1, <3>5 DEF MachoLinked
  <2> QED
    BY <1>1, <2>1, <2>2 DEF IInv, TypeOK
<1> QED
  BY <1>1, Inductive, PTL

\* A reader of the file recovers the first addon and the first library that went in, byte for
\* byte, and nothing of a kind that did not.
THEOREM FirstPackedIsRecovered == Spec => []SectionsRecovered
<1>1. ASSUME IInv PROVE SectionsRecovered
  <2>1. origin \in Stubs /\ LinkedInv /\ packed \in Seq(Packing)
    BY <1>1 DEF IInv
  <2>2. ASSUME Walkable(image) PROVE Readable(image, packed)
    <3>1. CASE origin.fmt = "elf"
      <4>1. origin \in ElfImage /\ image \in ElfImage /\ ElfChain(origin, image, packed)
        BY <2>1, <3>1, StubFacts DEF LinkedInv, ElfLinked
      <4> QED
        BY <2>1, <4>1, ElfReadable
    <3>2. CASE origin.fmt = "pe"
      <4>1. origin \in PeImage /\ image \in PeImage /\ PeChain(origin, image, packed)
        BY <2>1, <3>2, StubFacts DEF LinkedInv, PeLinked
      <4> QED
        BY <2>1, <2>2, <4>1, PeReadable
    <3>3. CASE origin.fmt = "macho"
      <4>1. MachoLinked(image) /\ \E base \in Nat : MachoChain(image, base, packed)
        BY <2>1, <3>3 DEF LinkedInv, MachoGood
      <4> QED
        BY <2>1, <2>2, <4>1, MachoReadable
    <3> QED
      BY <2>1, <3>1, <3>2, <3>3, StubFacts DEF Formats
  <2> QED
    BY <2>1, <2>2, Recovered
<1> QED
  BY <1>1, Inductive, PTL

\* However often an image is injected into, its tables fit, and its sections and segments stay
\* in the file, aligned and apart.
THEOREM LayoutIsSound == Spec => []LayoutSound
<1>1. IInv => LayoutSound
  BY StubFacts DEF IInv, LinkedInv, LayoutSound, ElfLinked, PeLinked, MachoGood, MachoLinked, Formats
<1> QED
  BY <1>1, Inductive, PTL

\* The loader sees the stub it saw before, after any number of injections, in every format.
THEOREM ViewIsKept == Spec => []LoaderViewKept
<1>1. IInv => LoaderViewKept
  BY DEF IInv
<1> QED
  BY <1>1, Inductive, PTL

\* After an injection a Mach-O carries the signature made over it on macOS, and none elsewhere.
THEOREM SignatureIsFresh == Spec => []SignatureFresh
<1>1. IInv => SignatureFresh
  BY DEF IInv
<1> QED
  BY <1>1, Inductive, PTL

\* A chain is refused only when the stub it began with was too tight for its length, and the
\* range guard never refuses what a linker laid out.
THEOREM TightStubsOnly == Spec => []RefusedOnlyWhenTight
<1>1. IInv => RefusedOnlyWhenTight
  BY DEF IInv
<1> QED
  BY <1>1, Inductive, PTL
============================================================================
