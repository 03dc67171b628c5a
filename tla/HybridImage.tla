---------------------------- MODULE HybridImage ----------------------------
(***************************************************************************)
(* The object-file surgery of abitious-decmpfs: what inject_section does   *)
(* to a Mach-O, ELF or PE image, and what find_section and the two         *)
(* decoders then read back.  The state is one native binary that goes      *)
(* through a chain of producer commands, each taking the output of the     *)
(* one before as its stub (compress_node) or its template (compress_ffi).  *)
(*                                                                         *)
(* A file is a sequence of atoms; offsets into it count from 0, as in the  *)
(* code.  Headers and load commands are kept as records beside the atoms   *)
(* they occupy: a byte position inside a header is not modelled, the       *)
(* offset, size, address and alignment arithmetic is.  The unit is one     *)
(* atom; sizes that the code compares keep their order, not their scale.   *)
(* External: apple-codesign, which resign calls on macOS.                  *)
(***************************************************************************)
EXTENDS Integers, Sequences, SequencesExt, FiniteSetsExt

CONSTANTS
    Stubs,        \* the binaries a chain starts from (records, see StubImage)
    Addons,       \* identities of the raw libraries that are packed
    Misfits,      \* those that are empty or longer than MAX_DECOMPRESSED
    BlobLens,     \* lengths of a section blob, header and payload
    Hosts,        \* where the producer runs: "macos" can sign, "other" cannot
    PageSize,     \* Mach-O page
    Word,         \* alignment of what inject_elf appends (8 bytes in the code)
    FileAlign, SectionAlign,   \* PE alignments of the stub
    MaxLoadCommands, MaxPeSections,   \* what find_macho and find_pe walk
    MaxChain      \* bound: how many sections a chain injects

ASSUME BlobLensAssumption == BlobLens \subseteq Nat \ {0, 1}
ASSUME ChainAssumption == MaxChain \in Nat
ASSUME LimitsAssumption ==
    /\ Misfits \subseteq Addons
    /\ MaxLoadCommands \in Nat /\ MaxPeSections \in Nat
ASSUME AlignAssumption == {PageSize, Word, FileAlign, SectionAlign} \subseteq Nat \ {0}

VARIABLES
    host,      \* the machine the chain runs on
    origin,    \* the image the chain started from (never changes)
    image,     \* the binary as the last command left it
    packed,    \* history: the sections injected so far, oldest first
    verdict    \* how the last command ended

vars == <<host, origin, image, packed, verdict>>

Kinds == {"pressed", "ffi"}
Formats == {"macho", "elf", "pe"}
Verdicts == {"ok", "slack", "layout", "signer", "template", "size"}

----------------------------------------------------------------------------
(* Arithmetic and slices.                                                  *)

RoundUp(value, align) == ((value + align - 1) \div align) * align

Atom(tag, who, at, len) == <<tag, who, at, len>>
Zero == Atom("zero", 0, 0, 0)
Zeros(n) == [i \in 1..n |-> Zero]
Run(tag, n) == [i \in 1..n |-> Atom(tag, 0, i, n)]

PadTo(bytes, align) ==
    bytes \o Zeros(RoundUp(Len(bytes), align) - Len(bytes))

(* content.get(off..off + size): the empty sequence stands for None.       *)
Slice(bytes, off, size) ==
    IF off + size <= Len(bytes) THEN SubSeq(bytes, off + 1, off + size) ELSE <<>>

----------------------------------------------------------------------------
(* The section blob: one header atom that states its length and its        *)
(* payload's digest, and the payload.                                      *)

Blob(kind, a, len) == [i \in 1..len |-> Atom(kind, a, i, len)]

BuildSection(a, len) == Blob("pressed", a, len)
BuildFfiSection(a, len) == Blob("ffi", a, len)    \* the envelope around it

None == 0    \* no addon; Addons never holds it

HasMarker(section, kind) ==
    section # <<>> /\ section[1][1] = kind /\ section[1][3] = 1

StatedLen(section) == section[1][4]

(* Mutant: the decoder hashes the whole section instead of the stated      *)
(* length.                                                                 *)
IntegrityToSectionEnd(section, kind) ==
    section = Blob(kind, section[1][2], StatedLen(section))

(* The stated payload is there and has the stated digest.                  *)
Integrity(section, kind) ==
    /\ StatedLen(section) <= Len(section)
    /\ SubSeq(section, 1, StatedLen(section))
         = Blob(kind, section[1][2], StatedLen(section))

(* Both decoders refuse a stated size of zero or above MAX_DECOMPRESSED.   *)
SizeFits(section) == section[1][2] \notin Misfits

DecodePressed(section) ==
    IF /\ HasMarker(section, "pressed") /\ SizeFits(section)
       /\ Integrity(section, "pressed")
    THEN section[1][2] ELSE None

(* The FFI envelope also refuses anything but zeros after its frame.       *)
InspectFfi(section) ==
    /\ HasMarker(section, "ffi") /\ Integrity(section, "ffi") /\ SizeFits(section)
    /\ \A i \in StatedLen(section) + 1..Len(section) : section[i] = Zero

DecodeFfi(section) == IF InspectFfi(section) THEN section[1][2] ELSE None

----------------------------------------------------------------------------
(* Mach-O: `cmds' is the load-command stream, of which the header counts   *)
(* the first `ncmds'.                                                      *)

HeaderSize == 1
NewLcSize == 2     \* segment_command_64 with one section_64
SigLcSize == 1

Section(name, off, size) == [name |-> name, off |-> off, size |-> size]

Segment(name, vmaddr, vmsize, fileoff, filesize, sects) ==
    [cmd |-> "segment", name |-> name, size |-> 1 + Len(sects),
     vmaddr |-> vmaddr, vmsize |-> vmsize,
     fileoff |-> fileoff, filesize |-> filesize, sects |-> sects]

(* A command that points into __LINKEDIT: `fileoff' is its file offset,    *)
(* `filesize' the length of the table it points at.                        *)
Pointing(cmd, name, fileoff, filesize) ==
    [cmd |-> cmd, name |-> name, size |-> 1, vmaddr |-> 0, vmsize |-> 0,
     fileoff |-> fileoff, filesize |-> filesize, sects |-> <<>>]

ZeroedCommand == [Pointing("zeroed", "", 0, 0) EXCEPT !.size = 0]

Live(img) == 1..img.ncmds

(* The walk over the stream: the offset behind each command.               *)
LcEnds(img) ==
    LET off[n \in 0..img.ncmds] ==
            IF n = 0 THEN HeaderSize ELSE off[n - 1] + img.cmds[n].size
    IN  off

EndOfLc(img) == LcEnds(img)[img.ncmds]
AllSections(img) == UNION { Range(img.cmds[i].sects) : i \in Live(img) }
FirstSection(img) == Min({ s.off : s \in AllSections(img) } \ {0})
Linkedit(img) == Max({ i \in Live(img) : img.cmds[i].name = "__LINKEDIT" })
CodeSig(img) == { i \in Live(img) : img.cmds[i].cmd = "signature" }
SigAt(img) == Max(CodeSig(img))

(* Where __LINKEDIT ends once the old signature is left out.               *)
LinkeditEnd(img) ==
    IF CodeSig(img) = {} THEN Len(img.bytes) ELSE img.cmds[SigAt(img)].fileoff

SlackFits(img) == FirstSection(img) - EndOfLc(img) >= NewLcSize

(* The range guard in front of every splice slice.                         *)
InFileOrder(img) ==
    /\ EndOfLc(img) + NewLcSize <= img.cmds[Linkedit(img)].fileoff
    /\ img.cmds[Linkedit(img)].fileoff <= LinkeditEnd(img)
    /\ LinkeditEnd(img) <= Len(img.bytes)

(* The SMOL segment, put where __LINKEDIT began in the file and in memory. *)
SmolSegment(img, blob, kind) ==
    LET le == img.cmds[Linkedit(img)]
    IN  Segment("SMOL", le.vmaddr, RoundUp(Len(blob), PageSize),
                le.fileoff, Len(blob), <<Section(kind, le.fileoff, Len(blob))>>)

(* Mutant: __LINKEDIT keeps its address when it moves in the file.         *)
ShiftedInFileOnly(img, i, delta) ==
    LET c == img.cmds[i]
    IN  CASE i = Linkedit(img) -> [c EXCEPT !.fileoff = @ + delta]
          [] c.cmd = "table" /\ c.fileoff # 0 -> [c EXCEPT !.fileoff = @ + delta]
          [] OTHER -> c

(* One load command after the splice: __LINKEDIT moves and loses the old   *)
(* signature's bytes, every pointer into it moves along, absent tables     *)
(* stay absent.  A "table" is one of the commands that step 1 matches (the *)
(* dyld info, the two symbol tables, the linkedit_data commands); any      *)
(* other command stays as it is, as in the code's last arm.                *)
Shifted(img, i, delta) ==
    LET c == img.cmds[i]
        remaining == LinkeditEnd(img) - c.fileoff
    IN  CASE i = Linkedit(img) /\ CodeSig(img) = {} ->
                 [c EXCEPT !.fileoff = @ + delta, !.vmaddr = @ + delta]
          [] i = Linkedit(img) /\ CodeSig(img) # {} ->
                 [c EXCEPT !.fileoff = @ + delta, !.vmaddr = @ + delta,
                           !.filesize = remaining,
                           !.vmsize = RoundUp(remaining, PageSize)]
          [] c.cmd = "table" /\ c.fileoff # 0 -> [c EXCEPT !.fileoff = @ + delta]
          [] OTHER -> c

(* Mutant: the stale signature command stays.                              *)
StripNothing(img) == img

(* Mutant: the signature command is zeroed and still counted.              *)
StripKeepsCount(img) ==
    IF CodeSig(img) = {} THEN img
    ELSE [img EXCEPT !.cmds[SigAt(img)] = ZeroedCommand]

(* The signature command is zeroed where it stands and the count drops by  *)
(* one: what is left out is the last command, whichever that is.           *)
StripSignature(img) ==
    IF CodeSig(img) = {} THEN img
    ELSE [img EXCEPT !.ncmds = @ - 1, !.cmds[SigAt(img)] = ZeroedCommand]

(* Mutant: __LINKEDIT and its tables move by the blob's length, not by     *)
(* its pages.                                                              *)
SpliceByBodyLength(img, blob, kind) ==
    LET le == Linkedit(img)
        start == img.cmds[le].fileoff
        moved == [i \in Live(img) |-> Shifted(img, i, Len(blob))]
    IN  StripSignature(
          [img EXCEPT
             !.ncmds = @ + 1,
             !.cmds = InsertAt(moved, le, SmolSegment(img, blob, kind)),
             !.bytes = SubSeq(@, 1, start) \o PadTo(blob, PageSize)
                         \o SubSeq(@, start + 1, LinkeditEnd(img))])

(* Mutant: what follows the splice is taken to run to the end of the file, *)
(* signature or not.                                                       *)
SpliceToEndOfFile(img, blob, kind) ==
    LET le == Linkedit(img)
        start == img.cmds[le].fileoff
        moved == [i \in Live(img) |-> Shifted(img, i, RoundUp(Len(blob), PageSize))]
    IN  StripSignature(
          [img EXCEPT
             !.ncmds = @ + 1,
             !.cmds = InsertAt(moved, le, SmolSegment(img, blob, kind)),
             !.bytes = SubSeq(@, 1, start) \o PadTo(blob, PageSize)
                         \o SubSeq(@, start + 1, Len(@))])

SpliceMacho(img, blob, kind) ==
    LET le == Linkedit(img)
        start == img.cmds[le].fileoff
        delta == RoundUp(Len(blob), PageSize)
        moved == [i \in Live(img) |-> Shifted(img, i, delta)]
    IN  StripSignature(
          [img EXCEPT
             !.ncmds = @ + 1,
             !.cmds = InsertAt(moved, le, SmolSegment(img, blob, kind)),
             !.bytes = SubSeq(@, 1, start) \o PadTo(blob, PageSize)
                         \o SubSeq(@, start + 1, LinkeditEnd(img))])

(* The signer adds its command after the last one and its bytes at the end *)
(* of __LINKEDIT, which it extends.  `who' tells which content it covers.  *)
SmolCount(img) == Cardinality({ i \in Live(img) : img.cmds[i].name = "SMOL" })
SignatureAtoms(img) == << Atom("sig", SmolCount(img), 1, 1) >>

CanSign(img) == EndOfLc(img) + SigLcSize <= FirstSection(img)

Resign(img) ==
    LET at == Len(img.bytes)
        le == Linkedit(img)
        size == at + Len(SignatureAtoms(img)) - img.cmds[le].fileoff
        extended == [img.cmds[le] EXCEPT !.filesize = size,
                                         !.vmsize = RoundUp(size, PageSize)]
    IN  [img EXCEPT
           !.cmds = Append(SubSeq([@ EXCEPT ![le] = extended], 1, img.ncmds),
                           Pointing("signature", "", at, Len(SignatureAtoms(img)))),
           !.ncmds = @ + 1,
           !.bytes = @ \o SignatureAtoms(img)]

(* The reader: the first SMOL segment that holds a section of this name,   *)
(* unless the walk meets a command of size zero before it or stops at its  *)
(* limit.                                                                  *)
FindMacho(img, kind) ==
    LET Holds(i) == /\ img.cmds[i].name = "SMOL"
                    /\ \E s \in Range(img.cmds[i].sects) : s.name = kind
        hits == { i \in Live(img) : /\ i <= MaxLoadCommands /\ Holds(i)
                                    /\ \A j \in 1..i : img.cmds[j].size # 0 }
        sect == CHOOSE s \in Range(img.cmds[Min(hits)].sects) : s.name = kind
    IN  IF hits = {} THEN <<>> ELSE Slice(img.bytes, sect.off, sect.size)

----------------------------------------------------------------------------
(* ELF: section headers only.  A section's name is an offset into the      *)
(* string table, one atom a name.                                          *)

ElfName(kind) == Atom(kind, 0, 0, 0)

ElfNameOf(img, i) ==
    LET strs == img.sects[img.strndx]
    IN  Slice(Slice(img.bytes, strs.off, strs.size), img.sects[i].name, 1)

(* Appended, each part aligned: the blob, the string table grown by one    *)
(* name, and a fresh section-header table.                                 *)
InjectElf(img, blob, kind) ==
    LET strs == img.sects[img.strndx]
        data == PadTo(img.bytes, Word)
        names == PadTo(data \o blob, Word)
        table == PadTo(names \o Slice(img.bytes, strs.off, strs.size)
                             \o <<ElfName(kind)>>, Word)
        grown == [strs EXCEPT !.off = Len(names), !.size = @ + 1]
    IN  [img EXCEPT
           !.sects = Append([@ EXCEPT ![img.strndx] = grown],
                            Section(strs.size, Len(data), Len(blob))),
           !.bytes = table \o Run("shdr", Len(img.sects) + 1)]

FindElf(img, kind) ==
    LET hits == { i \in DOMAIN img.sects : ElfNameOf(img, i) = <<ElfName(kind)>> }
        sect == img.sects[Min(hits)]
    IN  IF hits = {} THEN <<>> ELSE Slice(img.bytes, sect.off, sect.size)

----------------------------------------------------------------------------
(* PE: a section header in the slack below SizeOfHeaders, raw data at the  *)
(* end of the file padded to FileAlignment.                                *)

PeSection(name, va, vsize, rawptr, rawsize) ==
    [name |-> name, va |-> va, vsize |-> vsize, off |-> rawptr, size |-> rawsize]

HeaderRoom(img) == img.table + Len(img.sects) + 1 <= img.headers

InjectPe(img, blob, kind) ==
    LET va == RoundUp(Max({0} \union { s.va + s.vsize : s \in Range(img.sects) }),
                      SectionAlign)
        before == PadTo(img.bytes, FileAlign)
    IN  [img EXCEPT
           !.sects = Append(@, PeSection(kind, va, Len(blob), Len(before),
                                         RoundUp(Len(blob), FileAlign))),
           !.bytes = before \o PadTo(blob, FileAlign),
           !.imageSize = RoundUp(va + Len(blob), SectionAlign)]

(* A table that is too long is not read at all, though inject_pe extends   *)
(* it past any length.                                                     *)
FindPe(img, kind) ==
    LET hits == { i \in DOMAIN img.sects : img.sects[i].name = kind }
        sect == img.sects[Min(hits)]
    IN  IF Len(img.sects) > MaxPeSections \/ hits = {} THEN <<>>
        ELSE Slice(img.bytes, sect.off, sect.size)

----------------------------------------------------------------------------
(* The two dispatches on the leading magic.                                *)

Find(img, kind) ==
    CASE img.fmt = "macho" -> FindMacho(img, kind)
      [] img.fmt = "elf"   -> FindElf(img, kind)
      [] img.fmt = "pe"    -> FindPe(img, kind)

(* unwrap_if_hybrid, its FFI counterpart, and inspect_hybrid.              *)
UnwrapIfHybrid(img) == DecodePressed(Find(img, "pressed"))
UnwrapFfi(img) == DecodeFfi(Find(img, "ffi"))
Extract(img, kind) == IF kind = "ffi" THEN UnwrapFfi(img) ELSE UnwrapIfHybrid(img)
InspectHybrid(img) == HasMarker(Find(img, "pressed"), "pressed")

(* What inject_section answers before it builds anything.                  *)
InjectVerdict(img, blob, kind) ==
    CASE img.fmt = "elf" -> "ok"
      [] img.fmt = "pe"  -> IF HeaderRoom(img) THEN "ok" ELSE "slack"
      [] img.fmt = "macho" /\ ~SlackFits(img) -> "slack"
      [] img.fmt = "macho" /\ SlackFits(img) /\ ~InFileOrder(img) -> "layout"
      [] OTHER -> IF host = "macos" /\ ~CanSign(SpliceMacho(img, blob, kind))
                  THEN "signer" ELSE "ok"

Injected(img, blob, kind) ==
    CASE img.fmt = "elf" -> InjectElf(img, blob, kind)
      [] img.fmt = "pe"  -> InjectPe(img, blob, kind)
      [] OTHER -> IF host = "macos" THEN Resign(SpliceMacho(img, blob, kind))
                                    ELSE SpliceMacho(img, blob, kind)

----------------------------------------------------------------------------
(* The producer commands.  An error leaves the output as it was.           *)

Init ==
    /\ host \in Hosts
    /\ origin \in Stubs
    /\ image = origin
    /\ packed = <<>>
    /\ verdict = "ok"

Refuse(why) ==
    /\ verdict' = why
    /\ UNCHANGED <<host, origin, image, packed>>

Inject(kind, a, blob) ==
    /\ InjectVerdict(image, blob, kind) = "ok"
    /\ image' = Injected(image, blob, kind)
    /\ packed' = Append(packed, [kind |-> kind, addon |-> a, len |-> Len(blob)])
    /\ verdict' = "ok"
    /\ UNCHANGED <<host, origin>>

Blocked(kind, blob) ==
    /\ InjectVerdict(image, blob, kind) # "ok"
    /\ Refuse(InjectVerdict(image, blob, kind))

(* compress_node (abi build --compress, abitious-producer): any binary is  *)
(* taken as a stub, and an addon of any size.                              *)
CompressNode ==
    \E a \in Addons, len \in BlobLens :
        LET blob == BuildSection(a, len)
        IN  Inject("pressed", a, blob) \/ Blocked("pressed", blob)

ObjectIsFor(img, target) == img.fmt = target

(* compress_ffi (abi pack-ffi): Darwin needs a macOS host, the template    *)
(* has to be of the target's format and may hold neither section, and the  *)
(* library has to be of a size that can be read back.                      *)
FfiTemplate(target) ==
    /\ target = "macho" => host = "macos"
    /\ ObjectIsFor(image, target)
    /\ Find(image, "ffi") = <<>>
    /\ ~InspectHybrid(image)

CompressFfi ==
    \E a \in Addons, len \in BlobLens, target \in Formats :
        LET blob == BuildFfiSection(a, len)
        IN  \/ a \in Misfits /\ Refuse("size")
            \/ a \notin Misfits /\ ~FfiTemplate(target) /\ Refuse("template")
            \/ /\ a \notin Misfits /\ FfiTemplate(target)
               /\ Inject("ffi", a, blob) \/ Blocked("ffi", blob)

Next ==
    /\ Len(packed) < MaxChain
    /\ CompressNode \/ CompressFfi

Spec == Init /\ [][Next]_vars

----------------------------------------------------------------------------
(* Properties.                                                             *)

(* Every variable has its type; the header counts only commands that are   *)
(* there and not zeroed (steps 3 and 6 of the splice bump and drop it).    *)
TypeOK ==
    /\ host \in Hosts /\ origin \in Stubs /\ verdict \in Verdicts
    /\ packed \in SeqOf([kind : Kinds, addon : Addons, len : BlobLens], MaxChain)
    /\ image.fmt = origin.fmt
    /\ image.fmt = "macho" =>
         /\ image.ncmds \in 1..Len(image.cmds)
         /\ \A i \in Live(image) : image.cmds[i].size > 0

FirstOf(kind) ==
    LET of == { i \in DOMAIN packed : packed[i].kind = kind }
    IN  IF of = {} THEN None ELSE packed[Min(of)].addon

(* No reader decodes an addon that is empty or too long.                   *)
Decoded(a) == IF a \in Misfits THEN None ELSE a

(* The readers get to every section that was injected.                     *)
Walkable(img) ==
    /\ img.fmt = "pe" => Len(img.sects) <= MaxPeSections
    /\ img.fmt = "macho" =>
         \A i \in Live(img) : img.cmds[i].name = "SMOL" => i <= MaxLoadCommands

(* Whatever chain of commands made the file, and whatever their paddings,  *)
(* a reader recovers byte for byte the first addon and the first library   *)
(* that were packed, and finds nothing of a kind that was not: the two     *)
(* sections, the alignment padding of PE and the moves of later            *)
(* injections never get in each other's way.                               *)
SectionsRecovered ==
    Walkable(image) => \A kind \in Kinds : Extract(image, kind) = Decoded(FirstOf(kind))

Added(name) == name \in {"SMOL"} \union Kinds

(* A zero-fill section and an absent table have offset 0 and nothing in    *)
(* the file.                                                               *)
Content(img, off, size) == IF off = 0 THEN <<>> ELSE Slice(img.bytes, off, size)

(* What the loader maps and dyld follows, apart from what we injected:     *)
(* each section and each __LINKEDIT table with the content it points at.   *)
LoaderView(img) ==
    CASE img.fmt = "macho" ->
             { <<s.name, s.off, Content(img, s.off, s.size)>> :
                   s \in { t \in AllSections(img) : ~Added(t.name) } }
             \union
             { <<c.name, c.fileoff = 0, Content(img, c.fileoff, c.filesize)>> :
                   c \in { img.cmds[i] : i \in { j \in Live(img) :
                                                 img.cmds[j].cmd = "table" } } }
      [] img.fmt = "elf" ->
             { <<ElfNameOf(img, i), img.sects[i].off,
                 Slice(img.bytes, img.sects[i].off, img.sects[i].size)>> :
                   i \in { j \in DOMAIN img.sects \ {img.strndx} :
                             ~Added(ElfNameOf(img, j)[1][1]) } }
      [] img.fmt = "pe" ->
             { <<s.name, s.va, Slice(img.bytes, s.off, s.size)>> :
                   s \in { t \in Range(img.sects) : ~Added(t.name) } }

(* inject.rs promises that nothing the loader maps moves (ELF, PE) or      *)
(* that all that moves is followed (every pointer into __LINKEDIT): the    *)
(* loader sees the stub it saw before, after any number of injections.     *)
LoaderViewKept == LoaderView(image) = LoaderView(origin)

Apart(a, alen, b, blen) == a + alen <= b \/ b + blen <= a

SegmentsOf(img) ==
    { img.cmds[i] : i \in { j \in Live(img) : img.cmds[j].cmd = "segment" } }

MachoSound(img) ==
    /\ EndOfLc(img) <= FirstSection(img)
    /\ \A s \in SegmentsOf(img) :
         /\ s.fileoff % PageSize = 0 /\ s.vmaddr % PageSize = 0
         /\ s.filesize <= s.vmsize
         /\ s.fileoff + s.filesize <= Len(img.bytes)
    /\ \A s, t \in SegmentsOf(img) :
         s = t \/ /\ Apart(s.vmaddr, s.vmsize, t.vmaddr, t.vmsize)
                  /\ Apart(s.fileoff, s.filesize, t.fileoff, t.filesize)

ElfSound(img) ==
    /\ \A i \in DOMAIN img.sects :
         img.sects[i].off + img.sects[i].size <= Len(img.bytes)
    /\ \A i, j \in DOMAIN img.sects :
         i = j \/ Apart(img.sects[i].off, img.sects[i].size,
                        img.sects[j].off, img.sects[j].size)

PeSound(img) ==
    /\ img.table + Len(img.sects) <= img.headers
    /\ \A s \in Range(img.sects) :
         /\ s.size = 0 \/ s.off >= img.headers
         /\ s.off + s.size <= Len(img.bytes)
         /\ s.off % FileAlign = 0 /\ s.va % SectionAlign = 0
         /\ s.va + s.vsize <= img.imageSize
    /\ \A s, t \in Range(img.sects) :
         s = t \/ /\ Apart(s.va, s.vsize, t.va, t.vsize)
                  /\ Apart(s.off, s.size, t.off, t.size)

(* A loader accepts the file: tables fit in their slack, sections and      *)
(* segments stay in the file, aligned, and never overlap, in the file or   *)
(* in memory, however many sections were added.                            *)
LayoutSound ==
    CASE image.fmt = "macho" -> MachoSound(image)
      [] image.fmt = "elf"   -> ElfSound(image)
      [] image.fmt = "pe"    -> PeSound(image)

SigAtoms(img) == { i \in DOMAIN img.bytes : img.bytes[i][1] = "sig" }

(* The splice takes LC_CODE_SIGNATURE for the last command and cuts the    *)
(* old signature's bytes off; a macOS producer signs anew.  So after any   *)
(* injection a Mach-O carries no stale signature: on macOS exactly one,    *)
(* the last command and the last bytes, made over the current content, and *)
(* elsewhere none at all.                                                  *)
SignatureFresh ==
    image.fmt = "macho" /\ packed # <<>> =>
      IF host = "macos"
      THEN /\ CodeSig(image) = {image.ncmds}
           /\ SigAtoms(image) = {Len(image.bytes)}
           /\ LinkeditEnd(image) = Len(image.bytes) - 1
           /\ Last(image.bytes) = Atom("sig", SmolCount(image), 1, 1)
      ELSE CodeSig(image) = {} /\ SigAtoms(image) = {}

(* A stub linked with header padding for n more commands takes n sections: *)
(* re-signing gives back the room of the command it strips, so a chain is  *)
(* refused only when the stub it began with was too tight, and a layout    *)
(* the linker made is never refused as out of order.                       *)
RefusedOnlyWhenTight ==
    LET signing == IF host = "macos" /\ CodeSig(origin) = {} THEN SigLcSize ELSE 0
        needed == (Len(packed) + 1) * NewLcSize + signing
    IN  /\ verdict # "layout"
        /\ image.fmt = "macho" /\ verdict \in {"slack", "signer"} =>
             FirstSection(origin) - EndOfLc(origin) < needed
        /\ image.fmt = "pe" /\ verdict = "slack" =>
             origin.headers < origin.table + Len(origin.sects) + Len(packed) + 1

(* inject.rs:169 says of inject_pressed_data that the result round-trips   *)
(* through unwrap_if_hybrid: the section just injected is the one read     *)
(* back.                                                                   *)
RoundTrips ==
    packed # <<>> => Extract(image, Last(packed).kind) = Last(packed).addon

----------------------------------------------------------------------------
(* What the linkers give: the proofs start from it.                        *)

(* Any string; the prover has to be told of those that a command writes.   *)
Tag == STRING \union Kinds \union Formats
         \union {"zero", "shdr", "sig", "", "SMOL", "__LINKEDIT",
                 "segment", "table", "signature", "zeroed"}
Byte == Tag \X (Addons \union Nat) \X Nat \X Nat

Sect == [name : Tag, off : Nat, size : Nat]
Command == [cmd : Tag, name : Tag, size : Nat, vmaddr : Nat, vmsize : Nat,
            fileoff : Nat, filesize : Nat, sects : Seq(Sect)]

MachoImage == [fmt : {"macho"}, ncmds : Nat, cmds : Seq(Command), bytes : Seq(Byte)]

ElfImage == [fmt : {"elf"}, strndx : Nat,
             sects : Seq([name : Nat, off : Nat, size : Nat]), bytes : Seq(Byte)]

PeImage == [fmt : {"pe"}, table : Nat, headers : Nat, imageSize : Nat, bytes : Seq(Byte),
            sects : Seq([name : Tag, va : Nat, vsize : Nat, off : Nat, size : Nat])]

(* __LINKEDIT comes last in the file and in memory and ends the file.      *)
LinkeditLast(img, le) ==
    LET edit == img.cmds[le]
    IN  /\ edit.cmd = "segment" /\ edit.name = "__LINKEDIT" /\ edit.sects = <<>>
        /\ edit.fileoff + edit.filesize = Len(img.bytes)
        /\ \A i \in Live(img) \ {le} :
             /\ img.cmds[i].name # "__LINKEDIT"
             /\ img.cmds[i].cmd = "segment" =>
                  /\ img.cmds[i].fileoff + img.cmds[i].filesize <= edit.fileoff
                  /\ img.cmds[i].vmaddr + img.cmds[i].vmsize <= edit.vmaddr

(* Sections lie before it; the tables that are there lie inside, before    *)
(* the signature.                                                          *)
PartsInPlace(img, le) ==
    /\ \A s \in AllSections(img) : s.off = 0 \/ s.off + s.size <= img.cmds[le].fileoff
    /\ \A i \in Live(img) : img.cmds[i].cmd = "table" /\ img.cmds[i].fileoff # 0 =>
         /\ img.cmds[le].fileoff <= img.cmds[i].fileoff
         /\ img.cmds[i].fileoff + img.cmds[i].filesize <= LinkeditEnd(img)

(* A signature is the last command, and its bytes are the last ones.       *)
SignatureLast(img, le) ==
    /\ CodeSig(img) # {} =>
         /\ CodeSig(img) = {img.ncmds} /\ img.cmds[img.ncmds].size = SigLcSize
         /\ img.cmds[le].fileoff <= LinkeditEnd(img) /\ LinkeditEnd(img) <= Len(img.bytes)
    /\ \A i \in SigAtoms(img) : i > LinkeditEnd(img)

MachoLinked(img) ==
    /\ img \in MachoImage /\ MachoSound(img)
    /\ img.ncmds <= Len(img.cmds)
    /\ \A i \in Live(img) : /\ img.cmds[i].size > 0
                            /\ img.cmds[i].cmd # "segment" => img.cmds[i].sects = <<>>
    /\ \E s \in AllSections(img) : s.off # 0
    /\ \E le \in Live(img) : /\ LinkeditLast(img, le) /\ PartsInPlace(img, le)
                             /\ SignatureLast(img, le)

(* The names of the sections are in the string table, which is none of     *)
(* them that the loader follows.  A section that has no bytes in the file  *)
(* (SHT_NULL, SHT_NOBITS) has size 0 here.                                 *)
ElfLinked(img) ==
    /\ img \in ElfImage /\ ElfSound(img)
    /\ img.strndx \in DOMAIN img.sects
    /\ \A i \in DOMAIN img.sects : img.sects[i].name < img.sects[img.strndx].size

PeLinked(img) ==
    /\ img \in PeImage /\ PeSound(img)
    /\ img.headers <= Len(img.bytes)

(* A chain starts from a binary that holds nothing yet.                    *)
Raw(stub) ==
    /\ stub.fmt = "macho" => /\ \A i \in Live(stub) : stub.cmds[i].name # "SMOL"
                             /\ \A s \in AllSections(stub) : ~Added(s.name)
    /\ stub.fmt = "elf" => \A i \in DOMAIN stub.sects : ~Added(ElfNameOf(stub, i)[1][1])
    /\ stub.fmt = "pe" => \A s \in Range(stub.sects) : ~Added(s.name)

ASSUME StubsAssumption ==
    \A stub \in Stubs : /\ stub.fmt \in Formats /\ Raw(stub)
                        /\ stub.fmt = "macho" => MachoLinked(stub)
                        /\ stub.fmt = "elf" => ElfLinked(stub)
                        /\ stub.fmt = "pe" => PeLinked(stub)
============================================================================
